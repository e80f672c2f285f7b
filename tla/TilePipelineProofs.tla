--------------------------- MODULE TilePipelineProofs ---------------------------
(***************************************************************************)
(* Safety of TilePipeline for any tiles, threads, sizes and limits.        *)
(* Every tile message in flight is one that a sender can have made, Sent,  *)
(* and what a thread holds is what its call made of its input, CallOK.      *)
(***************************************************************************)
EXTENDS TilePipeline, FiniteSetTheorems, TLAPS

\* What a sender may put under the label c.
Outputs(c, t) == {Samples(t)} \cup (IF c = "None" THEN {} ELSE Compressions(c, Samples(t)))

Sent(m) == \E t \in Tile, c \in Codec : \E b \in Outputs(c, t) : m = Message(t, c, b)

WireOK == \A x \in wire : "tile" \in DOMAIN x => Sent(x.tile)

\* Of a tile with all its samples, r is accepted only as what was sent.
Faithful(c, t, in, out) ==
  IsValidTileData(t, Samples(t)) /\ IsValidTileData(t, out)
  => out = Samples(t) \/ (out.made = "noise" /\ in.made # c)

CallOK(r) ==
  /\ r.op = "compress" => r.out \in Outputs(r.codec, r.tile)
  /\ r.op = "decompress" => Faithful(r.codec, r.tile, r.in, r.out)
  /\ r.at = "count" /\ r.op # "decompress" =>
       r.codec # "None" /\ r.out.size <= CompressBound(r.codec, r.in.size)

CallsOK == \A w \in Worker : call[w] # Idle => CallOK(call[w])

IInv == TypeOK /\ WireOK /\ CallsOK /\ RatioOfCountedCalls
-----------------------------------------------------------------------------
LEMMA ProductNat ==
  ASSUME NEW x \in Nat, NEW y \in Nat
  PROVE  x * y \in Nat
OBVIOUS

LEMMA ExpectedNat ==
  ASSUME NEW t \in Tile
  PROVE  ExpectedDataSize(t) \in Nat
<1>1. t.tile_w \in Nat /\ t.tile_h \in Nat
  BY TileAssumption
<1>2. t.tile_w * t.tile_h \in Nat
  BY <1>1, ProductNat
<1>3. BytesPerSample(t.dtype) \in Nat
  BY DEF BytesPerSample
<1> QED BY <1>2, <1>3, ProductNat DEF ExpectedDataSize

\* A size that payload_bytes cannot hold is recorded as one smaller by Word or more.
LEMMA Wrapped ==
  ASSUME NEW n \in Nat
  PROVE  /\ n % Word \in 0 .. Word - 1
         /\ n % Word <= n
         /\ n % Word # n => n % Word <= n - Word
<1>1. Word \in Nat /\ Word > 1
  BY TileAssumption
<1>2. n % Word \in 0 .. Word - 1
  BY <1>1
<1>3. n = Word * (n \div Word) + (n % Word) /\ n \div Word \in Nat
  BY <1>1
<1>4. CASE n \div Word = 0
  <2>1. n = n % Word
    BY <1>1, <1>2, <1>3, <1>4
  <2> QED BY <1>2, <2>1
<1>5. CASE n \div Word # 0
  <2> DEFINE q == n \div Word
  <2>1. q \in Nat /\ q >= 1
    BY <1>3, <1>5
  <2>2. Word * q >= Word
    BY <1>1, <2>1
  <2>3. n = (Word * q) + (n % Word)
    BY <1>3
  <2>4. Word * q \in Nat /\ n % Word \in Nat
    BY <1>1, <1>2, <2>1
  <2> HIDE DEF q
  <2> QED BY <1>1, <1>2, <2>2, <2>3, <2>4
<1> QED BY <1>4, <1>5

\* A compression lengthens a tile by less than Word.
LEMMA Lengthened ==
  ASSUME NEW c \in Codec, NEW n \in Nat
  PROVE  CompressBound(c, n) \in Nat /\ CompressBound(c, n) <= n + n \div 255 + 64
<1>1. n \div 256 <= n \div 255 /\ n \div 255 \in Nat /\ n \div 256 \in Nat
  OBVIOUS
<1>2. n < 131072 => (131072 - n) \div 2048 \in 0 .. 64
  OBVIOUS
<1> QED BY <1>1, <1>2 DEF CompressBound, Codec

LEMMA LessThanWordLonger ==
  ASSUME NEW c \in Codec, NEW t \in Tile
  PROVE  CompressBound(c, t.size) < t.size + Word
<1>1. t.size \in Nat /\ t.size \div 255 + 64 < Word /\ Word \in Nat
  BY TileAssumption, CompressorAssumption
<1>2. CompressBound(c, t.size) \in Nat /\ CompressBound(c, t.size) <= t.size + t.size \div 255 + 64
  BY <1>1, Lengthened
<1>3. t.size \div 255 \in Nat
  BY <1>1
<1> QED BY <1>1, <1>2, <1>3

LEMMA BufferType ==
  ASSUME NEW b \in Buffer
  PROVE  /\ b = [made |-> b.made, of |-> b.of, raw |-> b.raw, size |-> b.size]
         /\ b.made \in Codec \cup {"cut", "noise"} /\ b.of \in Tile
         /\ b.raw \in Nat /\ b.size \in Nat
BY DEF Buffer

LEMMA SamplesType ==
  ASSUME NEW t \in Tile
  PROVE  Samples(t) \in Buffer /\ t.size \in Nat \ {0}
<1>1. t.size \in Nat \ {0}
  BY TileAssumption
<1> QED BY <1>1 DEF Samples, Buffer, Codec

LEMMA PrefixType ==
  ASSUME NEW b \in Buffer, NEW n \in Nat
  PROVE  /\ Prefix(b, n) \in Buffer
         /\ Prefix(b, n).size = n
BY BufferType DEF Prefix, Buffer, Codec

LEMMA CompressionsType ==
  ASSUME NEW c \in Codec, NEW b \in Buffer, NEW out \in Compressions(c, b)
  PROVE  /\ out \in Buffer
         /\ out.size <= CompressBound(c, b.size)
         /\ out.made = c /\ out.raw = b.size
<1>1. PICK n \in Packed : n <= CompressBound(c, b.size)
                          /\ out = [made |-> c, of |-> b.of, raw |-> b.size, size |-> n]
  BY DEF Compressions
<1>2. n \in Nat
  BY CompressorAssumption
<1> QED BY <1>1, <1>2, BufferType DEF Buffer

LEMMA DecompressionsType ==
  ASSUME NEW c \in Codec, NEW b \in Buffer, NEW cap \in Nat, NEW out \in Decompressions(c, b, cap)
  PROVE  out \in Buffer
<1>1. CASE WrittenBy(c, b)
  <2>1. out = [made |-> "None", of |-> b.of, raw |-> b.raw, size |-> b.raw]
    BY <1>1 DEF Decompressions
  <2> QED BY <2>1, BufferType DEF Buffer, Codec
<1>2. CASE ~ WrittenBy(c, b)
  <2>1. PICK n \in Packed \cup {0, cap} :
           out = [made |-> "noise", of |-> b.of, raw |-> n, size |-> n]
    BY <1>2 DEF Decompressions
  <2>2. n \in Nat
    BY CompressorAssumption
  <2> QED BY <2>1, <2>2, BufferType DEF Buffer
<1> QED BY <1>1, <1>2

LEMMA OutputsType ==
  ASSUME NEW c \in Codec, NEW t \in Tile, NEW b \in Outputs(c, t)
  PROVE  /\ b \in Buffer
         /\ \/ b = Samples(t)
            \/ /\ c # "None" /\ b.made = c /\ b.raw = t.size
               /\ b.size < t.size + Word /\ b.of = t
<1>1. CASE b = Samples(t)
  BY <1>1, SamplesType
<1>2. CASE c # "None" /\ b \in Compressions(c, Samples(t))
  <2>1. Samples(t).size = t.size /\ Samples(t).of = t
    BY DEF Samples
  <2>2. b.of = t
    BY <1>2, <2>1 DEF Compressions
  <2>3. /\ b \in Buffer /\ b.size <= CompressBound(c, t.size)
        /\ b.made = c /\ b.raw = t.size
    BY <1>2, <2>1, SamplesType, CompressionsType
  <2>4. b.size \in Nat /\ t.size \in Nat /\ CompressBound(c, t.size) \in Nat /\ Word \in Nat
    BY <2>3, BufferType, SamplesType, Lengthened, TileAssumption
  <2>5. b.size < t.size + Word
    BY <2>3, <2>4, LessThanWordLonger
  <2> QED BY <1>2, <2>2, <2>3, <2>5
<1> QED BY <1>1, <1>2 DEF Outputs

\* What deserialize makes of a message: its tile and label with the payload, or
\* with a part of it that is shorter than the samples.
LEMMA Received ==
  ASSUME NEW m, Sent(m), NEW n \in Nat, Deserialize(m, n, Null) # Null
  PROVE  LET d == Deserialize(m, n, Null)
             t == d.header.tile
             c == d.header.compression
             p == d.payload
         IN  /\ t \in Tile /\ c \in Codec /\ p \in Buffer
             /\ \/ p = Samples(t)
                \/ c # "None" /\ p.made = c /\ p.raw = t.size /\ p.of = t
                \/ p.size < t.size /\ (c # "None" => p.made # c)
<1>1. PICK t \in Tile, c \in Codec : \E b \in Outputs(c, t) : m = Message(t, c, b)
  BY DEF Sent
<1>2. PICK b \in Outputs(c, t) : m = Message(t, c, b)
  BY <1>1
<1> DEFINE k == b.size % Word
<1>3. /\ b \in Buffer /\ b.size \in Nat
      /\ \/ b = Samples(t)
         \/ c # "None" /\ b.made = c /\ b.raw = t.size /\ b.size < t.size + Word /\ b.of = t
  BY OutputsType, BufferType
<1>4. /\ k \in Nat
      /\ k # b.size => k <= b.size - Word
  BY <1>3, Wrapped, TileAssumption
<1>5. /\ m.header = [msg_type |-> 1, tile |-> t, compression |-> c, payload_bytes |-> k]
      /\ m.payload = b
      /\ m = [header |-> m.header, payload |-> m.payload]
  BY <1>2 DEF Message
<1>6. Deserialize(m, n, Null) = [m EXCEPT !.payload = Prefix(b, k)]
  BY <1>5 DEF Deserialize
<1>7. /\ Deserialize(m, n, Null).header.tile = t
      /\ Deserialize(m, n, Null).header.compression = c
      /\ Deserialize(m, n, Null).payload = Prefix(b, k)
  BY <1>5, <1>6
<1>8. Prefix(b, k) \in Buffer /\ Prefix(b, k).size = k
  BY <1>3, <1>4, PrefixType
<1>9. CASE k = b.size
  <2>1. Prefix(b, k) = b
    BY <1>9 DEF Prefix
  <2> QED BY <1>3, <1>7, <1>8, <2>1
<1>10. CASE k # b.size
  <2>1. k < t.size
    <3>0. t.size \in Nat /\ Word \in Nat /\ Word > 0
      BY SamplesType, TileAssumption
    <3>1. b.size < t.size + Word
      <4>1. CASE b = Samples(t)
        <5>1. b.size = t.size
          BY <4>1 DEF Samples
        <5> QED BY <3>0, <5>1
      <4> QED BY <1>3, <4>1
    <3> HIDE DEF k
    <3> QED BY <1>3, <1>4, <1>10, <3>0, <3>1
  <2>2. Prefix(b, k).made \in {"None", "cut"}
    BY <1>10 DEF Prefix
  <2>3. c # "None" => Prefix(b, k).made # c
    BY <2>2 DEF Codec
  <2> QED BY <1>7, <1>8, <2>1, <2>3
<1> QED BY <1>9, <1>10

\* Whatever decompress makes of that, it is faithful.
LEMMA Restored ==
  ASSUME NEW t \in Tile, NEW c \in Codec, NEW p \in Buffer, NEW out \in Buffer,
         \/ p = Samples(t)
         \/ c # "None" /\ p.made = c /\ p.raw = t.size /\ p.of = t
         \/ p.size < t.size /\ (c # "None" => p.made # c),
         \/ c = "None" /\ out = p
         \/ c # "None" /\ out \in Decompressions(c, p, ExpectedDataSize(t))
         \/ /\ c # "None" /\ ~ (WrittenBy(c, p) /\ p.raw <= ExpectedDataSize(t))
            /\ out = DecompressionFailed(p, ExpectedDataSize(t))
  PROVE  Faithful(c, t, p, out)
<1> SUFFICES ASSUME t.size = ExpectedDataSize(t), out.size = ExpectedDataSize(t)
             PROVE  out = Samples(t) \/ (out.made = "noise" /\ p.made # c)
  BY DEF Faithful, IsValidTileData, Samples
<1>1. t.size \in Nat /\ p.size \in Nat
  BY SamplesType, BufferType
<1>2. CASE out = p
  <2>1. ~ (p.size < t.size)
    BY <1>1, <1>2
  <2>2. CASE p = Samples(t)
    BY <1>2, <2>2
  <2>3. CASE c # "None" /\ p.made = c /\ p.raw = t.size
    <3>1. WrittenBy(c, p) /\ p.raw <= ExpectedDataSize(t)
      BY <1>1, <2>3 DEF WrittenBy
    <3>2. out \in Decompressions(c, p, ExpectedDataSize(t))
      BY <2>3, <3>1
    <3>3. out = [made |-> "None", of |-> p.of, raw |-> p.raw, size |-> p.raw]
      BY <3>1, <3>2 DEF Decompressions
    <3>4. out.made = "None"
      BY <3>3
    <3> QED BY <1>2, <2>3, <3>4
  <2> QED BY <2>1, <2>2, <2>3
<1>3. CASE c # "None" /\ out \in Decompressions(c, p, ExpectedDataSize(t))
  <2>1. CASE WrittenBy(c, p)
    <3>1. p.made = c /\ c # "None" /\ Samples(t).made = "None"
      BY <1>3, <2>1 DEF WrittenBy, Samples
    <3>2. p.raw = t.size /\ p.of = t
      BY <3>1
    <3>3. out = [made |-> "None", of |-> p.of, raw |-> p.raw, size |-> p.raw]
      BY <1>3, <2>1 DEF Decompressions
    <3> QED BY <3>2, <3>3 DEF Samples
  <2>2. CASE ~ WrittenBy(c, p)
    <3>1. out.made = "noise"
      BY <1>3, <2>2 DEF Decompressions
    <3> QED BY <2>2, <3>1 DEF WrittenBy
  <2> QED BY <2>1, <2>2
<1> QED BY <1>2, <1>3 DEF DecompressionFailed

\* The channel's messages have their types.
LEMMA SentType ==
  ASSUME NEW m, Sent(m)
  PROVE  /\ m.header \in [msg_type : {1}, tile : Tile, compression : Codec,
                          payload_bytes : 0 .. Word - 1]
         /\ m.payload \in Buffer
<1>1. PICK t \in Tile, c \in Codec : \E b \in Outputs(c, t) : m = Message(t, c, b)
  BY DEF Sent
<1>2. PICK b \in Outputs(c, t) : m = Message(t, c, b)
  BY <1>1
<1>3. b \in Buffer /\ b.size \in Nat
  BY OutputsType, BufferType
<1>4. b.size % Word \in 0 .. Word - 1
  BY <1>3, Wrapped
<1> QED BY <1>2, <1>3, <1>4 DEF Message

\* A thread that goes into a call, or leaves one, leaves the others where they are.
LEMMA CallStep ==
  ASSUME IInv, NEW w \in Worker, NEW r \in {Idle} \cup Call, r # Idle => CallOK(r),
         call' = [call EXCEPT ![w] = r]
  PROVE  call' \in [Worker -> {Idle} \cup Call] /\ CallsOK'
<1>1. call \in [Worker -> {Idle} \cup Call]
  BY DEF IInv, TypeOK
<1>2. \A v \in Worker : call'[v] = IF v = w THEN r ELSE call[v]
  BY <1>1
<1>3. call' \in [Worker -> {Idle} \cup Call]
  BY <1>1
<1>4. \A v \in Worker : call'[v] # Idle => CallOK(call'[v])
  BY <1>2 DEF IInv, CallsOK
<1> QED BY <1>3, <1>4 DEF CallsOK

StatsType == [compress_calls : Nat, decompress_calls : Nat,
              total_input_bytes : Nat, total_output_bytes : Nat]

Ratio(c, s) == /\ s.compress_calls = 0 => s.total_input_bytes = 0
               /\ s.total_output_bytes <= BoundOfCalls(c, s.total_input_bytes, s.compress_calls)
               /\ c = "None" => s.total_output_bytes = s.total_input_bytes

LEMMA BoundNat ==
  ASSUME NEW c \in Codec, NEW input \in Nat, NEW calls \in Nat
  PROVE  BoundOfCalls(c, input, calls) \in Nat
<1>1. input \div 255 \in Nat /\ input \div 256 \in Nat
  OBVIOUS
<1> QED BY <1>1 DEF BoundOfCalls, Codec

\* One call more, within its own bound, keeps the totals within the bound of all.
LEMMA BoundsAddUp ==
  ASSUME NEW c \in Codec, NEW input \in Nat, NEW calls \in Nat, NEW n \in Nat
  PROVE  BoundOfCalls(c, input, calls) + CompressBound(c, n)
           <= BoundOfCalls(c, input + n, calls + 1)
<1>1. /\ input \div 255 + n \div 255 <= (input + n) \div 255
      /\ input \div 255 \in Nat /\ n \div 255 \in Nat /\ (input + n) \div 255 \in Nat
  OBVIOUS
<1>2. /\ input \div 256 + n \div 256 <= (input + n) \div 256
      /\ input \div 256 \in Nat /\ n \div 256 \in Nat /\ (input + n) \div 256 \in Nat
  OBVIOUS
<1>3. n < 131072 => (131072 - n) \div 2048 \in 0 .. 64
  OBVIOUS
<1>4. CASE c = "None"
  BY <1>4 DEF BoundOfCalls, CompressBound
<1>5. CASE c = "LZ4"
  BY <1>1, <1>5 DEF BoundOfCalls, CompressBound
<1>6. CASE c = "Zstd"
  BY <1>2, <1>3, <1>6 DEF BoundOfCalls, CompressBound
<1> QED BY <1>4, <1>5, <1>6 DEF Codec

\* Counting a call and forgetting all calls keep the totals those of the calls.
LEMMA CountedStats ==
  ASSUME NEW c \in Codec, NEW s \in StatsType, Ratio(c, s), NEW n \in Nat, NEW out \in Nat
  PROVE  /\ CountedDecompress(s) \in StatsType /\ Ratio(c, CountedDecompress(s))
         /\ Stats \in StatsType /\ Ratio(c, Stats)
         /\ out <= CompressBound(c, n) /\ (c = "None" => out = n) =>
              CountedCompress(s, n, out) \in StatsType /\ Ratio(c, CountedCompress(s, n, out))
<1>1. /\ CountedDecompress(s) \in StatsType
      /\ CountedDecompress(s).compress_calls = s.compress_calls
      /\ CountedDecompress(s).total_input_bytes = s.total_input_bytes
      /\ CountedDecompress(s).total_output_bytes = s.total_output_bytes
  BY DEF StatsType, CountedDecompress
<1>2. Ratio(c, CountedDecompress(s))
  BY <1>1 DEF Ratio
<1>3. Stats \in StatsType /\ Ratio(c, Stats)
  BY DEF Stats, StatsType, Ratio, BoundOfCalls, Codec
<1>4. /\ CountedCompress(s, n, out) \in StatsType
      /\ CountedCompress(s, n, out).compress_calls = s.compress_calls + 1
      /\ CountedCompress(s, n, out).total_input_bytes = s.total_input_bytes + n
      /\ CountedCompress(s, n, out).total_output_bytes = s.total_output_bytes + out
  BY DEF StatsType, CountedCompress
<1>5. ASSUME out <= CompressBound(c, n), c = "None" => out = n
      PROVE  Ratio(c, CountedCompress(s, n, out))
  <2> DEFINE input == s.total_input_bytes
             calls == s.compress_calls
             output == s.total_output_bytes
  <2>1. /\ calls \in Nat /\ input \in Nat /\ output \in Nat
        /\ output <= BoundOfCalls(c, input, calls)
        /\ c = "None" => output = input
    BY DEF StatsType, Ratio
  <2>2. BoundOfCalls(c, input, calls) \in Nat /\ BoundOfCalls(c, input + n, calls + 1) \in Nat
    <3>1. input + n \in Nat /\ calls + 1 \in Nat
      BY <2>1
    <3> HIDE DEF input, calls
    <3> QED BY <2>1, <3>1, BoundNat
  <2>3. CompressBound(c, n) \in Nat
    BY Lengthened
  <2> HIDE DEF input, calls, output
  <2>4. output + out <= BoundOfCalls(c, input + n, calls + 1)
    <3>1. BoundOfCalls(c, input, calls) + CompressBound(c, n)
            <= BoundOfCalls(c, input + n, calls + 1)
      BY <2>1, BoundsAddUp
    <3> QED BY <1>5, <2>1, <2>2, <2>3, <3>1
  <2>5. c = "None" => output + out = input + n
    BY <1>5, <2>1
  <2>6. calls + 1 # 0
    BY <2>1
  <2> QED BY <1>4, <2>4, <2>5, <2>6 DEF Ratio, input, calls, output
<1> QED BY <1>1, <1>2, <1>3, <1>4, <1>5

LEMMA StatsStep ==
  ASSUME IInv, NEW c \in Codec, NEW s \in StatsType, Ratio(c, s), stats' = [stats EXCEPT ![c] = s]
  PROVE  stats' \in [Codec -> StatsType] /\ RatioOfCountedCalls'
<1>1. stats \in [Codec -> StatsType]
  BY DEF IInv, TypeOK, StatsType
<1>2. \A d \in Codec : stats'[d] = IF d = c THEN s ELSE stats[d]
  BY <1>1
<1>3. \A d \in Codec : Ratio(d, stats'[d])
  BY <1>2 DEF IInv, RatioOfCountedCalls, Ratio
<1> QED BY <1>1, <1>3 DEF RatioOfCountedCalls, Ratio

LEMMA StatsOf ==
  ASSUME IInv, NEW c \in Codec
  PROVE  stats[c] \in StatsType /\ Ratio(c, stats[c])
BY DEF IInv, TypeOK, RatioOfCountedCalls, Ratio, StatsType

\* The invariant of the next state from its parts.
LEMMA Together ==
  ASSUME stats' \in [Codec -> StatsType], RatioOfCountedCalls',
         call' \in [Worker -> {Idle} \cup Call], CallsOK', WireOK'
  PROVE  IInv'
<1>1. TypeOK'
  <2>1. (\A x \in wire : "tile" \in DOMAIN x =>
           /\ x.tile.header \in [msg_type : {1}, tile : Tile, compression : Codec,
                                 payload_bytes : 0 .. Word - 1]
           /\ x.tile.payload \in Buffer)'
    BY SentType DEF WireOK
  <2> QED BY <2>1 DEF TypeOK, StatsType
<1> QED BY <1>1 DEF IInv

\* What the other variables keep when they do not change.
LEMMA Kept ==
  ASSUME IInv
  PROVE  /\ UNCHANGED stats => stats' \in [Codec -> StatsType] /\ RatioOfCountedCalls'
         /\ UNCHANGED call => call' \in [Worker -> {Idle} \cup Call] /\ CallsOK'
         /\ UNCHANGED wire => WireOK'
BY DEF IInv, TypeOK, StatsType, RatioOfCountedCalls, CallsOK, WireOK
-----------------------------------------------------------------------------
LEMMA InitEstablishes == Init => IInv
<1> SUFFICES ASSUME Init PROVE IInv
  OBVIOUS
<1>1. stats = [c \in Codec |-> Stats] /\ call = [w \in Worker |-> Idle] /\ wire = {}
  BY DEF Init, CompressorInit
<1>2. TypeOK
  BY <1>1 DEF TypeOK, Stats
<1>3. RatioOfCountedCalls
  <2>1. ASSUME NEW c \in Codec PROVE Ratio(c, stats[c])
    BY <1>1 DEF Ratio, Stats, BoundOfCalls, Codec
  <2> QED BY <2>1 DEF RatioOfCountedCalls, Ratio
<1>4. WireOK /\ CallsOK
  BY <1>1 DEF WireOK, CallsOK
<1> QED BY <1>2, <1>3, <1>4 DEF IInv

\* The record of a call has the type of one.
LEMMA InCall ==
  ASSUME NEW op \in {"compress", "estimate", "decompress"}, NEW c \in Codec, NEW t \in Tile,
         NEW b \in Buffer, NEW out \in Buffer, NEW at \in {"count", "done"}
  PROVE  /\ In(op, c, t, b, out, at) \in Call
         /\ In(op, c, t, b, out, at).op = op /\ In(op, c, t, b, out, at).codec = c
         /\ In(op, c, t, b, out, at).tile = t /\ In(op, c, t, b, out, at).at = at
         /\ In(op, c, t, b, out, at).in = b /\ In(op, c, t, b, out, at).out = out
BY DEF In, Call

LEMMA CompressStep ==
  ASSUME IInv, NEW w \in Worker, NEW op \in {"compress", "estimate"}, NEW c \in Codec,
         NEW t \in Tile, NEW b \in Buffer, op = "compress" => b = Samples(t),
         Compress(w, op, c, t, b), UNCHANGED wire
  PROVE  IInv'
<1>1. b.size \in Nat
  BY BufferType
<1>2. CompressBound("None", b.size) = b.size
  BY <1>1 DEF CompressBound
<1>3. CASE /\ c = "None"
           /\ stats' = [stats EXCEPT ![c] = CountedCompress(stats[c], b.size, b.size)]
           /\ call' = [call EXCEPT ![w] = In(op, c, t, b, b, "done")]
  <2>1. In(op, c, t, b, b, "done") \in Call /\ CallOK(In(op, c, t, b, b, "done"))
    BY InCall DEF CallOK, Outputs
  <2>2. call' \in [Worker -> {Idle} \cup Call] /\ CallsOK'
    BY <1>3, <2>1, CallStep
  <2>3. CountedCompress(stats[c], b.size, b.size) \in StatsType
        /\ Ratio(c, CountedCompress(stats[c], b.size, b.size))
    BY <1>1, <1>2, <1>3, StatsOf, CountedStats
  <2>4. stats' \in [Codec -> StatsType] /\ RatioOfCountedCalls'
    BY <1>3, <2>3, StatsStep
  <2> QED BY <2>2, <2>4, Kept, Together
<1>4. CASE /\ c # "None" /\ UNCHANGED stats
           /\ \E out \in Compressions(c, b) : call' = [call EXCEPT ![w] = In(op, c, t, b, out, "count")]
  <2>1. PICK out \in Compressions(c, b) : call' = [call EXCEPT ![w] = In(op, c, t, b, out, "count")]
    BY <1>4
  <2>2. out \in Buffer /\ out.size <= CompressBound(c, b.size)
    BY CompressionsType
  <2>3. In(op, c, t, b, out, "count") \in Call /\ CallOK(In(op, c, t, b, out, "count"))
    BY <1>4, <2>2, InCall DEF CallOK, Outputs
  <2>4. call' \in [Worker -> {Idle} \cup Call] /\ CallsOK'
    BY <2>1, <2>3, CallStep
  <2> QED BY <1>4, <2>4, Kept, Together
<1>5. CASE /\ c # "None" /\ UNCHANGED stats
           /\ call' = [call EXCEPT ![w] = In(op, c, t, b, b, "done")]
  <2>1. In(op, c, t, b, b, "done") \in Call /\ CallOK(In(op, c, t, b, b, "done"))
    BY InCall DEF CallOK, Outputs
  <2>2. call' \in [Worker -> {Idle} \cup Call] /\ CallsOK'
    BY <1>5, <2>1, CallStep
  <2> QED BY <1>5, <2>2, Kept, Together
<1> QED BY <1>3, <1>4, <1>5 DEF Compress

LEMMA DecompressStep ==
  ASSUME IInv, NEW w \in Worker, NEW c \in Codec, NEW t \in Tile, NEW p \in Buffer,
         \/ p = Samples(t)
         \/ c # "None" /\ p.made = c /\ p.raw = t.size /\ p.of = t
         \/ p.size < t.size /\ (c # "None" => p.made # c),
         Decompress(w, c, t, p, ExpectedDataSize(t)), UNCHANGED wire
  PROVE  IInv'
<1> DEFINE cap == ExpectedDataSize(t)
           r(out, at) == In("decompress", c, t, p, out, at)
<1>1. cap \in Nat
  BY ExpectedNat
<1>2. ASSUME NEW out \in Buffer, NEW at \in {"count", "done"}, Faithful(c, t, p, out)
      PROVE  r(out, at) \in Call /\ CallOK(r(out, at))
  BY <1>2, InCall DEF CallOK
<1>3. CASE /\ c = "None"
           /\ stats' = [stats EXCEPT ![c] = CountedDecompress(stats[c])]
           /\ call' = [call EXCEPT ![w] = r(p, "done")]
  <2>1. Faithful(c, t, p, p)
    BY <1>3, Restored
  <2>2. call' \in [Worker -> {Idle} \cup Call] /\ CallsOK'
    BY <1>2, <1>3, <2>1, CallStep
  <2>3. CountedDecompress(stats[c]) \in StatsType /\ Ratio(c, CountedDecompress(stats[c]))
    BY StatsOf, CountedStats
  <2>4. stats' \in [Codec -> StatsType] /\ RatioOfCountedCalls'
    BY <1>3, <2>3, StatsStep
  <2> QED BY <2>2, <2>4, Kept, Together
<1>4. CASE /\ c # "None" /\ UNCHANGED stats
           /\ \E out \in Decompressions(c, p, cap) : call' = [call EXCEPT ![w] = r(out, "count")]
  <2>1. PICK out \in Decompressions(c, p, cap) : call' = [call EXCEPT ![w] = r(out, "count")]
    BY <1>4
  <2>2. out \in Buffer
    BY <1>1, DecompressionsType
  <2>3. Faithful(c, t, p, out)
    BY <1>4, <2>2, Restored
  <2>4. call' \in [Worker -> {Idle} \cup Call] /\ CallsOK'
    BY <1>2, <2>1, <2>2, <2>3, CallStep
  <2> QED BY <1>4, <2>4, Kept, Together
<1>5. CASE /\ c # "None" /\ ~ (WrittenBy(c, p) /\ p.raw <= cap) /\ UNCHANGED stats
           /\ call' = [call EXCEPT ![w] = r(DecompressionFailed(p, cap), "done")]
  <2>1. DecompressionFailed(p, cap) \in Buffer
    BY DEF DecompressionFailed
  <2>2. Faithful(c, t, p, DecompressionFailed(p, cap))
    BY <1>5, <2>1, Restored
  <2>3. call' \in [Worker -> {Idle} \cup Call] /\ CallsOK'
    BY <1>2, <1>5, <2>1, <2>2, CallStep
  <2> QED BY <1>5, <2>3, Kept, Together
<1> QED BY <1>3, <1>4, <1>5 DEF Decompress

LEMMA CountStep ==
  ASSUME IInv, NEW w \in Worker, CountCall(w)
  PROVE  IInv'
<1> DEFINE r == call[w]
<1>1. r \in Call /\ r.at = "count" /\ CallOK(r)
  <2>1. call[w] # Idle
    BY DEF CountCall, Count, Idle
  <2> QED BY <2>1 DEF IInv, TypeOK, CallsOK, CountCall, Count
<1>2. /\ r.codec \in Codec /\ r.in.size \in Nat /\ r.out.size \in Nat
  BY <1>1, BufferType DEF Call
<1> DEFINE s == IF r.op = "decompress" THEN CountedDecompress(stats[r.codec])
                ELSE CountedCompress(stats[r.codec], r.in.size, r.out.size)
<1>3. s \in StatsType /\ Ratio(r.codec, s)
  BY <1>1, <1>2, StatsOf, CountedStats DEF CallOK
<1>4. stats' = [stats EXCEPT ![r.codec] = s]
  BY DEF CountCall, Count
<1>5. stats' \in [Codec -> StatsType] /\ RatioOfCountedCalls'
  <2> HIDE DEF r, s
  <2> QED BY <1>2, <1>3, <1>4, StatsStep
<1> DEFINE q == [r EXCEPT !.at = "done"]
<1>6. q \in Call /\ q.op = r.op /\ q.codec = r.codec /\ q.tile = r.tile /\ q.in = r.in
      /\ q.out = r.out /\ q.at = "done"
  BY <1>1 DEF Call
<1>7. CallOK(q)
  BY <1>1, <1>6 DEF CallOK
<1>8. call' = [call EXCEPT ![w] = q]
  BY DEF CountCall, Count
<1>9. call' \in [Worker -> {Idle} \cup Call] /\ CallsOK'
  <2> HIDE DEF q
  <2> QED BY <1>6, <1>7, <1>8, CallStep
<1> QED BY <1>5, <1>9, Kept, Together DEF CountCall

\* A thread that is done is idle again.
LEMMA EndOfCall ==
  ASSUME IInv, NEW w \in Worker, call' = [call EXCEPT ![w] = Idle]
  PROVE  call' \in [Worker -> {Idle} \cup Call] /\ CallsOK'
BY CallStep

\* What is put on the wire is a message that can be sent, or none of tiles.
LEMMA WireStep ==
  ASSUME IInv, NEW x, wire' = wire \cup {x}, "tile" \in DOMAIN x => Sent(x.tile)
  PROVE  WireOK'
BY DEF IInv, WireOK

LEMMA SendStep ==
  ASSUME IInv, NEW w \in Worker, Send(w)
  PROVE  IInv'
<1> DEFINE r == call[w]
<1>1. r \in Call /\ CallOK(r) /\ r.op = "compress"
  <2>1. call[w] # Idle
    BY DEF Send, Idle
  <2> QED BY <2>1 DEF IInv, TypeOK, CallsOK, Send
<1>2. Sent(Message(r.tile, r.codec, r.out))
  BY <1>1 DEF Sent, CallOK, Call
<1> DEFINE x == [tile |-> Message(r.tile, r.codec, r.out)]
<1>3. wire' = wire \cup {x} /\ x.tile = Message(r.tile, r.codec, r.out)
  BY DEF Send
<1>4. WireOK'
  <2> HIDE DEF x, r
  <2> QED BY <1>2, <1>3, WireStep
<1> QED BY <1>4, EndOfCall, Kept, Together DEF Send

LEMMA SendPlainStep ==
  ASSUME IInv, NEW t \in Tile, NEW c \in Codec, SendPlain(t, c)
  PROVE  IInv'
<1> DEFINE x == [tile |-> Message(t, c, Samples(t))]
<1>1. Sent(Message(t, c, Samples(t)))
  BY DEF Sent, Outputs
<1>2. wire' = wire \cup {x} /\ x.tile = Message(t, c, Samples(t))
  BY DEF SendPlain, CompressTileData
<1>3. WireOK'
  <2> HIDE DEF x
  <2> QED BY <1>1, <1>2, WireStep
<1> QED BY <1>3, Kept, Together DEF SendPlain, compressorVars

LEMMA ReceiveStep ==
  ASSUME IInv, NEW w \in Worker, NEW x \in wire, NEW n \in Nat, Receive(w, x, n)
  PROVE  IInv'
<1> DEFINE d == Deserialize(x.tile, n, Null)
           t == d.header.tile
           c == d.header.compression
           p == d.payload
<1>1. Sent(x.tile) /\ d # Null
  BY DEF Receive, IInv, WireOK
<1>2. /\ t \in Tile /\ c \in Codec /\ p \in Buffer
      /\ \/ p = Samples(t)
         \/ c # "None" /\ p.made = c /\ p.raw = t.size /\ p.of = t
         \/ p.size < t.size /\ (c # "None" => p.made # c)
  BY <1>1, Received
<1>3. Decompress(w, c, t, p, ExpectedDataSize(t)) /\ UNCHANGED wire
  BY <1>2 DEF Receive, CreateByType
<1> HIDE DEF d, t, c, p
<1> QED BY <1>2, <1>3, DecompressStep

LEMMA LengthsNat ==
  ASSUME NEW m, Sent(m)
  PROVE  Lengths(m) \subseteq Nat
<1>1. m.payload.size \in Nat
  BY SentType, BufferType
<1> QED BY <1>1 DEF Lengths, SerializedSize, SIZE

LEMMA ChoicesAreCodecs ==
  ASSUME NEW t
  PROVE  Choices(t) \subseteq Codec
BY DEF Choices, CreateByName, Recommend, Codec

LEMMA StepPreserves == IInv /\ [Next]_vars => IInv'
<1> SUFFICES ASSUME IInv, [Next]_vars PROVE IInv'
  OBVIOUS
<1>1. CASE UNCHANGED vars
  BY <1>1, Kept, Together DEF vars
<1>2. CASE \E w \in Worker : CountCall(w) \/ Send(w)
  BY <1>2, CountStep, SendStep
<1>3. CASE \E w \in Worker : Return(w)
  BY <1>3, EndOfCall, Kept, Together DEF Return
<1>4. CASE \E w \in Worker, t \in Tile : StartCompress(w, t)
  <2>1. PICK w \in Worker, t \in Tile, c \in Codec :
          Compress(w, "compress", c, t, Samples(t)) /\ UNCHANGED wire
    BY <1>4, ChoicesAreCodecs DEF StartCompress
  <2> QED BY <2>1, SamplesType, CompressStep
<1>5. CASE \E w \in Worker, t \in Tile : StartEstimate(w, t)
  <2>1. PICK w \in Worker, t \in Tile, c \in Codec : EstimateRatio(w, c, t) /\ UNCHANGED wire
    BY <1>5, ChoicesAreCodecs DEF StartEstimate
  <2> DEFINE n == IF t.size < SampleSize THEN t.size ELSE SampleSize
  <2>2. n \in Nat
    BY SamplesType, CompressorAssumption
  <2>3. Prefix(Samples(t), n) \in Buffer
    BY <2>2, SamplesType, PrefixType
  <2>4. Compress(w, "estimate", c, t, Prefix(Samples(t), n)) /\ UNCHANGED wire
    BY <2>1 DEF EstimateRatio
  <2> HIDE DEF n
  <2> QED BY <2>3, <2>4, CompressStep
<1>6. CASE \E w \in Worker : \E x \in wire : "tile" \in DOMAIN x /\ \E n \in Lengths(x.tile) : Receive(w, x, n)
  <2>1. PICK w \in Worker, x \in wire : "tile" \in DOMAIN x /\ \E n \in Lengths(x.tile) : Receive(w, x, n)
    BY <1>6
  <2>2. Lengths(x.tile) \subseteq Nat
    BY <2>1, LengthsNat DEF IInv, WireOK
  <2> QED BY <2>1, <2>2, ReceiveStep
<1>7. CASE \E t \in Tile, c \in Codec : SendPlain(t, c)
  BY <1>7, SendPlainStep
<1>8. ASSUME NEW m, NEW missing, NEW bad, SendControl(m, missing, bad) PROVE IInv'
  <2> DEFINE x == [sent |-> m,
                   doc  |-> [k \in DOMAIN ToJson(m) \ {missing} |->
                               IF k = bad THEN Bad ELSE ToJson(m)[k]]]
  <2>1. wire' = wire \cup {x}
    BY <1>8 DEF SendControl
  <2>2. "tile" \notin DOMAIN x
    OBVIOUS
  <2>3. WireOK'
    <3> HIDE DEF x
    <3> QED BY <2>1, <2>2, WireStep
  <2> QED BY <1>8, <2>3, Kept, Together DEF SendControl, compressorVars
<1>9. CASE \E x \in wire : Lose(x)
  <2>1. WireOK'
    BY <1>9 DEF Lose, IInv, WireOK
  <2> QED BY <1>9, <2>1, Kept, Together DEF Lose, compressorVars
<1>10. CASE \E c \in Codec : Reset(c)
  <2>1. PICK c \in Codec : stats' = [stats EXCEPT ![c] = Stats] /\ UNCHANGED call /\ UNCHANGED wire
    BY <1>10 DEF Reset, ResetStats
  <2>2. Stats \in StatsType /\ Ratio(c, Stats)
    BY DEF Stats, StatsType, Ratio, BoundOfCalls, Codec
  <2>3. stats' \in [Codec -> StatsType] /\ RatioOfCountedCalls'
    BY <2>1, <2>2, StatsStep
  <2> QED BY <2>1, <2>3, Kept, Together
<1> QED BY <1>1, <1>2, <1>3, <1>4, <1>5, <1>6, <1>7, <1>8, <1>9, <1>10 DEF Next

LEMMA Inductive == Spec => []IInv
BY InitEstablishes, StepPreserves, PTL DEF Spec
-----------------------------------------------------------------------------
\* The type invariant, for any tiles, sizes and threads.
THEOREM TypeCorrect == Spec => []TypeOK
<1>1. IInv => TypeOK
  BY DEF IInv
<1> QED BY Inductive, <1>1, PTL

\* Whatever fails, wraps or gets lost on the way, a complete tile is accepted
\* only with the samples that were sent, unless a decoder made as many out of
\* bytes it had not written: the two fallbacks of the compressors cancel out.
THEOREM AcceptedAlwaysIsSent == Spec => []AcceptedIsSent
<1>1. IInv => AcceptedIsSent
  <2> SUFFICES ASSUME IInv, NEW w \in Worker, call[w].at = "done", call[w].op = "decompress"
               PROVE  Faithful(call[w].codec, call[w].tile, call[w].in, call[w].out)
    BY DEF AcceptedIsSent, Faithful
  <2>1. call[w] # Idle
    BY DEF Idle
  <2> QED BY <2>1 DEF IInv, CallsOK, CallOK
<1> QED BY Inductive, <1>1, PTL

\* deserialize makes whole messages or none.
THEOREM OnlyEverWholeMessages == Spec => []OnlyWholeMessages
<1>1. IInv => OnlyWholeMessages
  <2> SUFFICES ASSUME IInv, NEW x \in wire, "tile" \in DOMAIN x, IsValidMessage(x.tile),
                      NEW n \in Lengths(x.tile)
               PROVE  Deserialize(x.tile, n, Null) =
                        IF n < SerializedSize(x.tile) THEN Null ELSE x.tile
    BY DEF OnlyWholeMessages
  <2> DEFINE m == x.tile
  <2>1. Sent(m)
    BY DEF IInv, WireOK
  <2>2. m.payload.size \in Nat /\ n \in Nat
    BY <2>1, SentType, BufferType, LengthsNat
  <2>3. m.header.msg_type = 1 /\ m.header.payload_bytes = m.payload.size
    BY DEF IsValidMessage
  <2>4. m = [header |-> m.header, payload |-> m.payload]
    BY <2>1 DEF Sent, Message
  <2>5. Prefix(m.payload, m.header.payload_bytes) = m.payload
    BY <2>3 DEF Prefix
  <2>6. [m EXCEPT !.payload = m.payload] = m
    BY <2>4
  <2> HIDE DEF m
  <2>7. Deserialize(m, n, Null) =
          IF n < SIZE \/ n < SIZE + m.payload.size THEN Null ELSE m
    BY <2>3, <2>5, <2>6 DEF Deserialize
  <2>8. (n < SIZE \/ n < SIZE + m.payload.size) <=> n < SerializedSize(m)
    BY <2>2 DEF SerializedSize, SIZE
  <2> QED BY <2>7, <2>8 DEF m
<1> QED BY Inductive, <1>1, PTL

\* The statistics stay those of counted calls under any interleaving.
THEOREM RatioAlwaysOfCountedCalls == Spec => []RatioOfCountedCalls
<1>1. IInv => RatioOfCountedCalls
  BY DEF IInv
<1> QED BY Inductive, <1>1, PTL
-----------------------------------------------------------------------------
(* Control messages *)

\* What to_json writes, from_json reads and the structures initialise, for one type:
\* the keys written are those read, field by field, and "t" is none of them.
Paired(w, r, d) ==
  /\ "t" \notin DOMAIN w
  /\ \A f \in DOMAIN r : r[f][1] \in DOMAIN w /\ w[r[f][1]] = f
  /\ \A k \in DOMAIN w : w[k] \in DOMAIN r /\ r[w[k]][1] = k
  /\ \A f \in DOMAIN d : r[f][2] = d[f]

LEMMA HelloPaired == Paired(Written.hello, Read.hello, Defaults.hello)
<1> DEFINE w == Written.hello
           r == Read.hello
           d == Defaults.hello
<1>1. /\ DOMAIN w = {"webgpu", "webgl2", "maxTexture"} /\ w["webgpu"] = "webgpu"
      /\ w["webgl2"] = "webgl2" /\ w["maxTexture"] = "max_texture"
  BY DEF Written
<1>2. DOMAIN r = {"webgpu", "webgl2", "max_texture"}
  BY DEF Read
<1>3. /\ r["webgpu"][1] = "webgpu" /\ r["webgl2"][1] = "webgl2"
      /\ r["max_texture"][1] = "maxTexture"
  BY DEF Read
<1>4. DOMAIN d = {"webgpu", "webgl2", "max_texture"}
  BY DEF Defaults
<1>5. /\ d["webgpu"] = r["webgpu"][2] /\ d["webgl2"] = r["webgl2"][2]
      /\ d["max_texture"] = r["max_texture"][2]
  BY DEF Defaults, Read
<1> HIDE DEF w, r, d
<1>6. Paired(w, r, d)
  BY <1>1, <1>2, <1>3, <1>4, <1>5 DEF Paired
<1> QED BY <1>6 DEF w, r, d

LEMMA SetViewPaired == Paired(Written.set_view, Read.set_view, Defaults.set_view)
<1> DEFINE w == Written.set_view
           r == Read.set_view
           d == Defaults.set_view
<1>1. /\ DOMAIN w = {"plane", "index", "drag", "vx"} /\ w["plane"] = "plane"
      /\ w["index"] = "index" /\ w["drag"] = "drag" /\ w["vx"] = "vx"
  BY DEF Written
<1>2. DOMAIN r = {"plane", "index", "drag", "vx"}
  BY DEF Read
<1>3. /\ r["plane"][1] = "plane" /\ r["index"][1] = "index" /\ r["drag"][1] = "drag"
      /\ r["vx"][1] = "vx"
  BY DEF Read
<1>4. DOMAIN d = {"plane", "drag", "vx"}
  BY DEF Defaults
<1>5. /\ d["plane"] = r["plane"][2] /\ d["drag"] = r["drag"][2] /\ d["vx"] = r["vx"][2]
  BY DEF Defaults, Read
<1> HIDE DEF w, r, d
<1>6. Paired(w, r, d)
  BY <1>1, <1>2, <1>3, <1>4, <1>5 DEF Paired
<1> QED BY <1>6 DEF w, r, d

LEMMA SetLutPaired == Paired(Written.set_lut, Read.set_lut, Defaults.set_lut)
<1> DEFINE w == Written.set_lut
           r == Read.set_lut
           d == Defaults.set_lut
<1>1. /\ DOMAIN w = {"name", "clipPct", "gain", "agc"} /\ w["name"] = "name"
      /\ w["clipPct"] = "clip_pct" /\ w["gain"] = "gain" /\ w["agc"] = "agc"
  BY DEF Written
<1>2. DOMAIN r = {"name", "clip_pct", "gain", "agc"}
  BY DEF Read
<1>3. /\ r["name"][1] = "name" /\ r["clip_pct"][1] = "clipPct" /\ r["gain"][1] = "gain"
      /\ r["agc"][1] = "agc"
  BY DEF Read
<1>4. DOMAIN d = {"name", "clip_pct", "gain", "agc"}
  BY DEF Defaults
<1>5. /\ d["name"] = r["name"][2] /\ d["clip_pct"] = r["clip_pct"][2]
      /\ d["gain"] = r["gain"][2] /\ d["agc"] = r["agc"][2]
  BY DEF Defaults, Read
<1> HIDE DEF w, r, d
<1>6. Paired(w, r, d)
  BY <1>1, <1>2, <1>3, <1>4, <1>5 DEF Paired
<1> QED BY <1>6 DEF w, r, d

LEMMA AllPaired ==
  ASSUME NEW type \in MessageType
  PROVE  Paired(Written[type], Read[type], Defaults[type])
<1>1. type \in {"hello", "set_slice", "set_view", "set_lut", "quality", "ping"}
  BY DEF MessageType, Read
<1>2. Paired(Written.set_slice, Read.set_slice, Defaults.set_slice)
  BY SMT DEF Paired, Written, Read, Defaults
<1>3. Paired(Written.quality, Read.quality, Defaults.quality)
  BY SMT DEF Paired, Written, Read, Defaults
<1>4. Paired(Written.ping, Read.ping, Defaults.ping)
  BY SMT DEF Paired, Written, Read, Defaults
<1> QED BY <1>1, <1>2, <1>3, <1>4, HelloPaired, SetViewPaired, SetLutPaired

LEMMA UnknownType == "unknown" \notin MessageType
BY DEF MessageType, Read

\* The document of m without the key `missing` and with a bad value under `bad`.
Garbled(m, missing, bad) ==
  [k \in DOMAIN ToJson(m) \ {missing} |-> IF k = bad THEN Bad ELSE ToJson(m)[k]]

\* A field that is read differently from how it was sent has its key left out.
LEMMA GarbledUnderstood ==
  ASSUME NEW m, NEW missing, NEW bad
  PROVE  Understood(m, Garbled(m, missing, bad))
<1> DEFINE doc == Garbled(m, missing, bad)
           got == FromJson(doc)
           w == Written[m.type]
           r == Read[m.type]
           keys == {"t"} \cup IF HasFields(m) THEN DOMAIN w ELSE {}
<1>1. /\ DOMAIN ToJson(m) = keys
      /\ DOMAIN doc = keys \ {missing}
      /\ "t" \in DOMAIN doc => doc["t"] = Bad \/ doc["t"] = TypeName(m)
      /\ \A k \in DOMAIN doc \ {"t"} : doc[k] = Bad \/ doc[k] = m.value[w[k]]
  BY DEF Garbled, ToJson
<1>2. HasFields(m) => Paired(w, r, Defaults[m.type])
  BY AllPaired DEF HasFields
<1>3. CASE "t" \notin DOMAIN doc
  BY <1>3 DEF Understood, FromJson
<1>4. CASE "t" \in DOMAIN doc /\ doc["t"] = Bad
  BY <1>4 DEF Understood, FromJson
<1>5. CASE "t" \in DOMAIN doc /\ doc["t"] # Bad /\ m.type \notin MessageType
  <2>1. doc["t"] \notin MessageType /\ DOMAIN doc = {"t"}
    BY <1>1, <1>5, UnknownType DEF TypeName, HasFields
  <2>2. got = Unknown
    BY <1>5, <2>1 DEF FromJson
  <2> QED BY <1>5, <2>1, <2>2 DEF Understood
<1>6. CASE "t" \in DOMAIN doc /\ doc["t"] # Bad /\ m.type \in MessageType
  <2> DEFINE value == [f \in DOMAIN r |-> IF r[f][1] \in DOMAIN doc THEN doc[r[f][1]] ELSE r[f][2]]
             thrown == \E f \in DOMAIN r : value[f] = Bad
  <2>1. doc["t"] = m.type
    BY <1>1, <1>6 DEF TypeName
  <2>2. got = IF thrown THEN Thrown ELSE [type |-> m.type, value |-> value]
    BY <1>6, <2>1 DEF FromJson
  <2>3. Paired(w, r, Defaults[m.type])
    BY <1>6, AllPaired
  <2>4. DOMAIN doc \ {"t"} \subseteq DOMAIN w
    BY <1>1
  <2>5. thrown <=> \E k \in DOMAIN doc : doc[k] = Bad
    <3>1. ASSUME NEW f \in DOMAIN r, value[f] = Bad PROVE r[f][1] \in DOMAIN doc /\ doc[r[f][1]] = Bad
      BY <1>6, <3>1, BadAssumption
    <3>2. ASSUME NEW k \in DOMAIN doc, doc[k] = Bad PROVE w[k] \in DOMAIN r /\ value[w[k]] = Bad
      BY <1>6, <2>3, <2>4, <3>2 DEF Paired
    <3> QED BY <3>1, <3>2
  <2>6. CASE thrown
    BY <1>6, <2>2, <2>5, <2>6 DEF Understood
  <2>7. CASE ~ thrown
    <3> DEFINE changed == {f \in DOMAIN value : m.value = Absent \/ value[f] # m.value[f]}
    <3>1. got.type = m.type /\ got.value = value /\ DOMAIN value = DOMAIN r
      BY <2>2, <2>7
    <3>2. ASSUME NEW f \in changed PROVE r[f][1] \notin DOMAIN doc
      <4>1. f \in DOMAIN r /\ r[f][1] \in DOMAIN w /\ w[r[f][1]] = f /\ r[f][1] # "t"
        BY <2>3 DEF Paired
      <4>2. CASE m.value = Absent
        BY <1>1, <4>1, <4>2 DEF HasFields
      <4>3. CASE m.value # Absent /\ r[f][1] \in DOMAIN doc
        <5>1. value[f] = doc[r[f][1]]
          BY <4>1, <4>3
        <5>2. doc[r[f][1]] = m.value[f]
          BY <1>1, <2>5, <2>7, <4>1, <4>3
        <5> QED BY <4>3, <5>1, <5>2
      <4> QED BY <4>2, <4>3
    <3>3. \A f \in changed \cap DOMAIN Defaults[m.type] : value[f] = Defaults[m.type][f]
      BY <2>3, <3>2 DEF Paired
    <3>4. ASSUME m.value # Absent
          PROVE  Cardinality(changed) <= Cardinality(DOMAIN ToJson(m) \ DOMAIN doc)
      <4> DEFINE left == DOMAIN ToJson(m) \ DOMAIN doc
      <4>1. ASSUME NEW f \in changed
            PROVE  r[f][1] \in left /\ r[f][1] = missing /\ w[missing] = f
        <5>1. f \in DOMAIN r /\ r[f][1] \in DOMAIN w /\ w[r[f][1]] = f
          BY <2>3 DEF Paired
        <5>2. r[f][1] \in keys
          BY <1>6, <3>4, <5>1 DEF HasFields
        <5>3. r[f][1] \notin DOMAIN doc
          BY <3>2
        <5> QED BY <1>1, <5>1, <5>2, <5>3
      <4> HIDE DEF changed, doc, r, w, keys
      <4>2. left \subseteq {missing}
        BY <1>1
      <4>3. IsFiniteSet(left) /\ Cardinality(left) \in Nat
        BY <4>2, FS_Singleton, FS_Subset, FS_CardinalityType
      <4> HIDE DEF left
      <4>4. CASE changed = {}
        <5>1. Cardinality(changed) = 0
          BY <4>4, FS_EmptySet
        <5> QED BY <4>3, <5>1 DEF left
      <4>5. CASE changed # {}
        <5>1. PICK f \in changed : TRUE
          BY <4>5
        <5>2. changed = {f} /\ left = {missing}
          BY <4>1, <4>2, <5>1
        <5>3. Cardinality(changed) = 1 /\ Cardinality(left) = 1
          BY <5>2, FS_Singleton
        <5> QED BY <5>3 DEF left
      <4> QED BY <4>4, <4>5
    <3> HIDE DEF changed, value
    <3> QED BY <1>6, <2>5, <2>7, <3>1, <3>3, <3>4 DEF Understood, changed
  <2> QED BY <2>6, <2>7
<1> QED BY <1>3, <1>4, <1>5, <1>6

Garbles == \A x \in wire : "doc" \in DOMAIN x =>
             \E missing, bad : x.doc = Garbled(x.sent, missing, bad)

LEMMA GarblesInductive == Spec => []Garbles
<1>1. Init => Garbles
  BY DEF Init, Garbles
<1>2. Garbles /\ [Next]_vars => Garbles'
  <2> SUFFICES ASSUME Garbles, [Next]_vars PROVE Garbles'
    OBVIOUS
  <2>1. CASE wire' \subseteq wire
    BY <2>1 DEF Garbles
  <2>2. ASSUME NEW w \in Worker, Send(w) PROVE Garbles'
    <3> DEFINE x == [tile |-> Message(call[w].tile, call[w].codec, call[w].out)]
    <3>1. wire' = wire \cup {x} /\ "doc" \notin DOMAIN x
      BY <2>2 DEF Send
    <3> HIDE DEF x
    <3> QED BY <3>1 DEF Garbles
  <2>3. ASSUME NEW t \in Tile, NEW c \in Codec, SendPlain(t, c) PROVE Garbles'
    <3> DEFINE x == [tile |-> CompressTileData(t, c)]
    <3>1. wire' = wire \cup {x} /\ "doc" \notin DOMAIN x
      BY <2>3 DEF SendPlain
    <3> HIDE DEF x
    <3> QED BY <3>1 DEF Garbles
  <2>4. ASSUME NEW m, NEW missing, NEW bad, SendControl(m, missing, bad) PROVE Garbles'
    <3> DEFINE x == [sent |-> m, doc |-> Garbled(m, missing, bad)]
    <3>1. wire' = wire \cup {x}
      BY <2>4 DEF SendControl, Garbled
    <3>2. x.doc = Garbled(x.sent, missing, bad)
      OBVIOUS
    <3> HIDE DEF x
    <3> QED BY <3>1, <3>2 DEF Garbles
  <2>5. \/ wire' \subseteq wire
        \/ \E w \in Worker : Send(w)
        \/ \E t \in Tile, c \in Codec : SendPlain(t, c)
        \/ \E m, missing, bad : SendControl(m, missing, bad)
    BY DEF Next, vars, CountCall, Return, StartCompress, StartEstimate, Receive, Lose, Reset
  <2> QED BY <2>1, <2>2, <2>3, <2>4, <2>5
<1> QED BY <1>1, <1>2, PTL DEF Spec

\* from_json agrees with to_json about every key of every type, and about the values
\* that a missing key leaves, whatever values a message holds.
THEOREM ControlAlwaysUnderstood == Spec => []ControlUnderstood
<1>1. Garbles => ControlUnderstood
  BY GarbledUnderstood DEF Garbles, ControlUnderstood
<1> QED BY <1>1, GarblesInductive, PTL
=============================================================================
