------------------------------- MODULE Compressor -------------------------------
(***************************************************************************)
(* The compressors (src/compressor): one shared object of each kind, called *)
(* by many threads.  LZ4 and Zstd work without a lock and take stats_mutex_ *)
(* afterwards, in a section of its own, and only if the library succeeded;  *)
(* NoCompressor holds it for the whole call.  The times are left out.       *)
(***************************************************************************)
EXTENDS TileMessage, FiniteSets

CONSTANTS Worker,      \* the threads that call
          Packed,      \* the sizes a library's output may come to
          SampleSize,  \* what estimate_ratio compresses: 4096
          LargeSize,   \* from here recommend_for_data prefers Zstd: 8192
          MaxCalls     \* bound: no further call begins when so many are counted

VARIABLES stats,  \* by kind of compressor, its stats_
          call    \* by thread, the call it is in

compressorVars == <<stats, call>>

\* A compression lengthens no tile by as much as payload_bytes wraps at.
ASSUME CompressorAssumption ==
  /\ Packed \subseteq Nat \ {0} /\ SampleSize \in Nat /\ LargeSize \in Nat /\ MaxCalls \in Nat
  /\ \A t \in Tile : t.size \div 255 + 64 < Word

Stats == [compress_calls |-> 0, decompress_calls |-> 0,
          total_input_bytes |-> 0, total_output_bytes |-> 0]

Idle == [at |-> "idle"]

CompressorInit == stats = [c \in Codec |-> Stats] /\ call = [w \in Worker |-> Idle]
-----------------------------------------------------------------------------
\* CompressorFactory::create, from a type and from a name.
CreateByType(type) == IF type \in Codec THEN type ELSE "LZ4"

CreateByName(name) == CASE name = "zstd" -> "Zstd" [] name = "none" -> "None" [] OTHER -> "LZ4"

\* CompressorFactory::recommend_for_data.
Recommend(size, prefer_speed) == IF ~prefer_speed /\ size > LargeSize THEN "Zstd" ELSE "LZ4"

\* LZ4_compressBound, which is 0 beyond LZ4_MAX_INPUT_SIZE, and ZSTD_compressBound:
\* what incompressible data may come to.  (The size is cut to an int for LZ4; from
\* 4 GiB on that is not modelled.)
CompressBound(c, n) ==
  CASE c = "None" -> n
    [] c = "LZ4"  -> IF n <= 2113929216 THEN n + n \div 255 + 16 ELSE 0
    [] c = "Zstd" -> n + n \div 256 + IF n < 131072 THEN (131072 - n) \div 2048 ELSE 0

\* What the library makes of b.
Compressions(c, b) == {[made |-> c, of |-> b.of, raw |-> b.size, size |-> n] :
                         n \in {p \in Packed : p <= CompressBound(c, b.size)}}

WrittenBy(c, b) == b.made = c

\* What the library reads back into a buffer of cap bytes.  Of bytes it did not
\* write it may make anything, or refuse them.
Decompressions(c, b, cap) ==
  IF WrittenBy(c, b)
  THEN {r \in {[made |-> "None", of |-> b.of, raw |-> b.raw, size |-> b.raw]} : r.size <= cap}
  ELSE {[made |-> "noise", of |-> b.of, raw |-> n, size |-> n] :
          n \in {p \in Packed \cup {0, cap} : p <= cap}}

\* Mutant: the output buffer is returned whatever the library said.
DecompressionFailedZeros(b, cap) == [made |-> "zeros", of |-> b.of, raw |-> cap, size |-> cap]

\* What decompress returns when the library fails: the compressed bytes.
DecompressionFailed(b, cap) == b

CountedCompress(s, n, out) ==
  [compress_calls    |-> s.compress_calls + 1,    decompress_calls   |-> s.decompress_calls,
   total_input_bytes |-> s.total_input_bytes + n, total_output_bytes |-> s.total_output_bytes + out]

CountedDecompress(s) == [s EXCEPT !.decompress_calls = @ + 1]
-----------------------------------------------------------------------------
\* w is in op of the compressor c, for the tile t, with b turned into out.
In(op, c, t, b, out, at) ==
  [at |-> at, op |-> op, codec |-> c, tile |-> t, in |-> b, out |-> out]

Counted(c) == stats[c].compress_calls + stats[c].decompress_calls

MayCall(w) == call[w] = Idle /\ Counted("None") + Counted("LZ4") + Counted("Zstd") < MaxCalls

Compress(w, op, c, t, b) ==
  /\ MayCall(w)
  /\ \/ /\ c = "None"
        /\ stats' = [stats EXCEPT ![c] = CountedCompress(@, b.size, b.size)]
        /\ call' = [call EXCEPT ![w] = In(op, c, t, b, b, "done")]
     \/ /\ c # "None"
        /\ \E out \in Compressions(c, b) :
             call' = [call EXCEPT ![w] = In(op, c, t, b, out, "count")]
        /\ UNCHANGED stats
     \/ /\ c # "None"  \* the library failed: the data as they are
        /\ call' = [call EXCEPT ![w] = In(op, c, t, b, b, "done")]
        /\ UNCHANGED stats

\* A sample is compressed, and counted, like any data.  NoCompressor's answer is 1.
EstimateRatio(w, c, t) ==
  /\ c # "None"
  /\ Compress(w, "estimate", c, t,
              Prefix(Samples(t), IF t.size < SampleSize THEN t.size ELSE SampleSize))

Decompress(w, c, t, b, uncompressed_size) ==
  /\ MayCall(w)
  /\ \/ /\ c = "None"
        /\ stats' = [stats EXCEPT ![c] = CountedDecompress(@)]
        /\ call' = [call EXCEPT ![w] = In("decompress", c, t, b, b, "done")]
     \/ /\ c # "None"
        /\ \E out \in Decompressions(c, b, uncompressed_size) :
             call' = [call EXCEPT ![w] = In("decompress", c, t, b, out, "count")]
        /\ UNCHANGED stats
     \/ /\ c # "None" /\ ~ (WrittenBy(c, b) /\ b.raw <= uncompressed_size)
        /\ call' = [call EXCEPT ![w] = In("decompress", c, t, b,
                                         DecompressionFailed(b, uncompressed_size), "done")]
        /\ UNCHANGED stats

\* stats_mutex_ is taken and the call counted.
Count(w) ==
  /\ call[w].at = "count"
  /\ LET c == call[w]
     IN  stats' = [stats EXCEPT ![c.codec] =
                     IF c.op = "decompress" THEN CountedDecompress(@)
                     ELSE CountedCompress(@, c.in.size, c.out.size)]
  /\ call' = [call EXCEPT ![w].at = "done"]

\* Mutant: the counters are zeroed and the totals forgotten.
ResetCalls(c) == /\ stats' = [stats EXCEPT ![c].compress_calls = 0, ![c].decompress_calls = 0]
                 /\ UNCHANGED call

ResetStats(c) == stats' = [stats EXCEPT ![c] = Stats] /\ UNCHANGED call
=============================================================================
