--------------------------------- MODULE Config ---------------------------------
(***************************************************************************)
(* The configuration (src/config) and its JSON.  A document is a function  *)
(* from the keys it has, with their sections, to values; a value is its    *)
(* JSON type and what it holds, a boolean 0 or 1.  Keys that from_json      *)
(* does not ask for do not matter and are left out.                         *)
(***************************************************************************)
EXTENDS Integers, Sequences, TLC

CONSTANT Modulus  \* of each integer type: how many values it has

\* No member's initializer is too wide for it: server_port, say, and cache_size_mb.
ASSUME ConfigAssumption == /\ Modulus \in [{"u16", "u32", "u64", "int"} -> Nat]
                           /\ Modulus["u16"] > 9090 /\ Modulus["u32"] > 256
                           /\ Modulus["u64"] > 1024 /\ Modulus["int"] > 5

Value(type, holds) == [type |-> type, holds |-> holds]

\* The members' initializers: what load_default leaves in place.
Default ==
  [vds_path |-> "/home/rocky/onnia2x3d_mig_Time.vds", server_port |-> 8080, bind_address |-> "0.0.0.0",
   default_tile_size |-> 256, max_tiles_in_flight |-> 64, cache_size_mb |-> 1024,
   compression_algorithm |-> "lz4", compression_level |-> 1, adaptive_tile_size |-> 1,
   adaptive_compression |-> 1, enable_dtls |-> 1, cert_file |-> "", key_file |-> "",
   log_level |-> 2, log_file |-> "", enable_metrics |-> 1, metrics_port |-> 9090]

Field == DOMAIN Default

\* What to_json writes: key, JSON type and member.
Written ==
  {<<"vds.path", "string", "vds_path">>, <<"server.port", "number", "server_port">>,
   <<"server.bind_address", "string", "bind_address">>,
   <<"tiles.default_size", "number", "default_tile_size">>,
   <<"tiles.max_in_flight", "number", "max_tiles_in_flight">>,
   <<"cache.size_mb", "number", "cache_size_mb">>,
   <<"compression.algorithm", "string", "compression_algorithm">>,
   <<"compression.level", "number", "compression_level">>,
   <<"adaptivity.adaptive_tile_size", "boolean", "adaptive_tile_size">>,
   <<"adaptivity.adaptive_compression", "boolean", "adaptive_compression">>,
   <<"security.enable_dtls", "boolean", "enable_dtls">>,
   <<"security.cert_file", "string", "cert_file">>, <<"security.key_file", "string", "key_file">>,
   <<"logging.level", "number", "log_level">>, <<"logging.file", "string", "log_file">>,
   <<"metrics.enabled", "boolean", "enable_metrics">>, <<"metrics.port", "number", "metrics_port">>}

\* What from_json reads, in its order: key, C++ type and member.
Read ==
  << <<"vds.path", "string", "vds_path">>, <<"server.port", "u16", "server_port">>,
     <<"server.bind_address", "string", "bind_address">>,
     <<"tiles.default_size", "u32", "default_tile_size">>,
     <<"tiles.max_in_flight", "u32", "max_tiles_in_flight">>,
     <<"cache.size_mb", "u64", "cache_size_mb">>,
     <<"compression.algorithm", "string", "compression_algorithm">>,
     <<"compression.level", "int", "compression_level">>,
     <<"adaptivity.adaptive_tile_size", "bool", "adaptive_tile_size">>,
     <<"adaptivity.adaptive_compression", "bool", "adaptive_compression">>,
     <<"security.enable_dtls", "bool", "enable_dtls">>,
     <<"security.cert_file", "string", "cert_file">>, <<"security.key_file", "string", "key_file">>,
     <<"logging.level", "int", "log_level">>, <<"logging.file", "string", "log_file">>,
     <<"metrics.enabled", "bool", "enable_metrics">>, <<"metrics.port", "u16", "metrics_port">> >>
-----------------------------------------------------------------------------
\* Where the library's get<T>() throws: a string and a boolean are got of nothing else.
\* A number is got of a boolean too, except the size_t, which is the library's own
\* number_unsigned_t and has an overload of its own.
Gets(T, value) ==
  CASE T = "string"                  -> value.type = "string"
    [] T = "bool"                    -> value.type = "boolean"
    [] T = "u64"                     -> value.type = "number"
    [] T \in {"u16", "u32", "int"}   -> value.type \in {"number", "boolean"}

\* The least value of an integer type: an int lies around 0.
Lowest(T) == IF T = "int" THEN - (Modulus["int"] \div 2) ELSE 0

\* An integer is cut to the width of its type without a word.  What a fraction holds
\* is its whole part, and one beyond 64 bits is not modelled.
Get(T, value) == IF T \in DOMAIN Modulus
                 THEN Lowest(T) + ((value.holds - Lowest(T)) % Modulus[T])
                 ELSE value.holds

\* Where from_json throws: at the places of the members that cannot be got.
Throws(doc) ==
  {i \in DOMAIN Read : Read[i][1] \in DOMAIN doc /\ ~ Gets(Read[i][2], doc[Read[i][1]])}

\* What from_json leaves: the members before the first such place are assigned.
FromJson(config, doc) ==
  LET stops == Throws(doc)
  IN  [f \in Field |->
         LET i == CHOOSE p \in DOMAIN Read : Read[p][3] = f
         IN  IF Read[i][1] \in DOMAIN doc /\ \A j \in stops : i < j
             THEN Get(Read[i][2], doc[Read[i][1]])
             ELSE config[f]]

Key == {w[1] : w \in Written}

\* Mutant: the last key is forgotten.
ToJsonShort(config) ==
  [k \in Key \ {"metrics.port"} |->
     LET w == CHOOSE x \in Written : x[1] = k IN Value(w[2], config[w[3]])]

ToJson(config) ==
  [k \in Key |-> LET w == CHOOSE x \in Written : x[1] = k IN Value(w[2], config[w[3]])]
=============================================================================
