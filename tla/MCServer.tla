------------------------------- MODULE MCServer -------------------------------
(***************************************************************************)
(* One signal, or one of each kind: the second may interrupt the handler   *)
(* of the first, or run beside it on the other thread.  Of documents, one  *)
(* with every key, that one with any key missing, with any key of the      *)
(* wrong type, with a boolean for any number, and with numbers below 0.    *)
(***************************************************************************)
EXTENDS Server

CONSTANTS SIGINT, SIGTERM

MCOneSignal  == {SIGTERM}
MCTwoSignals == {SIGINT, SIGTERM}

\* 70000 is beyond 16 bits and, here, beyond an int, -1 beyond what is unsigned.
MCModulus == "u16" :> 65536 @@ "u32" :> 1048576 @@ "u64" :> 2097152 @@ "int" :> 131072

Full == [k \in Key |-> LET type == (CHOOSE w \in Written : w[1] = k)[2]
                      IN  Value(type, CASE type = "string" -> "other"
                                        [] type = "number" -> 70000
                                        [] type = "boolean" -> 0)]
Numbers  == {k \in Key : Full[k].type = "number"}
Negative == [k \in Key |-> IF k \in Numbers THEN Value("number", -1) ELSE Full[k]]
Wrong(v) == IF v.type = "string" THEN Value("number", 3) ELSE Value("string", "other")
MCDocument == {Full, Negative}
                \cup {[k \in Key \ {m} |-> Full[k]] : m \in Key}
                \cup {[Full EXCEPT ![m] = Wrong(@)] : m \in Key}
                \cup {[Full EXCEPT ![m] = Value("boolean", 1)] : m \in Numbers}
MCOneDocument == {Full}
=============================================================================
