----------------------------- MODULE ControlMessage -----------------------------
(***************************************************************************)
(* The JSON control messages (src/protocol/control_message).  A document   *)
(* is a function from the keys it has to values; nested objects are        *)
(* flattened.  A value of another JSON type than the field's is Bad: the   *)
(* library throws when it is read.                                         *)
(***************************************************************************)
CONSTANTS Bad,     \* a value of the wrong type
          Absent,  \* an optional that is not set
          Thrown   \* from_json throws

\* For each type the keys that to_json writes, and the field each of them holds.
Written == [hello     |-> [webgpu |-> "webgpu", webgl2 |-> "webgl2", maxTexture |-> "max_texture"],
            set_slice |-> [inline |-> "inline_idx", xline |-> "xline_idx", z |-> "z_idx"],
            set_view  |-> [plane |-> "plane", index |-> "index", drag |-> "drag", vx |-> "vx"],
            set_lut   |-> [name |-> "name", clipPct |-> "clip_pct", gain |-> "gain",
                           agc |-> "agc"],
            quality   |-> [dtype |-> "dtype", downsample |-> "downsample"],
            ping      |-> [id |-> "id"]]

\* For each type the fields that from_json reads, each from one key or as its default.
Read == [hello     |-> [webgpu |-> <<"webgpu", FALSE>>, webgl2 |-> <<"webgl2", FALSE>>,
                        max_texture |-> <<"maxTexture", 0>>],
         set_slice |-> [inline_idx |-> <<"inline", 0>>, xline_idx |-> <<"xline", 0>>,
                        z_idx |-> <<"z", 0>>],
         set_view  |-> [plane |-> <<"plane", "">>, index |-> <<"index", 0>>,
                        drag |-> <<"drag", FALSE>>, vx |-> <<"vx", 0>>],
         set_lut   |-> [name |-> <<"name", "">>, clip_pct |-> <<"clipPct", 98>>,
                        gain |-> <<"gain", 1>>, agc |-> <<"agc", 0>>],
         quality   |-> [dtype |-> <<"dtype", "u16">>, downsample |-> <<"downsample", 1>>],
         ping      |-> [id |-> <<"id", 0>>]]

MessageType == DOMAIN Read

\* Bad is none of the values that a field has when its key is left out.
ASSUME BadAssumption ==
  \A type \in MessageType : \A f \in DOMAIN Read[type] : Read[type][f][2] # Bad

Unknown == [type |-> "Unknown", value |-> Absent]

\* What stands under "t": to_json writes the types that it does not know as one.
TypeName(m)  == IF m.type \in MessageType THEN m.type ELSE "unknown"
HasFields(m) == m.type \in MessageType /\ m.value # Absent

\* Mutant: the members' own names are the keys.
ToJsonByMember(m) ==
  [k \in {"t"} \cup IF HasFields(m) THEN DOMAIN m.value ELSE {} |->
     IF k = "t" THEN TypeName(m) ELSE m.value[k]]

ToJson(m) ==
  [k \in {"t"} \cup IF HasFields(m) THEN DOMAIN Written[m.type] ELSE {} |->
     IF k = "t" THEN TypeName(m) ELSE m.value[Written[m.type][k]]]

FromJson(j) ==
  IF "t" \notin DOMAIN j THEN Unknown
  ELSE IF j["t"] = Bad THEN Thrown
  ELSE IF j["t"] \notin MessageType THEN Unknown
  ELSE LET fields == Read[j["t"]]
           value  == [f \in DOMAIN fields |->
                        IF fields[f][1] \in DOMAIN j THEN j[fields[f][1]] ELSE fields[f][2]]
       IN  IF \E f \in DOMAIN fields : value[f] = Bad THEN Thrown
           ELSE [type |-> j["t"], value |-> value]

\* The members that the structures initialise themselves.
Defaults == [hello     |-> [webgpu |-> FALSE, webgl2 |-> FALSE, max_texture |-> 0],
             set_slice |-> << >>,
             set_view  |-> [plane |-> "", drag |-> FALSE, vx |-> 0],
             set_lut   |-> [name |-> "", clip_pct |-> 98, gain |-> 1, agc |-> 0],
             quality   |-> [dtype |-> "u16", downsample |-> 1],
             ping      |-> << >>]
=============================================================================
