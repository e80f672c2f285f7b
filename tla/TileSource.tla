------------------------------ MODULE TileSource ------------------------------
(***************************************************************************)
(* What VdsReader promises its callers: a volume is open or none is, one   *)
(* caller at a time asks for a tile of a slice the open volume has, and    *)
(* gets the samples of that very request or none.  The volume neither      *)
(* closes nor changes while somebody waits.  There is no engine, no buffer *)
(* and no mutex here, and opening a volume is one step.                    *)
(***************************************************************************)
EXTENDS Integers

CONSTANTS Caller,     \* threads
          Request,    \* tile requests
          Volume,     \* layouts
          NoVolume,
          NoRequest

VARIABLES opened,    \* the open volume, or NoVolume
          asking,    \* Caller -> the request it waits for, or NoRequest
          answered   \* Caller -> its last tile: the request, and whose samples it holds

vars == <<opened, asking, answered>>

Init == /\ opened = NoVolume
        /\ asking = [c \in Caller |-> NoRequest]
        /\ answered = [c \in Caller |-> [asked |-> NoRequest, got |-> NoRequest]]

Quiet == \A c \in Caller : asking[c] = NoRequest

\* The slice is one of the volume's, as far as the volume has that axis.
HasSlice(v, r) == r.plane_index \in DOMAIN v => r.slice_index < v[r.plane_index]

Open(v) == /\ opened = NoVolume
           /\ Quiet
           /\ opened' = v
           /\ UNCHANGED <<asking, answered>>

Close == /\ opened # NoVolume
         /\ Quiet
         /\ opened' = NoVolume
         /\ UNCHANGED <<asking, answered>>

Ask(c, r) == /\ opened # NoVolume
             /\ Quiet
             /\ HasSlice(opened, r)
             /\ asking' = [asking EXCEPT ![c] = r]
             /\ UNCHANGED <<opened, answered>>

Answer(c) == /\ asking[c] # NoRequest
             /\ asking' = [asking EXCEPT ![c] = NoRequest]
             /\ answered' = [answered EXCEPT ![c] = [asked |-> asking[c], got |-> asking[c]]]
             /\ UNCHANGED opened

Refuse(c) == /\ asking[c] # NoRequest
             /\ asking' = [asking EXCEPT ![c] = NoRequest]
             /\ UNCHANGED <<opened, answered>>

Next == \/ \E v \in Volume : Open(v)
        \/ Close
        \/ \E c \in Caller : Answer(c) \/ Refuse(c)
        \/ \E c \in Caller, r \in Request : Ask(c, r)

Spec == Init /\ [][Next]_vars
=============================================================================
