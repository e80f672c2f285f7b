---------------------------- MODULE MCWebRtcServer ----------------------------
(***************************************************************************)
(* Two addresses and four session ids: two connections can be open at once *)
(* and an address is used again while the session of its last user, and of *)
(* the other connection, are still in play.                                *)
(***************************************************************************)
EXTENDS WebRtcServer

CONSTANTS w1, w2, s1, s2, s3, s4

MCWsi == {w1, w2}
MCSessionId == {s1, s2, s3, s4}
=============================================================================
