------------------------------ MODULE MCMapper -------------------------------
(***************************************************************************)
(* Small tables.  The hash sends three URIs to one slot and the fourth to  *)
(* the slot they overflow into, so every insertion meets a collision.      *)
(***************************************************************************)
EXTENDS Mapper, TLC

CONSTANTS s, a, b, c

MCUris == {s, a, b, c}
MCHash == s :> 0 @@ a :> 0 @@ b :> 0 @@ c :> 1
MCStats == <<s>>
=============================================================================
