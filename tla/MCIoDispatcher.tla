--------------------------- MODULE MCIoDispatcher ---------------------------
(***************************************************************************)
(* IoDispatcher for TLC.  Two workers race for the packets of three        *)
(* callbacks, one of which throws, in batches of at most two: a batch can  *)
(* hold an entry behind the throwing one, and the port can hold more than  *)
(* one batch.                                                              *)
(***************************************************************************)
EXTENDS IoDispatcher, TLC
=============================================================================
