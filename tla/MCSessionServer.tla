--------------------------- MODULE MCSessionServer ---------------------------
(***************************************************************************)
(* SessionServer for TLC.  A socket goes through the pool to a second      *)
(* session while another one is live or has operations pending, and the    *)
(* accept thread takes two sockets per event, from the pool or new.        *)
(***************************************************************************)
EXTENDS SessionServer, TLC

\* Sockets are interchangeable, and so are workers.
ServerSymmetry == Permutations(Sockets) \cup Permutations(Threads)
=============================================================================
