--------------------------- MODULE MCServerQuery ---------------------------
(***************************************************************************)
(* Three servers on two sockets, each request sent again at most once.      *)
(***************************************************************************)
EXTENDS ServerQuery
=============================================================================
