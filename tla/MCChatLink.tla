----------------------------- MODULE MCChatLink -----------------------------
(***************************************************************************)
(* One chat client and one room: messages of four units, a header of two,  *)
(* so that a header and a body may each arrive in parts.                   *)
(***************************************************************************)
EXTENDS ChatLink
=============================================================================
