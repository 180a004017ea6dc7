---------------------------- MODULE MC_SocketLab ----------------------------
(***************************************************************************)
(* All stages of main, with and without --save-output, on a terminal and   *)
(* with its input redirected; a pipe and a buffer that fill up.            *)
(***************************************************************************)
EXTENDS SocketLab
=============================================================================
