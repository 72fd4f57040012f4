---------------------------- MODULE MCChatStream ----------------------------
(* TLC instance of ChatStream: the constants get their values in the cfg. *)
EXTENDS ChatStream
=============================================================================
