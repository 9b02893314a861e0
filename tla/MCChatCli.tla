----------------------------- MODULE MCChatCli ------------------------------
(* Checking ChatCli. *)
EXTENDS ChatCli
=============================================================================
