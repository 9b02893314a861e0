-------------------------- MODULE MCCallbackServer --------------------------
(* Checking CallbackServer: one chat-cli and one auth-cli. *)
EXTENDS CallbackServer
=============================================================================
