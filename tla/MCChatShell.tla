---------------------------- MODULE MCChatShell ----------------------------
(* ChatShell on a small instance: one session and one navigation, so that  *)
(* the EventSource is alone and only its own reconnects replay the log.    *)
EXTENDS ChatShell
=============================================================================
