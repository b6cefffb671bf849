----------------------------- MODULE DialogueMC -----------------------------
(* Small instances of Dialogue: the requests a .cfg chooses from.          *)
EXTENDS Dialogue

AllRequests == MasterRequests \cup OnSlave
=============================================================================
