--------------------------- MODULE MCPersistentLog ---------------------------
(* Model values for PersistentLog: messages whose bytes look like lengths. *)
EXTENDS PersistentLog

MCMessage == {<<2>>, <<1, 0>>}

===============================================================================
