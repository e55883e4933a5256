--------------------------- MODULE MCAgentLifecycle ---------------------------
(* Instances of AgentLifecycle for TLC.                                       *)
EXTENDS AgentLifecycle

MCThreads == Cpus \cup {Main}
MCNotes == {"ready", "finished", "enclave_ready", "do_exit"} \X Cpus
===============================================================================
