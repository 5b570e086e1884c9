---------------------------- MODULE MCTerminals ----------------------------
(* One tab that is restarted, or two tabs, with their processes.          *)
EXTENDS Terminals
=============================================================================
