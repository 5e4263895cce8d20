---------------------------- MODULE MCReloadLoop ----------------------------
(* The process with a statsd input for TLC; the constants are in the cfg.  *)
EXTENDS ReloadLoop
=============================================================================
