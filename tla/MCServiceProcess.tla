--------------------------- MODULE MCServiceProcess ---------------------------
(* ServiceProcess with the manifest's times in units of five seconds.          *)
EXTENDS ServiceProcess
===============================================================================
