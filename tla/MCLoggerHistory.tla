--------------------------- MODULE MCLoggerHistory ----------------------------
(* The programs of LoggerPrograms, with the history of reconfigurations.    *)
EXTENDS LoggerHistory, LoggerPrograms
==============================================================================
