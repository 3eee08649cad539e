------------------------------- MODULE MCLogger -------------------------------
(* The programs of LoggerPrograms, checked against the logger's properties  *)
(* and, with LoggerRefinement, against the service it implements.           *)
EXTENDS LoggerProperties, LoggerRefinement, LoggerPrograms
==============================================================================
