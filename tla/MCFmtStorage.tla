----------------------------- MODULE MCFmtStorage ----------------------------
(* What fmt keeps its output, arguments and specifiers in, in one program   *)
(* that runs one of them.  The others are as constructed, or unused.        *)
EXTENDS FmtSpecs, FmtBuffer, FmtMemoryBuffer, FmtArgs, MCFmtArgs

VARIABLE part   \* the component that runs
storageVars == <<part, vars, memoryVars, specsVars, argsVars>>
------------------------------------------------------------------------------
Unused == <<>>
ArgsUnused   == /\ args = Unused /\ next = Unused /\ desc = Unused
                /\ values = Unused /\ named = Unused /\ result = Unused
BufferUnused == Init /\ kind = "counting"

StorageInit ==
  \/ part = "specs"  /\ SpecsInit /\ BufferUnused /\ MemoryInit /\ ArgsUnused
  \/ part = "buffer" /\ SpecsInit /\ Init         /\ MemoryInit /\ ArgsUnused
  \/ part = "memory" /\ SpecsInit /\ BufferUnused /\ MemoryInit /\ ArgsUnused
  \/ part = "args"   /\ SpecsInit /\ BufferUnused /\ MemoryInit /\ ArgsInit
StorageNext ==
  /\ UNCHANGED part
  /\ \/ part = "specs"  /\ SpecsNext /\ UNCHANGED <<vars, memoryVars, argsVars>>
     \/ part = "buffer" /\ Next /\ UNCHANGED <<memoryVars, specsVars, argsVars>>
     \/ part = "memory" /\ MemoryNext /\ UNCHANGED <<vars, specsVars, argsVars>>
     \/ part = "args"   /\ ArgsNext /\ UNCHANGED <<vars, memoryVars, specsVars>>
StorageSpec ==
  /\ StorageInit /\ [][StorageNext]_storageVars
  /\ WF_storageVars(part = "buffer" /\ WriteSome
                      /\ UNCHANGED <<part, memoryVars, specsVars, argsVars>>)
==============================================================================
