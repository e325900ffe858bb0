------------------------------ MODULE Pipelines ------------------------------
(* Shell and what it promises, under names that can stand beside those of     *)
(* another program.                                                           *)
CONSTANTS Scripts, PipeSize, MaxFd
VARIABLES script, pipes, processes, screen

TheShell == INSTANCE Shell

(* The shell keeps ends to read from only, as many as it forgets (lab5/zad1). *)
OnlyReadEndsLeak == TheShell!OnlyReadEndsLeak
==============================================================================
