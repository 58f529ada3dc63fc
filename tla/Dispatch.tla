------------------------------ MODULE Dispatch ----------------------------
(***************************************************************************)
(* The choice between the assembly and the portable kernels of the x86-64  *)
(* backends, crates/verify/src/fp/dispatch.rs: a cached answer that every  *)
(* kernel reads, that the first of them computes, and that a test may      *)
(* force.  Threads share nothing else.  A load and a store are each        *)
(* atomic; `detect' does its own store some time after the load.           *)
(***************************************************************************)
CONSTANTS
    Threads,   \* threads that call kernels, and force the answer
    Cpus       \* whether the CPU has BMI2, and ADX

VARIABLES
    cpu,
    MODE,      \* "auto", "asm" or "portable"
    pc,        \* what a thread does: "call" between kernels, "detect", or the kernel it runs
    forced,    \* portable kernels were asked for while no thread was detecting, and not undone
    late       \* the threads that were in an assembly kernel then, and still are

disp == <<cpu, MODE, pc, forced, late>>

DispIdle == /\ cpu = [bmi2 |-> FALSE, adx |-> FALSE] /\ MODE = "auto" /\ pc = [t \in Threads |-> "off"]
            /\ forced = FALSE /\ late = {}

DispInit == cpu \in Cpus /\ MODE = "auto" /\ pc = [t \in Threads |-> "call"] /\ forced = FALSE /\ late = {}

\* Mutated form of Detected: BMI2 is taken for both.
Bmi2Only == cpu.bmi2

Detected == cpu.bmi2 /\ cpu.adx

\* asm_available: the load, and the kernel it chooses.
LoadMode(t) ==
    /\ pc[t] = "call"
    /\ pc' = [pc EXCEPT ![t] = IF MODE = "auto" THEN "detect" ELSE MODE]
    /\ UNCHANGED <<cpu, MODE, forced, late>>

\* detect: the store, and the answer it gives whatever MODE has become.
Detect(t) ==
    /\ pc[t] = "detect"
    /\ MODE' = IF Detected THEN "asm" ELSE "portable"
    /\ pc' = [pc EXCEPT ![t] = MODE'] /\ UNCHANGED <<cpu, forced, late>>

Return(t) ==
    /\ pc[t] \in {"asm", "portable"}
    /\ pc' = [pc EXCEPT ![t] = "call"] /\ late' = late \ {t} /\ UNCHANGED <<cpu, MODE, forced>>

Forced == "portable"

force_portable(t) ==
    /\ pc[t] = "call"
    /\ MODE' = Forced
    /\ forced' = \A u \in Threads : pc[u] # "detect"
    /\ late' = {u \in Threads : pc[u] = "asm"} /\ UNCHANGED <<cpu, pc>>

force_auto(t) ==
    /\ pc[t] = "call"
    /\ MODE' = "auto" /\ forced' = FALSE /\ UNCHANGED <<cpu, pc, late>>

DispNext == \E t \in Threads : LoadMode(t) \/ Detect(t) \/ Return(t) \/ force_portable(t) \/ force_auto(t)

DispSpec == DispInit /\ [][DispNext]_disp

---------------------------------------------------------------------------
(* Properties.                                                             *)

\* No assembly kernel runs on a CPU without its instructions, whichever
\* thread detected and whoever forced what; and once portable kernels have
\* been asked for, with no detection under way, no kernel that starts later
\* is an assembly one until force_auto.  (A detection under way stores its
\* own answer over the forced one: dispatch.rs, detect.)
DispatchRight ==
    \A t \in Threads : pc[t] = "asm" => cpu.bmi2 /\ cpu.adx /\ (forced => t \in late)
============================================================================
