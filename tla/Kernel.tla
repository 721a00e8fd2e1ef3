-------------------------------- MODULE Kernel --------------------------------
(***************************************************************************)
(* kernel_main (kernel/kernel.c) over the process manager: once the        *)
(* subsystems are up it creates the shell and puts it in the ready queue,  *)
(* and from then on the system calls come.                                 *)
(***************************************************************************)
EXTENDS Process

VARIABLES
    boot,    \* where kernel_main is: "create", "add", "done"
    shell    \* shell_proc

kernelVars == <<procVars, boot, shell>>

KernelInit ==
    /\ Init
    /\ boot = "create"
    /\ shell = NULL

\* create_process("shell"), whose own last act is to enqueue the process.
BootCreate ==
    /\ boot = "create"
    /\ create_process
    /\ boot' = "add"
    /\ shell' = call'.proc

\* "if (shell_proc) add_to_ready_queue(shell_proc)"
BootAdd ==
    /\ boot = "add"
    /\ shell # NULL
    /\ add_to_ready_queue(shell)
    /\ boot' = "done"
    /\ UNCHANGED shell

\* What user/test.c does: it forks, waits, sleeps and exits, and kills nobody.
AfterBoot ==
    /\ boot = "done"
    /\ Syscalls
    /\ UNCHANGED <<boot, shell>>

InCall == Steps /\ UNCHANGED <<boot, shell>>

KernelNext == BootCreate \/ BootAdd \/ AfterBoot \/ InCall

KernelSpec == KernelInit /\ [][KernelNext]_kernelVars

\* process.c:147: exit_process never returns, the process that exited does not
\* run again.
ExitNeverReturns ==
    [][\A s \in Slots : state[s] = "TERMINATED" => state'[s] # "RUNNING"]_kernelVars
==============================================================================
