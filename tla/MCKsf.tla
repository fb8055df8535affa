------------------------------- MODULE MCKsf -------------------------------
(* Service graphs and sets of failing callbacks for Ksf.                     *)
EXTENDS Ksf, SequencesExt

\* The built-in services of bootstrap().
BuiltInOrder ==
  <<"console", "memory", "object", "provider", "sif", "timer", "scheduler", "event",
    "health", "input", "vfs", "driver-manager", "device-manager", "process-manager",
    "ipc", "network", "sairu", "shell">>

CoreDeps ==
  ("console" :> {}) @@ ("memory" :> {"console"}) @@ ("object" :> {"memory"})
    @@ ("provider" :> {"object"})

KernelDeps ==
  ("sif" :> {"provider"}) @@ ("timer" :> {"memory"}) @@ ("scheduler" :> {"timer"})
    @@ ("event" :> {"sif"})

SessionDeps ==
  ("health" :> {"event"}) @@ ("input" :> {"console"}) @@ ("vfs" :> {"sif"})
    @@ ("shell" :> {"console", "input", "sif", "scheduler"})

ManagerDeps ==
  ("driver-manager" :> {"object"}) @@ ("device-manager" :> {"driver-manager"})
    @@ ("process-manager" :> {"scheduler"}) @@ ("ipc" :> {"process-manager"})

SystemDeps == ("network" :> {"ipc"}) @@ ("sairu" :> {"health", "event"})

BuiltInDeps == CoreDeps @@ KernelDeps @@ SessionDeps @@ ManagerDeps @@ SystemDeps

\* The built-in services registered in the opposite order, so that start_all
\* needs as many passes as the longest chain of dependencies is long.
MCOrder == Reverse(BuiltInOrder)

\* One callback fails, or two of the services that others wait for.
MCFaultSets ==
  {{}} \cup {{c} : c \in Callbacks}
       \cup {{a, b} : a, b \in {"console", "timer", "scheduler"} \X {"initialize", "start"}}
=============================================================================
