---------------------------- MODULE MCTelemetry ----------------------------
(* Three instances, two of them of one name in different zones; shells and   *)
(* deployments that differ in thresholds, cap and internal domains.          *)
EXTENDS Telemetry

Environment(cpu, sustained, domains) ==
    [cpu_threshold |-> cpu, cpu_sustained |-> sustained, trusted_domains |-> domains]

MCDefault ==
    [model |-> "flash", default_project_id |-> "", trusted_domains |-> {}, cpu_threshold |-> 2,
     cpu_sustained |-> 2, gpu_threshold |-> 1, max_instances |-> 3]

MCShells ==
    {[k \in {} |-> 0], Environment(1, 1, {"example.com"}), Environment(1, 3, {}),
     [max_instances |-> 1]}

MCArguments ==
    {[model |-> "flash"], [model |-> "pro", trusted_domains |-> {"example.com"}],
     [model |-> "flash", default_project_id |-> "demo"]}

MCMachines == {"1", "2", "3"}

MCNameOf == [m \in MCMachines |-> IF m = "3" THEN "web" ELSE "miner"]

MCNameOrder == <<"miner", "web">>

Idle == [cpu |-> <<1, 0>>, gpu |-> <<>>]
Hot == [cpu |-> <<2, 2>>, gpu |-> <<>>]
Uneven == [cpu |-> <<1, 2, 1>>, gpu |-> <<1>>]
Silent == [cpu |-> <<>>, gpu |-> <<>>]

MCLoads ==
    {[m \in MCMachines |-> CASE m = "1" -> a [] m = "2" -> b [] m = "3" -> c] :
       a \in {Idle, Hot, Silent}, b \in {Idle, Uneven}, c \in {Hot, Uneven}}
=============================================================================
