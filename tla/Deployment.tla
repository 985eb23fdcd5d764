----------------------------- MODULE Deployment -----------------------------
(***************************************************************************)
(* Which settings the parts of a running agent see.  A setting is read     *)
(* from the environment at two moments: the collectors and the rules about *)
(* IAM read it on every call, while agent.py and the two engine agents     *)
(* keep what they found when they were imported.  An agent that is         *)
(* deployed is imported in the operator's shell, shipped as it is, and run *)
(* with the environment the deployment names.                              *)
(***************************************************************************)
EXTENDS Naturals

CONSTANTS
    Default,    \* the default of every setting
    Shells,     \* environments the operator may have, partial functions like Default
    Arguments   \* settings a command may be given

VARIABLES
    shell,      \* the operator's environment
    process,    \* the agent that runs: where, its environment, and what it keeps
    asked       \* the arguments it was started with (history)

deployment == <<shell, process, asked>>

-----------------------------------------------------------------------------
get_settings(env) ==
    [k \in DOMAIN Default |-> IF k \in DOMAIN env THEN env[k] ELSE Default[k]]

\* What the tools see.
Current == get_settings(process.environment)

\* What agent.py and the engine keep.
Kept == process.captured

\* The settings a deployment passes on; thresholds and caps are not among them.
Deployable == {"model", "default_project_id", "organization_id", "billing_account_id",
               "trusted_domains"}

env_vars(args) == [k \in DOMAIN args \cap Deployable |-> args[k]]

\* create and update: the module is imported before its environment is made.
Deploy(args) ==
    /\ process' = [remote |-> TRUE, environment |-> env_vars(args),
                   captured |-> get_settings(shell)]
    /\ asked' = args
    /\ UNCHANGED shell

\* The project given is set unless the shell has one, and then the agent is
\* imported.
RunLocally(project) ==
    /\ LET env == [k \in DOMAIN shell \cup {"default_project_id"} |->
                     IF k \in DOMAIN shell THEN shell[k] ELSE project]
       IN  process' = [remote |-> FALSE, environment |-> env, captured |-> get_settings(env)]
    /\ asked' = [k \in {} |-> ""]
    /\ UNCHANGED shell

\* The operator exports something else for the next command.
Export(env) ==
    /\ shell' = env
    /\ UNCHANGED <<process, asked>>

-----------------------------------------------------------------------------
\* README.md:127 and 149: the settings a deployment is given are those the
\* deployed agent goes by.
DeployedSettingsApply ==
    process.remote => \A k \in DOMAIN asked \cap DOMAIN Default : Kept[k] = asked[k]

=============================================================================
