SPECIFICATION Spec
CONSTANTS
    Default <- MCDefault
    Shells <- MCShells
    Arguments <- MCArguments
    Machines <- MCMachines
    NameOf <- MCNameOf
    NameOrder <- MCNameOrder
    Loads <- MCLoads
INVARIANT DeployedSettingsApply
