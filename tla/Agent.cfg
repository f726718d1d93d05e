\* One cfagent run over every configuration of MCPolicies.
CONSTANTS
    Class <- Classes
    Policies <- MCPolicies
    MaxPromises = 3
SPECIFICATION Spec
INVARIANTS
    AtMostOnce
    KeptInScope
    
    UpdateClassesPrivate
PROPERTY UsesLocks
