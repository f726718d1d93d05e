\* The classes an actionsequence entry adds outlive the entry.
CONSTANTS
    Class <- Classes
    Policies <- MCPolicies
    MaxPromises = 3
SPECIFICATION Spec
INVARIANT ActionClassesScoped
