\* Build on any machines, publish, install anywhere: does an install on a
\* platform that has a staged binary find it?
CONSTANTS
    Machines <- MCMachines
SPECIFICATION Spec
INVARIANTS
    InstallFindsPublishedBinary
