\* Twelve patterns, and 24 hosts with and without a dot and a port.
SPECIFICATION Spec
CONSTANTS
    Patterns <- MCPatterns
    Hosts <- MCHosts
\* The gate knows no port behind a trailing dot.
INVARIANT TestPredictsGate
