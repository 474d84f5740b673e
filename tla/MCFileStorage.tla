--------------------------- MODULE MCFileStorage ---------------------------
(* FileStorage with two callers in one process and one in another.          *)
EXTENDS FileStorage, TLC

CONSTANTS a, b, x, here, there, S, T
MCCallers == {a, b, x}
MCProcess == [c \in MCCallers |-> IF c = x THEN there ELSE here]
MCStates == {S, T}

\* The states, and the two callers of one process, may be exchanged.
MCSymmetry == Permutations({a, b}) \cup Permutations(MCStates)

\* Which number a file has matters to nobody, nor what is in a file that has no
\* name and is not open: the next writeFile to get it truncates it.
MCUse(f) == <<f = path, {r \in Procs : tmp[r] = f}, {c \in Callers : op[c].file = f}, content[f]>>
MCView == <<{MCUse(f) : f \in InUse \ {0}}, [c \in Callers |-> <<op[c].at, op[c].v>>]>>
=============================================================================
