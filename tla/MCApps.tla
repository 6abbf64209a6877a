------------------------------- MODULE MCApps -------------------------------
(* Small instances of Apps for TLC.                                        *)
EXTENDS Apps, TLC

CONSTANTS c1, c2, r1, r2

\* Controller c1 derives names 1 and 3, c2 derives 2; 4 is a tenant's name
\* that looks like a provider name, 5 one that does not.
MCOwnedName == [x \in Controller \X Runner |->
                  IF x[1] = c2 THEN 2 ELSE IF x[2] = r1 THEN 1 ELSE 3]
\* Controllers of one policy decode each other's apps, those of two do not.
MCNoGateway == [c \in Controller |-> FALSE]
MCGateway == [c \in Controller |-> c = c1]
MCSymmetry == Permutations(Proc)

\* No step reads an earlier answer, and the properties look only at the answer
\* a step gives: states that differ in nothing else are explored once.
MCView == <<apps, calls, pc, req, todo, out, stable>>
=============================================================================
