---------------------------- MODULE MCContainer -----------------------------
(* Small instances of ContainerBackend for TLC.                            *)
EXTENDS ContainerBackend, TLC

MCSymmetry == Permutations(Proc) \cup Permutations(Controller)

\* No step reads an earlier answer, and of the properties TypeOK alone looks at
\* one, for its type: states that differ in nothing else are explored once.
MCView == <<cts, calls, pc, req, cur, todo, err, reply \in [Proc -> ErrClass]>>
=============================================================================
