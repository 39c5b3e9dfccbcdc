---------------------------- MODULE MCSharedHandles ----------------------------
(***************************************************************************)
(* Instances of LiveHandle and HostApi for TLC: the threads of a process   *)
(* share one index handle, or make, use and free handles through the C     *)
(* interface.                                                              *)
(***************************************************************************)
EXTENDS LiveHandle, HostApi

CONSTANTS p1, p2, c1, c2, t1, t2, k1, k2, u1

\* Paths, contents and callers are interchangeable in every instance; threads of one index handle
\* only where they play the same part.
Symmetry == Permutations(Path) \cup Permutations(Content) \cup Permutations(Caller)

Use(committers, maintainers, kinds) ==
    [committers |-> committers, maintainers |-> maintainers, kinds |-> kinds]
Apart == {Use({t1, t2}, {}, {"changed", "deleted"}), Use({}, {t1}, {"changed"})}

Programs == {{}, {"store_open", "embedder_new", "engine_new", "ask", "tool"}, {"store_open", "embedder_new", "embed"},
             {"store_open", "memory_open", "manage"}, {"store_open", "engine_new", "index_open"}, {"index_open", "manage"}, {"chat"}}

\* A process does one of the two, and the state of the other rests.
SharedInit == /\ Init /\ HostInit
              /\ host # {} => use = (CHOOSE u \in Uses : TRUE) /\ tree = [p \in Path |-> Absent]
SharedNext == \/ host = {} /\ Next /\ UNCHANGED hostVars
              \/ host # {} /\ HostNext /\ UNCHANGED vars
SharedSpec == SharedInit /\ [][SharedNext]_<<vars, hostVars>>
===============================================================================
