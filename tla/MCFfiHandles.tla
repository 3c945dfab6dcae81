---------------------------- MODULE MCFfiHandles ----------------------------
(***************************************************************************)
(* An instance of FfiHandles for TLC.                                      *)
(***************************************************************************)
EXTENDS FfiHandles, TLC

CONSTANTS t1, t2

MCThreads == {t1, t2}
Symmetry == Permutations(MCThreads)

\* For each open function a call without a fault, and one per check it makes.
Valid(fn, key) ==
    [fn |-> fn, out |-> TRUE, path |-> TRUE, options |-> TRUE, vfs |-> TRUE,
     flags |-> TRUE, key |-> key]

MCOpenCalls ==
    LET good == {Valid("open", "auto"), Valid("open_v2", "auto"),
                 Valid("open_with_key", "raw"), Valid("open_v3", "raw")}
    IN  good
        \union UNION {{[c EXCEPT !.out = FALSE], [c EXCEPT !.path = FALSE],
                       [c EXCEPT !.options = FALSE], [c EXCEPT !.vfs = FALSE],
                       [c EXCEPT !.flags = FALSE]} : c \in good}
        \union {Valid("open_v3", k) : k \in KeyArguments}
        \union {Valid("open_with_key", k) : k \in {"null", "length"}}

=============================================================================
