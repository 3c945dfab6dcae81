--------------------------- MODULE MCOpenDatabase ---------------------------
(***************************************************************************)
(* Instances of OpenDatabase for TLC.                                      *)
(***************************************************************************)
EXTENDS OpenDatabase, TLC

CONSTANTS o1, o2, k1, k2, k3

MCOpeners == {o1, o2}
MCKeys == {k1, k2, k3}
Symmetry == Permutations(MCOpeners) \union Permutations({k2, k3})

GoodOptions ==
    [read_connections |-> 1, write_queue_capacity |-> 1, max_jobs |-> 1,
     max_delay |-> 0, interval |-> 1, soft_limit |-> 1,
     budget |-> 2 * KIB, cache |-> KIB]

Request(flags, source, k, readers) ==
    [path |-> TRUE, vfs |-> "none", flags |-> flags, source |-> source, key |-> k,
     readers |-> readers, options |-> GoodOptions]

ByProvider == Request(DefaultFlags, "provider", None, 0)
ByKey == Request(DefaultFlags, "raw", k1, 0)

\* Requests that are refused before they reach the file, one per check.
Refused ==
    {[ByKey EXCEPT !.path = FALSE], [ByKey EXCEPT !.vfs = "empty"],
     [ByKey EXCEPT !.flags = {"READONLY", "READWRITE"}],
     [ByKey EXCEPT !.source = "empty passphrase"],
     [ByProvider EXCEPT !.source = "no provider"],
     [ByProvider EXCEPT !.readers = 1, !.options = [GoodOptions EXCEPT !.max_jobs = 0]],
     [ByKey EXCEPT !.readers = 1, !.options = [GoodOptions EXCEPT !.budget = KIB]]}

MCRequests ==
    {ByKey, Request({}, "provider", None, 0),
     Request({"READONLY"}, "passphrase", k1, 0),
     Request(PlaintextFlags, "no provider", None, 0),
     Request(DefaultFlags, "provider", None, 1)} \union Refused

ProviderRequests == {ByProvider}

\* The shares of a pool's page caches fit its memory budget, at the limits too.
ASSUME CacheSharesFit ==
    \A budget \in {0, 1023, 1024, 2047, 3 * 1024, 65 * 1024, 64 * 1024 * 1024},
       cache \in {0, 1024, 16 * 1024 * 1024}, readers \in {1, 2, 63, 64} :
        CacheAccepted(budget, cache, readers) =>
            CacheShare(budget, cache, readers) * (readers + 1) <= budget

=============================================================================
