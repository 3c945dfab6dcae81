----------------------------- MODULE OpenPolicy -----------------------------
(***************************************************************************)
(* The rules an open request passes before any storage is touched: the     *)
(* flag policy (crates/csgdb-core/src/open.rs), the flags handed to the    *)
(* engine (crates/csgdb-storage/src/lib.rs) and the limits of a pool       *)
(* (crates/csgdb/src/pool.rs).  A flag word is the set of its flags.       *)
(***************************************************************************)
EXTENDS Integers

Flags == {"READONLY", "READWRITE", "CREATE", "URI", "MEMORY", "ENCRYPTED",
          "PLAINTEXT", "FULLMUTEX", "NOMUTEX", "NOFOLLOW"}

\* OpenOptions::default, and DatabaseBuilder::plaintext.
DefaultFlags == {"READWRITE", "CREATE", "ENCRYPTED", "FULLMUTEX"}
PlaintextFlags == {"READWRITE", "CREATE", "PLAINTEXT", "FULLMUTEX"}

\* Mutually exclusive flags are refused where the code looks at them; a word
\* that names neither side gets the default.
Default(flags, pair, flag) ==
    IF flags \intersect pair = {} THEN flags \union {flag} ELSE flags

WithAccess(flags) == Default(flags, {"READONLY", "READWRITE"}, "READWRITE")

FlagsAccepted(flags) ==
    /\ ~({"READONLY", "READWRITE"} \subseteq flags)
    /\ "CREATE" \in flags => "READWRITE" \in WithAccess(flags)
    /\ ~({"ENCRYPTED", "PLAINTEXT"} \subseteq flags)
    /\ ~({"FULLMUTEX", "NOMUTEX"} \subseteq flags)

\* normalize_and_validate_flags, for a word that is accepted.
Normalized(flags) ==
    Default(WithAccess(flags), {"ENCRYPTED", "PLAINTEXT"}, "ENCRYPTED")

\* validate_vfs, by what the name is like.
VfsAccepted(vfs) == vfs \notin {"empty", "too long", "with NUL"}

\* Connection::open_readonly and the single-owner variants change the flags
\* of an accepted plan; sqlite_open_flags maps the rest one to one and leaves
\* the encryption flags out.
readonly_open_flags(flags) ==
    {"READONLY"} \union (flags \intersect {"URI", "MEMORY", "FULLMUTEX", "NOMUTEX", "NOFOLLOW"})

single_owner_open_flags(flags) == (flags \ {"FULLMUTEX"}) \union {"NOMUTEX"}

sqlite_open_flags(flags) ==
    (IF "READONLY" \in flags THEN {"READONLY"} ELSE {"READWRITE"})
    \union (flags \intersect {"CREATE", "URI", "MEMORY", "FULLMUTEX", "NOMUTEX", "NOFOLLOW"})

-----------------------------------------------------------------------------

MAX_READ_CONNECTIONS == 64
MAX_WRITE_QUEUE_CAPACITY == 65536
MAX_GROUP_COMMIT_JOBS == 256
MAX_GROUP_COMMIT_DELAY == 20000          \* microseconds
MAX_MAINTENANCE_INTERVAL_COMMITS == 1000000
MAX_WAL_AUTOCHECKPOINT_FRAMES == 2147483647
KIB == 1024

Within(n, max) == n # 0 /\ n <= max

\* validate_pool_options and the two validations it calls.
PoolOptionsAccepted(o, flags) ==
    /\ Within(o.read_connections, MAX_READ_CONNECTIONS)
    /\ Within(o.write_queue_capacity, MAX_WRITE_QUEUE_CAPACITY)
    /\ Within(o.max_jobs, MAX_GROUP_COMMIT_JOBS)
    /\ o.max_delay <= MAX_GROUP_COMMIT_DELAY
    /\ Within(o.interval, MAX_MAINTENANCE_INTERVAL_COMMITS)
    /\ Within(o.soft_limit, MAX_WAL_AUTOCHECKPOINT_FRAMES)
    /\ flags \intersect {"READONLY", "MEMORY"} = {}

\* pool_cache_bytes_per_connection: the writer and each reader get an equal
\* share of the memory budget, in whole KiB; a share of zero is refused.
CacheShare(budget, cache, readers) ==
    LET share == budget \div (readers + 1)
    IN  ((IF cache < share THEN cache ELSE share) \div KIB) * KIB

CacheAccepted(budget, cache, readers) == CacheShare(budget, cache, readers) >= KIB

=============================================================================
