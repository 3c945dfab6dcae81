-------------------------- MODULE MCSchemaRegistry --------------------------
(***************************************************************************)
(* Instances of SchemaRegistry for TLC. Collection "memory" goes through   *)
(* three versions: v2 adds a column and an index, v3 moves the table and   *)
(* makes the index unique. Collection "note" declares the table that v3    *)
(* moves to, in two ways that claim the same version; one of them uses the *)
(* index name of "memory". One declaration is invalid: its key is          *)
(* nullable. NoteUpper names the table of "memory" in capitals.            *)
(***************************************************************************)
EXTENDS SchemaRegistry, TLC

CONSTANTS c1, c2

MCConnections == {c1, c2}
Symmetry == Permutations(MCConnections)

Key == [id |-> "id", column |-> "id", type |-> "INTEGER", nullable |-> FALSE,
        primaryKey |-> TRUE]
Text == [id |-> "text", column |-> "text", type |-> "TEXT", nullable |-> TRUE,
         primaryKey |-> FALSE]

ByText(unique) == [id |-> "by_text", name |-> "idx", unique |-> unique, columns |-> <<"text">>]

Schema(id, table, version, fields, indexes) ==
    [id |-> id, table |-> table, version |-> version, fields |-> fields, indexes |-> indexes]

MemoryV1 == Schema("memory", "memories", 1, {Key}, {})
MemoryV2 == Schema("memory", "memories", 2, {Key, Text}, {ByText(FALSE)})
MemoryV3 == Schema("memory", "notes", 3, {Key, Text}, {ByText(TRUE)})
Note == Schema("note", "notes", 1, {Key}, {})
NoteIndexed == Schema("note", "notes", 1, {Key, Text}, {ByText(FALSE)})
Invalid == Schema("note", "notes", 2, {[Key EXCEPT !.nullable = TRUE]}, {})
NoteUpper == Schema("note", "MEMORIES", 1, {Key}, {})

MCSchemas == {MemoryV1, MemoryV2, MemoryV3, Note, NoteIndexed, Invalid}
MCMigrations == {[id |-> "m1", from |-> MemoryV1, to |-> MemoryV2],
                 [id |-> "m2", from |-> MemoryV2, to |-> MemoryV3],
                 [id |-> "m1", from |-> MemoryV2, to |-> MemoryV3],
                 [id |-> "m2", from |-> MemoryV3, to |-> MemoryV1]}
CaseSchemas == {MemoryV1, NoteUpper}

MCFold == [t \in {"memories", "MEMORIES", "notes"} |->
              IF t = "MEMORIES" THEN "memories" ELSE t]

=============================================================================
