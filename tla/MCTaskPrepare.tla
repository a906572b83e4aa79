--------------------------- MODULE MCTaskPrepare ---------------------------
(* Small instances of TaskPrepare for TLC.                                    *)
EXTENDS TaskPrepare

CONSTANTS a1,           \* the asset name
          c1, c2,       \* its first content, with commands, and its second, without
          m1, m2        \* metadata without and with a `binaries` list

\* Every spec; `require` asks nothing more of an asset whose digest is declared.
AllSpecs == {s \in SpecRecords : s.require => s.digest = None}
=============================================================================
