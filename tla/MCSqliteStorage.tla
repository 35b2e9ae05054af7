--------------------------- MODULE MCSqliteStorage -------------------------
EXTENDS SqliteStorage

(* Pages of a branch, and scans that stop at, or select, a type            *)
MCQueries ==
    [order : {"newest", "oldest"}, type : {"any"}, stopType : {"none"},
     cursor : {0, 3}, limit : {-1, 2}]
    \union
    [order : {"newest", "oldest"}, type : {"any", "message"},
     stopType : {"compaction"}, cursor : {0}, limit : {-1, 1}]

=============================================================================
