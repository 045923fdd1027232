----------------------------- MODULE MCSeeders -----------------------------
(* The scripts on the concepts they name. *)
EXTENDS Seeders

MCNames == {"operating_system", "filesystem", "path", "permission", "directory", "file",
            "read", "list", "delete", "create", "ownership", "symlink", "user", "group",
            "process", "write", "move", "copy", "modify", "execute"}

MCIds == Names \X (1..MaxRuns)
=============================================================================
