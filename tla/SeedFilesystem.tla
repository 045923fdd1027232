--------------------------- MODULE SeedFilesystem ---------------------------
(***************************************************************************)
(* seeders/seed_filesystem.py: the filesystem domain, twenty concepts.     *)
(* One definition per seed function, then the wiring of main.              *)
(***************************************************************************)
EXTENDS SeedSteps, Sequences

Upsert(name, S, relata) == Seed("upsert", name, S, relata)

seed_operating_system == Upsert("operating_system", 1..3, {})

seed_filesystem == Upsert("filesystem", 1..3, {At(2, "DEPENDS_ON", "operating_system", 2)})

seed_path == Upsert("path", 1..3, {At(2, "DEPENDS_ON", "filesystem", 1)})

seed_permission == Upsert("permission", 1..3, {At(2, "DEPENDS_ON", "operating_system", 2)})

\* Fault: what the relata ask of ownership is not there.
seed_ownership_shallow == Upsert("ownership", {}, {})

seed_ownership == Upsert("ownership", 1..3, {At(2, "DEPENDS_ON", "operating_system", 2)})

\* What an entity needs: a path, the filesystem, permission.
Entity == {At(1, "REQUIRES", "path", 1), At(2, "DEPENDS_ON", "filesystem", 1),
           At(3, "CONSTRAINED_BY", "permission", 1)}

seed_directory == Upsert("directory", 1..3, Entity)

seed_file == Upsert("file", 1..3, Entity)

seed_symlink == Upsert("symlink", 1..3, Entity)

seed_user == Upsert("user", 1..3, {At(2, "DEPENDS_ON", "operating_system", 2)})

seed_group == Upsert("group", 1..3,
  {At(2, "DEPENDS_ON", "operating_system", 2), At(2, "INCLUDES", "user", 1)})

seed_process == Upsert("process", 1..3,
  {At(2, "DEPENDS_ON", "operating_system", 2), At(3, "CONSTRAINED_BY", "operating_system", 2)})

seed_create == Upsert("create", 1..3, AllAt(3, "APPLIES_TO", {"file", "directory"}, 2))

seed_read == Upsert("read", 1..3, {At(2, "APPLIES_TO", "file", 2)})

seed_write == Upsert("write", 1..3, {At(3, "APPLIES_TO", "file", 2)})

seed_delete == Upsert("delete", 1..4, AllAt(3, "APPLIES_TO", {"file", "directory"}, 2))

seed_list == Upsert("list", 1..3, {At(2, "APPLIES_TO", "directory", 2)})

seed_move == Upsert("move", 1..3,
  {At(2, "REQUIRES", "path", 1)} \cup AllAt(3, "APPLIES_TO", {"file", "directory"}, 2))

seed_copy == Upsert("copy", 1..3,
  {At(2, "REQUIRES", "path", 1)} \cup AllAt(2, "APPLIES_TO", {"file", "directory"}, 2))

seed_modify == Upsert("modify", 1..3, AllAt(3, "APPLIES_TO", {"file", "directory", "symlink"}, 2))

seed_execute == Upsert("execute", 1..4, {At(3, "APPLIES_TO", "file", 2)})

-----------------------------------------------------------------------------
(* main: the concepts, then the relata whose targets came later *)

concepts ==
  <<seed_operating_system, seed_filesystem,
    seed_path, seed_permission, seed_ownership,
    seed_directory, seed_file, seed_symlink,
    seed_user, seed_group, seed_process,
    seed_create, seed_read, seed_write, seed_delete, seed_list,
    seed_move, seed_copy, seed_modify, seed_execute>>

Update(name, relata) == Rewire("upsert", name, relata)

structure ==
  <<Update("filesystem", AllAt(2, "INCLUDES", {"file", "directory", "symlink"}, 0)),
    Update("permission",
      {At(2, "DEPENDS_ON", "ownership", 1)}
        \cup AllAt(2, "APPLIES_TO", {"user", "group", "process", "symlink"}, 1)
        \cup AllAt(2, "APPLIES_TO", {"read", "write", "delete", "create", "list", "move",
                                     "copy", "modify", "execute"}, 2)),
    Update("ownership", AllAt(2, "APPLIES_TO", {"file", "directory", "symlink", "user", "group"}, 1)),
    Update("file", {At(1, "REQUIRES", "ownership", 1)}),
    Update("directory", {At(1, "REQUIRES", "ownership", 1)}),
    Update("symlink", {At(1, "REQUIRES", "ownership", 1)}),
    Update("user", {At(2, "INCLUDES", "process", 1)})>>

Constrained(name, by) == Update(name, {At(3, "CONSTRAINED_BY", by, 1)})

constraints ==
  <<Constrained("read", "permission"), Constrained("write", "permission"),
    Constrained("delete", "permission"), Constrained("create", "permission"),
    Constrained("modify", "permission"), Constrained("modify", "ownership"),
    Constrained("list", "permission"), Constrained("move", "permission"),
    Constrained("copy", "permission"), Constrained("execute", "permission")>>

consequences ==
  <<Update("create", {At(3, "APPLIES_TO", "symlink", 2)}),
    Update("delete", {At(3, "APPLIES_TO", "symlink", 2)}
                       \cup AllAt(4, "APPLIES_TO", {"symlink", "process"}, 1)),
    Update("read", {At(2, "APPLIES_TO", "symlink", 2)}),
    Update("execute", {At(4, "APPLIES_TO", "process", 1), At(4, "APPLIES_TO", "file", 2)}),
    Constrained("process", "permission")>>

\* Fault: the seeder clears the graph first.
main_cleared == <<Clear>> \o concepts \o structure \o constraints \o consequences

main == concepts \o structure \o constraints \o consequences

=============================================================================
