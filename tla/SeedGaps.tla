------------------------------ MODULE SeedGaps ------------------------------
(***************************************************************************)
(* scripts/seed_gaps.py: the graph of ten concepts that demonstrates the   *)
(* kinds of gap.  One definition per seed function, main at the end.       *)
(***************************************************************************)
EXTENDS SeedSteps, Sequences

Save(name, S, relata) == Seed("save", name, S, relata)

seed_operating_system == Save("operating_system", 1..3, {})

seed_filesystem == Save("filesystem", 1..3, {At(2, "DEPENDS_ON", "operating_system", 2)})

seed_path == Save("path", 1..3, {At(2, "DEPENDS_ON", "filesystem", 1)})

seed_permission == Save("permission", 1..3, {At(2, "DEPENDS_ON", "operating_system", 2)})

seed_directory == Save("directory", 1..3,
  {At(1, "REQUIRES", "path", 1), At(2, "DEPENDS_ON", "filesystem", 1),
   At(3, "CONSTRAINED_BY", "permission", 1)})

\* Deliberately shallow.
seed_file == Save("file", {1}, {At(1, "REQUIRES", "path", 1)})

seed_read == Save("read", 1..2, {At(2, "APPLIES_TO", "file", 2)})

seed_list == Save("list", 1..2, {At(2, "APPLIES_TO", "directory", 2)})

\* APPLIES_TO would live at D3, which is left out.
seed_delete == Save("delete", 1..2, {})

\* Fault: D2 is there.
seed_create_whole == Save("create", 1..2, AllAt(3, "APPLIES_TO", {"file", "directory"}, 2))

\* D2 is left out, and gates the relata at D3.
seed_create == Save("create", {1}, AllAt(3, "APPLIES_TO", {"file", "directory"}, 2))

includes == Rewire("save", "filesystem", AllAt(2, "INCLUDES", {"file", "directory"}, 0))

main ==
  <<Clear,
    seed_operating_system, seed_filesystem, seed_path, seed_permission,
    seed_directory, seed_file,
    seed_read, seed_list, seed_delete, seed_create,
    includes>>

=============================================================================
