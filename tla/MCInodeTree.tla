---------------------------- MODULE MCInodeTree ----------------------------
(* Instances of InodeTree for TLC. *)
EXTENDS InodeTree, TLC

CONSTANTS t1, t2

\* Two directories with a file each.
TwoDirs ==
    (0 :> [dir |-> TRUE, entries |-> ("a" :> 1 @@ "b" :> 2)]) @@
    (1 :> [dir |-> TRUE, entries |-> ("a" :> 3)]) @@
    (2 :> [dir |-> TRUE, entries |-> ("a" :> 4)]) @@
    (3 :> File) @@ (4 :> File)

MCTrees == {NewTree, TwoDirs}

Open(at, path, creat, excl, trunc, access) ==
    [op |-> "open", path |-> path, creat |-> creat, excl |-> excl, trunc |-> trunc,
     access |-> access, at |-> at]
Do(op, path) == [op |-> op, path |-> path]
Rename(path, to) == [op |-> "rename", path |-> path, to |-> to]

MCCalls ==
    { Open(FALSE, <<"a">>, FALSE, FALSE, FALSE, "r"),
      Open(FALSE, <<"b", "b">>, TRUE, FALSE, FALSE, "w"),
      Open(TRUE, <<"b">>, TRUE, TRUE, TRUE, "r"),
      Do("stat", <<"b", "a">>),
      Do("mkdir", <<"b">>),
      Do("mkdir_p", <<"b", "b">>),
      Do("unlink", <<"a", "a">>),
      Do("rmdir", <<"a">>),
      Rename(<<"a">>, <<"b">>),
      Rename(<<"a", "a">>, <<"b", "b">>),
      Rename(<<"b", "a">>, <<"a", "b">>) }
=============================================================================
