---------------------------- MODULE MCOpenFiles ----------------------------
(* Instances of OpenFiles for TLC. *)
EXTENDS OpenFiles, TLC

CONSTANTS t1, t2

Do(kind, at, len, data, whence) ==
    [kind |-> kind, at |-> at, len |-> len, data |-> data, whence |-> whence]

\* One call of each kind, reaching over the boundary of the two-byte blocks.
MCCalls ==
    { Do("write", 0, 0, <<1>>, "set"),
      Do("write_at", 1, 0, <<1, 1>>, "set"),
      Do("append_write", 0, 0, <<1>>, "set"),
      Do("read_at", 0, 4, <<>>, "set"),
      Do("read", 0, 2, <<>>, "set"),
      Do("ftruncate", 1, 0, <<>>, "set"),
      Do("ftruncate", 4, 0, <<>>, "set"),
      Do("seek", 3, 0, <<>>, "set"),
      Do("seek", -1, 0, <<>>, "end") }

MCOpenFlags ==
    { [access |-> "rw", append |-> FALSE, trunc |-> FALSE],
      [access |-> "w", append |-> TRUE, trunc |-> TRUE] }

Symmetry == Permutations(Threads)
=============================================================================
