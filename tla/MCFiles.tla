------------------------------ MODULE MCFiles -------------------------------
(***************************************************************************)
(* Files on a root directory with a file and an empty directory in it.     *)
(***************************************************************************)
EXTENDS Files

CONSTANTS rootdir, subdir, prog, console

MCEntry ==
    [d \in Dir |->
       IF d = rootdir
         THEN [n \in {"..", "sub", "f"} |->
                 CASE n = ".." -> rootdir [] n = "sub" -> subdir [] n = "f" -> prog]
         ELSE [n \in {".."} |-> rootdir]]

At(from, name) == [from |-> from, name |-> name]

\* The file, the directory, the parent, the root, the console, and names that
\* do not exist.
MCPath ==
    {At("cwd", "f"), At("cwd", ".."), At("boot", "f"), At("boot", NULL), At("fs", "sub"),
     At(console, NULL), At(console, "x"), At("unknown", "f")}

Opens(acc, how) ==
    [acc |-> acc, creat |-> "creat" \in how, excl |-> "excl" \in how,
     trunc |-> "trunc" \in how, append |-> "append" \in how]

MCFlags ==
    {Opens("r", {}), Opens("rw", {"creat", "trunc"}), Opens("r", {"creat", "excl"}),
     Opens("r", {"trunc"}), Opens("rw", {"append"}), Opens("r", {"creat"})}
=============================================================================
