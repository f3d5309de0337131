----------------------------- MODULE MCSfsFile -----------------------------
(***************************************************************************)
(* SfsImage with the bytes that are written chosen so that neighbours      *)
(* differ: a byte out of place shows.                                      *)
(***************************************************************************)
EXTENDS SfsImage

CONSTANTS x, y

MCWrites == {<<x>>, <<x, y, x>>}

Named(name, kind, real) == [name |-> name, kind |-> kind, real |-> real]

Home(ninos, dir, bytes) == [ninos |-> ninos, dir |-> dir, bytes |-> bytes]

\* Two files, one of them empty, which fill two whole blocks of the free map.
TwoFiles(f, g) ==
    Home(14, ROOT :> {Named("a", "file", f), Named("b", "file", g)},
         f :> <<>> @@ g :> <<x, y, x>>)

\* One file with two names.
HardLink(f) ==
    Home(13, ROOT :> {Named("a", "file", f), Named("b", "file", f)}, f :> <<x>>)

\* Directories, a link, and entries that are not copied.
Directories(ninos, f) ==
    Home(ninos, ROOT :> {Named("s", "dir", "sub")}
                  @@ "sub" :> {Named("t", "dir", "subsub"), Named("l", "link", "lnk"),
                               Named(".a", "hidden", f), Named("p", "unsupported", "pipe")}
                  @@ "subsub" :> {Named("a", "file", f)},
         f :> <<x>>)

\* The last two images are too small, for the tree and for any.
MCHomes ==
    {TwoFiles(f, g) : <<f, g>> \in {p \in File \X File : p[1] # p[2]}}
      \cup {HardLink(f) : f \in File}
      \cup {Directories(n, f) : n \in {25, 23, 3}, f \in File}

Interchangeable == Permutations(File) \cup Permutations(Fd)
=============================================================================
