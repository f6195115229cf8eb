------------------------------ MODULE RootPath ------------------------------
(***************************************************************************)
(* util.rs: canonicalize_root_path.  A path is what Path::components makes *)
(* of it: whether it is absolute, and its components, where "." is the     *)
(* current and ".." the parent directory; separators are gone by then.     *)
(***************************************************************************)
EXTENDS Naturals, Sequences, SequencesExt

Top == [absolute |-> TRUE, comps |-> <<>>]

\* PathBuf::pop: at the top, or of nothing, it does nothing.
Pop(acc) == IF acc = <<>> THEN acc ELSE Front(acc)

\* Faulty variant of PushComponent: a parent of nothing is kept.
PushComponentKeepsParent(acc, comp) ==
    CASE comp = "." -> acc
      [] comp = ".." /\ acc # <<>> -> Front(acc)
      [] OTHER -> Append(acc, comp)

PushComponent(acc, comp) ==
    CASE comp = "." -> acc
      [] comp = ".." -> Pop(acc)
      [] OTHER -> Append(acc, comp)

\* The components kept after each of those read.
Folded(comps) ==
    LET acc[n \in 0 .. Len(comps)] ==
            IF n = 0 THEN <<>> ELSE PushComponent(acc[n - 1], comps[n])
    IN  acc

\* Whatever folds to nothing is the root of the filesystem.
Canonicalize(path) ==
    LET comps == Folded(path.comps)[Len(path.comps)]
    IN  IF comps = <<>> THEN Top ELSE [path EXCEPT !.comps = comps]
=============================================================================
