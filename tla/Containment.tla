---------------------------- MODULE Containment ----------------------------
(***************************************************************************)
(* Where a path leads and whether it lies in a directory: dirRelation      *)
(* (libwebsocketd/http.go) and checkPathBoundary (handler.go).             *)
(*                                                                         *)
(* A path is the sequence of its names from the root, so <<>> is "/".  The *)
(* file system has at most one symbolic link, and at most one directory    *)
(* that is reached under a second name without a link: by a bind mount, or *)
(* because names are folded.  A system call fails only because something   *)
(* does not exist, and the tree does not change within one handler.        *)
(***************************************************************************)
EXTENDS Naturals, Sequences, SequencesExt, FiniteSetsExt

CONSTANTS
  Dirs,  \* the directories, by their real paths
  Files  \* the files, by their real paths

VARIABLES
  link,  \* the link at link.at leads to the real path link.to
  alias  \* what is found under alias.at is what is found under alias.on

tree == <<link, alias>>

-----------------------------------------------------------------------------
(* The file system. *)

(* What a resolved path names where a is the second name. *)
NamedUnder(a, q) ==
  IF IsPrefix(a.at, q) THEN a.on \o SubSeq(q, Len(a.at) + 1, Len(q)) ELSE q

(* The file a resolved path names, which os.SameFile compares. *)
Node(q) == NamedUnder(alias, q)

(* filepath.EvalSymlinks of an absolute path, one name after the other: no *)
(* link is left in it, but a second name is.                               *)
Enter(q, name) ==
  IF Node(Append(q, name)) = link.at THEN link.to ELSE Append(q, name)

Resolve(p) == FoldLeft(Enter, <<>>, p)

IsDir(p) == Node(Resolve(p)) \in Dirs
IsFile(p) == Node(Resolve(p)) \in Files
Exists(p) == IsDir(p) \/ IsFile(p)

(* filepath.Dir, k times. *)
Up(q, k) == SubSeq(q, 1, Len(q) - k)

(* What containment means: the directory is met on the way to the root. *)
Beneath(q, d) == \E k \in 0..Len(q) : Node(Up(q, k)) = Node(d)

-----------------------------------------------------------------------------
(* A definition marked "Fault" is not part of the specification: it is the *)
(* definition after it with a mistake the code could have made.            *)

(* The separators in the spelling of a path: the root has one. *)
Separators(q) == IF q = <<>> THEN 1 ELSE Len(q)

Inside(rel) == [answer |-> "inside", rel |-> rel]
Outside == [answer |-> "outside", rel |-> <<>>]
Unknown == [answer |-> "unknown", rel |-> <<>>]

(* Fault: directories are compared as they are spelled. *)
DirRelationBySpelling(q, d) ==
  IF IsPrefix(d, q) THEN Inside(SubSeq(q, Len(d) + 1, Len(q))) ELSE Outside

(* The walk from a resolved path towards the root, which looks no further  *)
(* than the number of separators allows.                                   *)
DirRelationResolved(q, d) ==
  LET found == {k \in 0..Len(q) :
                  Separators(q) >= Separators(d) + k /\ Node(Up(q, k)) = Node(d)}
  IN  IF found = {} THEN Outside
      ELSE Inside(SubSeq(q, Len(q) - Min(found) + 1, Len(q)))

DirRelation(p, dir) ==
  CASE ~Exists(dir) -> Unknown
    [] IsFile(dir) -> Outside
    [] IsDir(dir) /\ ~Exists(p) -> Unknown
    [] OTHER -> DirRelationResolved(Resolve(p), Resolve(dir))

(* The fast path: a prefix that ends in a separator, of which the root     *)
(* itself would need a second one.                                         *)
HasPrefix(q, d) == q = d \/ (d # <<>> /\ IsPrefix(d, q))

(* Fault: the path is taken as it is spelled, links and all. *)
CheckSpelledBoundary(p, boundary) ==
  Exists(p) /\ Exists(boundary) /\ IsPrefix(boundary, p)

CheckPathBoundary(p, boundary) ==
  /\ Exists(p) /\ Exists(boundary)
  /\ \/ HasPrefix(Resolve(p), Resolve(boundary))
     \/ DirRelationResolved(Resolve(p), Resolve(boundary)).answer = "inside"

=============================================================================
