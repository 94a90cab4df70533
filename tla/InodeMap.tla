------------------------------ MODULE InodeMap ------------------------------
(***************************************************************************)
(* The inode table of HookFs (src/src/hookfs/mod.rs, struct Node and       *)
(* struct InodeMap).  The kernel addresses a file by inode number, the     *)
(* backing file system by path; the table translates one into the other.   *)
(* An entry carries the number of lookups the kernel may still count       *)
(* (ref_count) and the list of paths under which the inode was seen, of    *)
(* which the last one is the one used.                                     *)
(*                                                                         *)
(* The table is a function whose domain is the set of known inodes.        *)
(***************************************************************************)
EXTENDS Integers, Sequences

(* Node::default() *)
EmptyNode == [ref_count |-> 0, paths |-> <<>>]

-----------------------------------------------------------------------------
(* Faulty variants, one per plausible slip in the code: the properties the *)
(* runs check are violated when one replaces the operator it is named for. *)

NodeInsertAlways(paths, path) == Append(paths, path)

NodeRemoveNothing(paths, path) == paths

RemovePathNothing(m, ino, path) == m

IncreaseRefNothing(m, ino) == m

(* The entry goes with any FORGET. *)
DecreaseRefDropsAny(m, ino, nlookup) == [i \in DOMAIN m \ {ino} |-> m[i]]

-----------------------------------------------------------------------------
(* InodeMap::get_path answers Ok exactly when the list has a last element. *)
HasPath(m, ino) == ino \in DOMAIN m /\ m[ino].paths # <<>>

GetPath(m, ino) == m[ino].paths[Len(m[ino].paths)]

Lists(paths, path) == \E k \in DOMAIN paths : paths[k] = path

(* Node::insert: a path already in the list stays where it is. *)
NodeInsert(paths, path) == IF Lists(paths, path) THEN paths ELSE Append(paths, path)

(***************************************************************************)
(* Node::remove drains every element equal to path.  NodeInsert keeps the  *)
(* list free of duplicates (invariant PathsDistinct of HookFs), so that    *)
(* is at most one.                                                         *)
(***************************************************************************)
NodeRemove(paths, path) ==
  IF Lists(paths, path)
  THEN LET k == CHOOSE i \in DOMAIN paths : paths[i] = path
       IN SubSeq(paths, 1, k - 1) \o SubSeq(paths, k + 1, Len(paths))
  ELSE paths

(* HashMap::entry(ino).or_default() *)
Entry(m, ino) == IF ino \in DOMAIN m THEN m[ino] ELSE EmptyNode

(* The count of an inode, zero when it is not known. *)
Count(m, ino) == IF ino \in DOMAIN m THEN m[ino].ref_count ELSE 0

InsertPath(m, ino, path) ==
  [i \in DOMAIN m \cup {ino} |->
     IF i = ino THEN [Entry(m, ino) EXCEPT !.paths = NodeInsert(@, path)] ELSE m[i]]

RemovePath(m, ino, path) ==
  [i \in DOMAIN m |-> IF i = ino THEN [m[i] EXCEPT !.paths = NodeRemove(@, path)] ELSE m[i]]

IncreaseRef(m, ino) ==
  [i \in DOMAIN m |-> IF i = ino THEN [m[i] EXCEPT !.ref_count = @ + 1] ELSE m[i]]

(***************************************************************************)
(* InodeMap::decrease_ref: the entry goes when the forget covers the whole *)
(* count; otherwise nothing is written, the count is not lowered.          *)
(***************************************************************************)
DecreaseRef(m, ino, nlookup) ==
  [i \in {j \in DOMAIN m : j = ino => m[j].ref_count > nlookup} |-> m[i]]
=============================================================================
