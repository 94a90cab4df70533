--------------------------- MODULE LookupContract ---------------------------
(***************************************************************************)
(* What a FUSE daemon promises the kernel about inode numbers: from the    *)
(* entry reply that tells the kernel of an inode until the kernel has      *)
(* given back every such lookup, the daemon knows the inode.  Each lookup  *)
(* has an identity, so that giving back is removing from a set; how the    *)
(* daemon counts is left open.                                             *)
(***************************************************************************)
EXTENDS Naturals

CONSTANTS Ino, Root, Ids   \* Ids: identities of the lookups of an inode

VARIABLES
  known,  \* the inodes the daemon has an entry for
  owed    \* per inode, the lookups it has granted and not yet got back

vars == <<known, owed>>

Init == known = {Root} /\ owed = [i \in Ino |-> {}]

(* The daemon may learn of an inode on its own. *)
Learn(i) == known' = known \cup {i} /\ UNCHANGED owed

Grant(i) ==
  /\ \E k \in Ids \ owed[i] : owed' = [owed EXCEPT ![i] = @ \cup {k}]
  /\ known' = known \cup {i}

(* It may drop an inode only with the last lookup, and never the root. *)
GiveBack(i) ==
  \E S \in SUBSET owed[i] :
    /\ owed' = [owed EXCEPT ![i] = @ \ S]
    /\ \/ UNCHANGED known
       \/ S = owed[i] /\ i # Root /\ known' = known \ {i}

Next == \E i \in Ino : Learn(i) \/ Grant(i) \/ GiveBack(i)

Spec == Init /\ [][Next]_vars
=============================================================================
