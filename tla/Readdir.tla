------------------------------ MODULE Readdir ------------------------------
(***************************************************************************)
(* One listing of a directory through HookFs (readdir in                   *)
(* src/src/hookfs/mod.rs) while the directory changes.  Every READDIR      *)
(* request reads the whole backing directory again, takes its offset as an *)
(* index into what it has read, and gives every entry the index after it   *)
(* as the offset to go on from.                                            *)
(***************************************************************************)
EXTENDS Naturals, Sequences, Functions, FiniteSets

CONSTANTS
  Entries,     \* the names there may be, "." and ".." included
  Unknown,     \* those of a type the backing file system does not tell (DT_UNKNOWN)
  MaxReply,    \* bound: entries that fit into the buffer of one reply
  MaxChanges   \* bound: entries added and removed during the listing

ASSUME ReaddirAssumption ==
  /\ IsFiniteSet(Entries) /\ Unknown \subseteq Entries
  /\ MaxReply \in Nat \ {0} /\ MaxChanges \in Nat

VARIABLES
  dir,       \* the backing directory, in the order in which it is read
  offset,    \* where the kernel asks the listing to go on
  got,       \* the entries it was given
  repeated,  \* history: how often it was given one again, counted up to MaxChanges + 1
  phase,     \* "reading", or how the listing ended
  stayed,    \* history: the entries that were there all the time
  added,     \* history: entries added since the listing began
  removed    \* history: entries removed since then

vars == <<dir, offset, got, repeated, phase, stayed, added, removed>>

(* Types; an offset is an index of some directory that could be read. *)
TypeOK ==
  /\ dir \in Seq(Entries) /\ IsInjective(dir)
  /\ offset \in 0..Cardinality(Entries)
  /\ got \subseteq Entries \ Unknown
  /\ repeated \in 0..(MaxChanges + 1)
  /\ phase \in {"reading", "end", "error"}
  /\ stayed \subseteq Range(dir)
  /\ added \in Nat /\ removed \in Nat /\ added + removed <= MaxChanges

-----------------------------------------------------------------------------
(* Faulty variant: the offset of an entry is its own index. *)
NextOffsetSame(index) == index

(* Faulty variant: one too many. *)
NextOffsetSkips(index) == index + 2

NextOffset(index) == index + 1

(* Faulty variant: an entry of unknown type is returned all the same. *)
BadIgnored(read) == FALSE

(* An entry whose type is not known makes the whole request fail. *)
Bad(read) == \E i \in DOMAIN read : read[i] \in Unknown

Capped(n) == IF n > MaxChanges THEN MaxChanges + 1 ELSE n

(***************************************************************************)
(* readdir: n entries fit.  The loop looks at one entry more, which        *)
(* reply.add refuses, unless there is none; an error in any entry it looks *)
(* at ends the request without a reply.                                    *)
(***************************************************************************)
ReaddirReply ==
  /\ phase = "reading"
  /\ IF offset >= Len(dir)
     THEN phase' = "end" /\ UNCHANGED <<offset, got, repeated>>
     ELSE \E n \in 1..MaxReply :
            LET rest == SubSeq(dir, offset + 1, Len(dir))
                reply == SubSeq(rest, 1, IF n < Len(rest) THEN n ELSE Len(rest))
                read == SubSeq(rest, 1, IF n + 1 < Len(rest) THEN n + 1 ELSE Len(rest))
            IN IF Bad(read)
               THEN phase' = "error" /\ UNCHANGED <<offset, got, repeated>>
               ELSE /\ got' = got \cup Range(reply)
                    /\ repeated' = Capped(repeated + Cardinality(Range(reply) \cap got))
                    /\ offset' = NextOffset(offset + Len(reply) - 1)
                    /\ UNCHANGED phase
  /\ UNCHANGED <<dir, stayed, added, removed>>

(* A fault injected into READDIR, or an error of readdir(3). *)
ReaddirFails ==
  /\ phase = "reading" /\ phase' = "error"
  /\ UNCHANGED <<dir, offset, got, repeated, stayed, added, removed>>

(* Other processes; a file system puts a new entry where it likes. *)
AddEntry ==
  /\ phase = "reading" /\ added + removed < MaxChanges
  /\ \E e \in Entries \ Range(dir), i \in 1..(Len(dir) + 1) :
       dir' = SubSeq(dir, 1, i - 1) \o <<e>> \o SubSeq(dir, i, Len(dir))
  /\ added' = added + 1
  /\ UNCHANGED <<offset, got, repeated, phase, stayed, removed>>

RemoveEntry ==
  /\ phase = "reading" /\ added + removed < MaxChanges
  /\ \E i \in DOMAIN dir :
       /\ dir' = SubSeq(dir, 1, i - 1) \o SubSeq(dir, i + 1, Len(dir))
       /\ stayed' = stayed \ {dir[i]}
  /\ removed' = removed + 1
  /\ UNCHANGED <<offset, got, repeated, phase, added>>

Init ==
  /\ \E S \in SUBSET Entries : dir \in Bijection(1..Cardinality(S), S) /\ stayed = S
  /\ offset = 0 /\ got = {} /\ repeated = 0 /\ phase = "reading"
  /\ added = 0 /\ removed = 0

Next == ReaddirReply \/ ReaddirFails \/ AddEntry \/ RemoveEntry

(* The caller goes on asking until it gets an empty reply or an error. *)
Spec == Init /\ [][Next]_vars /\ WF_vars(ReaddirReply)

-----------------------------------------------------------------------------
(* Properties *)

(* What an offset that is an index costs: when readdir answers that the    *)
(* directory is at its end, each removal has hidden at most one of the     *)
(* entries that were there from beginning to end.  In particular an        *)
(* entry of unknown type is not left out in silence.                       *)
MissedBounded == phase = "end" => Cardinality(stayed \ got) <= removed

(* And each addition has made readdir return at most one entry twice. *)
RepeatedBounded == repeated <= added

(* A listing ends: no offset readdir hands out leads back. *)
ListingEnds == <>(phase # "reading")
=============================================================================
