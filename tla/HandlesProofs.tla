--------------------------- MODULE HandlesProofs ---------------------------
(***************************************************************************)
(* Proofs about Handles: for any number of opens, requests, descriptors    *)
(* and failures of close(2), a handle leads to its own open descriptor.    *)
(***************************************************************************)
EXTENDS Handles, TLAPS

InHand(k) == handle[k].pc \in {"own", "insert"}

(* The descriptor that k owns, in the hands of its request or in its entry. *)
FdOf(k) == IF InHand(k) THEN handle[k].fd ELSE EntryOf(k).fd

Owns(k) == InHand(k) \/ HasEntry(k)

(* The descriptor k owns is open on what k opened. *)
OwnedLive ==
  \A k \in Open :
    /\ handle[k].pc # "panic"
    /\ HasEntry(k) => EntryOf(k) # None
    /\ Owns(k) => fds[FdOf(k)] = handle[k].path
    /\ handle[k].pc = "close" => handle[k].tab = "file" /\ handle[k].fd = EntryOf(k).fd

(* No descriptor is owned twice, which is what a failed close that leaves its entry behind could break. *)
OwnedOnce == \A j, k \in Open : j # k /\ Owns(j) /\ Owns(k) => FdOf(j) # FdOf(k)

(* A request holds its file open, and a guard keeps the entry it read. *)
UsesHeld ==
  \A t \in Task :
    /\ use[t].pc # "idle" => handle[use[t].open].pc = "held"
    /\ use[t].pc = "io" => use[t].fd = FdOf(use[t].open)

Accounted == \A d \in Fd : fds[d] # None => d \in lost \/ \E k \in Open : Owns(k) /\ FdOf(k) = d

HInv == TypeOK /\ OwnedLive /\ OwnedOnce /\ UsesHeld /\ Accounted

-----------------------------------------------------------------------------
(* What k owns is a descriptor. *)
LEMMA FdOfType ==
  ASSUME TypeOK, OwnedLive, NEW k \in Open, Owns(k)
  PROVE  FdOf(k) \in Fd /\ handle[k].path \in Path
<1>1. CASE InHand(k)
  BY <1>1 DEF InHand, FdOf, TypeOK
<1>2. CASE ~InHand(k)
  <2>1. HasEntry(k) /\ handle[k].tab \in Table /\ handle[k].fh \in Fh
    BY <1>2 DEF Owns, HasEntry, TypeOK, Handle
  <2>2. EntryOf(k) \in Entry
    BY <2>1 DEF EntryOf, OwnedLive, TypeOK
  <2> QED BY <1>2, <2>1, <2>2 DEF FdOf, Entry, TypeOK, HasEntry
<1> QED BY <1>1, <1>2

(* Initially nothing is open. *)
LEMMA HInvInit == Init => HInv
<1> SUFFICES ASSUME Init PROVE HInv
  OBVIOUS
<1> USE HandlesAssumption
<1>1. TypeOK
  BY DEF Init, TypeOK, NoHandle, NoUse, Table, Handle, Use
<1>2. \A k \in Open : handle[k].pc = "idle"
  BY DEF Init, NoHandle
<1>3. \A t \in Task : use[t].pc = "idle"
  BY DEF Init, NoUse
<1>4. \A d \in Fd : fds[d] = None
  BY DEF Init
<1> QED BY <1>1, <1>2, <1>3, <1>4 DEF HInv, OwnedLive, OwnedOnce, UsesHeld, Accounted, Owns, InHand, HasEntry

(* open, opendir and create: the descriptor is fresh, so nobody owned it. *)
LEMMA AsyncOpenStep ==
  ASSUME HInv, NEW k \in Open, NEW b \in Table, NEW p \in Path, NEW next \in {"own", "insert"},
         AsyncOpen(k, b, p, next)
  PROVE  HInv'
<1> USE HandlesAssumption
<1>1. PICK d \in Fd : /\ fds[d] = None
                      /\ fds' = [fds EXCEPT ![d] = p]
                      /\ handle' = [handle EXCEPT ![k] = [pc |-> next, tab |-> b, path |-> p, fd |-> d, fh |-> None]]
  BY DEF AsyncOpen
<1>2. handle[k].pc = "idle" /\ UNCHANGED <<slot, use, lost, failures>>
  BY DEF AsyncOpen
<1>3. TypeOK'
  BY <1>1, <1>2 DEF HInv, TypeOK, Handle
<1>4. InHand(k)' /\ FdOf(k)' = d /\ handle'[k].path = p /\ ~HasEntry(k)' /\ handle'[k].pc = next
  BY <1>1 DEF HInv, TypeOK, InHand, FdOf, HasEntry
<1>5. \A j \in Open \ {k} : /\ handle'[j] = handle[j]
                            /\ (Owns(j)' <=> Owns(j)) /\ (HasEntry(j)' <=> HasEntry(j))
                            /\ FdOf(j)' = FdOf(j) /\ EntryOf(j)' = EntryOf(j)
  BY <1>1, <1>2 DEF HInv, TypeOK, Owns, InHand, HasEntry, FdOf, EntryOf
<1>6. \A j \in Open \ {k} : Owns(j) => FdOf(j) \in Fd /\ FdOf(j) # d
  BY <1>1, FdOfType DEF HInv, OwnedLive
<1>7. OwnedLive'
  <2> SUFFICES ASSUME NEW j \in Open
               PROVE  /\ handle'[j].pc # "panic"
                      /\ HasEntry(j)' => EntryOf(j)' # None
                      /\ Owns(j)' => fds'[FdOf(j)'] = handle'[j].path
                      /\ handle'[j].pc = "close" => handle'[j].tab = "file" /\ handle'[j].fd = EntryOf(j)'.fd
    BY DEF OwnedLive
  <2>1. CASE j = k
    BY <2>1, <1>1, <1>4 DEF HInv, TypeOK
  <2>2. CASE j # k
    BY <2>2, <1>1, <1>5, <1>6 DEF HInv, OwnedLive, TypeOK
  <2> QED BY <2>1, <2>2
<1>8. OwnedOnce'
  BY <1>4, <1>5, <1>6 DEF HInv, OwnedOnce
<1>9. UsesHeld'
  BY <1>2, <1>5 DEF HInv, UsesHeld, TypeOK
<1>10. Accounted'
  <2> SUFFICES ASSUME NEW e \in Fd, fds'[e] # None, e \notin lost
               PROVE  \E j \in Open : Owns(j)' /\ FdOf(j)' = e
    BY <1>2 DEF Accounted
  <2>1. CASE e = d
    BY <2>1, <1>4 DEF Owns
  <2>2. CASE e # d
    <3>1. PICK j \in Open : Owns(j) /\ FdOf(j) = e
      BY <2>2, <1>1 DEF HInv, TypeOK, Accounted
    <3>2. j # k
      BY <3>1, <1>2 DEF Owns, InHand, HasEntry
    <3> QED BY <3>1, <3>2, <1>5
  <2> QED BY <2>1, <2>2
<1> QED BY <1>3, <1>7, <1>8, <1>9, <1>10 DEF HInv

(* The step of k leaves the other handles and their entries alone. *)
OthersKept(k) == \A j \in Open \ {k} : handle'[j] = handle[j] /\ (HasEntry(j) => EntryOf(j)' = EntryOf(j))

(* Then they own what they owned. *)
LEMMA OthersOwn ==
  ASSUME NEW k \in Open, OthersKept(k), NEW j \in Open, j # k
  PROVE  /\ (InHand(j)' <=> InHand(j)) /\ (HasEntry(j)' <=> HasEntry(j)) /\ (Owns(j)' <=> Owns(j))
         /\ Owns(j) => FdOf(j)' = FdOf(j)
<1>1. handle'[j] = handle[j] /\ (HasEntry(j) => EntryOf(j)' = EntryOf(j))
  BY DEF OthersKept
<1>2. (InHand(j)' <=> InHand(j)) /\ (HasEntry(j)' <=> HasEntry(j)) /\ (Owns(j)' <=> Owns(j))
  BY <1>1 DEF InHand, HasEntry, Owns
<1> QED BY <1>1, <1>2 DEF FdOf, Owns

(* A step by which k keeps the descriptor it owns: from a request's hands  *)
(* to an entry, from there to a release, from there to close.              *)
LEMMA KeepStep ==
  ASSUME HInv, TypeOK', NEW k \in Open, OthersKept(k), UNCHANGED <<fds, use, lost>>,
         Owns(k), Owns(k)', FdOf(k)' = FdOf(k), handle'[k].path = handle[k].path,
         HasEntry(k)' => EntryOf(k)' # None,
         handle'[k].pc = "close" => handle'[k].tab = "file" /\ handle'[k].fd = EntryOf(k)'.fd,
         \A t \in Task : use[t].pc # "idle" => use[t].open # k
  PROVE  HInv'
<1> USE HandlesAssumption
<1>1. OwnedLive'
  <2> SUFFICES ASSUME NEW j \in Open
               PROVE  /\ handle'[j].pc # "panic"
                      /\ HasEntry(j)' => EntryOf(j)' # None
                      /\ Owns(j)' => fds'[FdOf(j)'] = handle'[j].path
                      /\ handle'[j].pc = "close" => handle'[j].tab = "file" /\ handle'[j].fd = EntryOf(j)'.fd
    BY DEF OwnedLive
  <2>1. CASE j = k
    BY <2>1 DEF HInv, OwnedLive, Owns, InHand, HasEntry
  <2>2. CASE j # k
    BY <2>2, OthersOwn DEF HInv, OwnedLive, OthersKept, HasEntry
  <2> QED BY <2>1, <2>2
<1>2. OwnedOnce'
  BY OthersOwn DEF HInv, OwnedOnce
<1>3. UsesHeld'
  <2> SUFFICES ASSUME NEW t \in Task, use[t].pc # "idle"
               PROVE  /\ handle'[use[t].open].pc = "held"
                      /\ use[t].pc = "io" => use[t].fd = FdOf(use[t].open)'
    BY DEF UsesHeld
  <2> DEFINE j == use[t].open
  <2>1. j \in Open \ {k} /\ handle[j].pc = "held"
    BY DEF HInv, TypeOK, UsesHeld
  <2>2. handle'[j] = handle[j] /\ Owns(j) /\ FdOf(j)' = FdOf(j)
    BY <2>1, OthersOwn DEF OthersKept, Owns, HasEntry
  <2> QED BY <2>1, <2>2 DEF HInv, UsesHeld
<1>4. Accounted'
  <2> SUFFICES ASSUME NEW d \in Fd, fds[d] # None, d \notin lost
               PROVE  \E j \in Open : Owns(j)' /\ FdOf(j)' = d
    BY DEF Accounted
  <2>1. PICK j \in Open : Owns(j) /\ FdOf(j) = d
    BY DEF HInv, Accounted
  <2> QED BY <2>1, OthersOwn
<1> QED BY <1>1, <1>2, <1>3, <1>4 DEF HInv

(* A step by which k gives its descriptor up: it is closed or, by a create *)
(* that fails, lost.                                                       *)
LEMMA GiveUpStep ==
  ASSUME HInv, TypeOK', NEW k \in Open, OthersKept(k), UNCHANGED use,
         Owns(k), handle'[k] = NoHandle, handle[k].pc # "held",
         \/ fds' = [fds EXCEPT ![FdOf(k)] = None] /\ lost' = lost
         \/ fds' = fds /\ lost' = lost \cup {FdOf(k)}
  PROVE  HInv'
<1> USE HandlesAssumption
<1>1. ~Owns(k)' /\ ~HasEntry(k)' /\ handle'[k].pc = "idle"
  BY DEF NoHandle, Owns, InHand, HasEntry
<1>2. FdOf(k) \in Fd /\ \A j \in Open \ {k} : Owns(j) => FdOf(j) \in Fd /\ FdOf(j) # FdOf(k)
  BY FdOfType DEF HInv, OwnedOnce
<1>3. \A d \in Fd \ {FdOf(k)} : fds'[d] = fds[d]
  BY <1>2 DEF HInv, TypeOK
<1>4. OwnedLive'
  <2> SUFFICES ASSUME NEW j \in Open
               PROVE  /\ handle'[j].pc # "panic"
                      /\ HasEntry(j)' => EntryOf(j)' # None
                      /\ Owns(j)' => fds'[FdOf(j)'] = handle'[j].path
                      /\ handle'[j].pc = "close" => handle'[j].tab = "file" /\ handle'[j].fd = EntryOf(j)'.fd
    BY DEF OwnedLive
  <2>1. CASE j = k
    BY <2>1, <1>1
  <2>2. CASE j # k
    BY <2>2, <1>2, <1>3, OthersOwn DEF HInv, OwnedLive, OthersKept, HasEntry
  <2> QED BY <2>1, <2>2
<1>5. OwnedOnce'
  BY <1>1, OthersOwn DEF HInv, OwnedOnce
<1>6. UsesHeld'
  <2> SUFFICES ASSUME NEW t \in Task, use[t].pc # "idle"
               PROVE  /\ handle'[use[t].open].pc = "held"
                      /\ use[t].pc = "io" => use[t].fd = FdOf(use[t].open)'
    BY DEF UsesHeld
  <2> DEFINE j == use[t].open
  <2>1. j \in Open \ {k} /\ handle[j].pc = "held"
    BY DEF HInv, TypeOK, UsesHeld
  <2>2. handle'[j] = handle[j] /\ Owns(j) /\ FdOf(j)' = FdOf(j)
    BY <2>1, OthersOwn DEF OthersKept, Owns, HasEntry
  <2> QED BY <2>1, <2>2 DEF HInv, UsesHeld
<1>7. Accounted'
  <2> SUFFICES ASSUME NEW d \in Fd, fds'[d] # None, d \notin lost'
               PROVE  \E j \in Open : Owns(j)' /\ FdOf(j)' = d
    BY DEF Accounted
  <2>1. d # FdOf(k)
    BY <1>2 DEF HInv, TypeOK
  <2>2. PICK j \in Open : Owns(j) /\ FdOf(j) = d
    BY <2>1, <1>3 DEF HInv, Accounted
  <2> QED BY <2>1, <2>2, OthersOwn
<1> QED BY <1>4, <1>5, <1>6, <1>7 DEF HInv

-----------------------------------------------------------------------------
(* create: the descriptor is kept, or forgotten by `?'. *)
LEMMA CreateOwnStep ==
  ASSUME HInv, NEW k \in Open, CreateOwn(k)
  PROVE  HInv'
<1> USE HandlesAssumption
<1>1. InHand(k) /\ Owns(k) /\ FdOf(k) = handle[k].fd /\ handle[k].fd \in Fd /\ handle[k].pc = "own"
  BY DEF CreateOwn, InHand, Owns, FdOf, HInv, TypeOK
<1>2. CASE handle' = [handle EXCEPT ![k].pc = "insert"] /\ UNCHANGED lost
  <2>1. handle'[k] = [handle[k] EXCEPT !.pc = "insert"] /\ \A j \in Open \ {k} : handle'[j] = handle[j]
    BY <1>2 DEF HInv, TypeOK
  <2>2. handle[k] \in Handle
    BY DEF HInv, TypeOK
  <2>3. /\ handle'[k] \in Handle /\ handle'[k].pc = "insert"
        /\ handle'[k].path = handle[k].path /\ handle'[k].fd = handle[k].fd
    BY <2>1, <2>2 DEF Handle
  <2>4. TypeOK'
    BY <1>1, <1>2, <2>1, <2>3 DEF CreateOwn, HInv, TypeOK
  <2>5. OthersKept(k)
    BY <1>2 DEF CreateOwn, OthersKept, EntryOf, HInv, TypeOK
  <2>6. InHand(k)' /\ Owns(k)' /\ ~HasEntry(k)' /\ handle'[k].pc = "insert" /\ handle'[k].path = handle[k].path
    BY <1>2 DEF InHand, Owns, HasEntry, HInv, TypeOK
  <2>7. FdOf(k)' = FdOf(k)
    BY <1>1, <1>2, <2>6 DEF FdOf, HInv, TypeOK
  <2>8. \A t \in Task : use[t].pc # "idle" => use[t].open # k
    BY <1>1 DEF HInv, UsesHeld
  <2>9. UNCHANGED <<fds, use, lost>>
    BY <1>2 DEF CreateOwn
  <2> QED BY <1>1, <2>4, <2>5, <2>6, <2>7, <2>8, <2>9, KeepStep
<1>3. CASE handle' = [handle EXCEPT ![k] = NoHandle] /\ lost' = lost \cup {handle[k].fd}
  <2>1. TypeOK'
    BY <1>1, <1>3 DEF CreateOwn, HInv, TypeOK, NoHandle, Table, Handle
  <2>2. OthersKept(k) /\ handle'[k] = NoHandle
    BY <1>3 DEF CreateOwn, OthersKept, EntryOf, HInv, TypeOK
  <2>3. fds' = fds /\ use' = use
    BY DEF CreateOwn
  <2> QED BY <1>1, <1>3, <2>1, <2>2, <2>3, GiveUpStep
<1> QED BY <1>2, <1>3 DEF CreateOwn

(* Insert: the key was vacant, so it is the key of no other handle. *)
LEMMA InsertStep ==
  ASSUME HInv, NEW k \in Open, Insert(k)
  PROVE  HInv'
<1> USE HandlesAssumption
<1> DEFINE b == handle[k].tab
           e == [fd |-> handle[k].fd, path |-> handle[k].path]
<1>1. InHand(k) /\ Owns(k) /\ FdOf(k) = handle[k].fd /\ handle[k].pc = "insert" /\ b \in Table
  BY DEF Insert, InHand, Owns, FdOf, HInv, TypeOK, Handle
<1>2. e \in Entry /\ e # None /\ e.fd = handle[k].fd
  BY <1>1 DEF HInv, TypeOK, Entry
<1>3. PICK h \in Fh : /\ slot[b][h] = None
                      /\ slot' = [slot EXCEPT ![b][h] = e]
                      /\ handle' = [handle EXCEPT ![k] = [@ EXCEPT !.pc = "held", !.fd = None, !.fh = h]]
  BY DEF Insert
<1>4. UNCHANGED <<fds, use, lost, failures>>
  BY DEF Insert
<1> HIDE DEF e
<1>5. /\ handle'[k] \in Handle /\ handle'[k].pc = "held" /\ handle'[k].tab = b
      /\ handle'[k].path = handle[k].path /\ handle'[k].fh = h
  <2>1. handle'[k] = [handle[k] EXCEPT !.pc = "held", !.fd = None, !.fh = h] /\ handle[k] \in Handle
    BY <1>3 DEF HInv, TypeOK
  <2> QED BY <2>1 DEF Handle
<1>6. slot'[b][h] = e /\ slot' \in [Table -> [Fh -> Entry \cup {None}]]
  BY <1>1, <1>2, <1>3 DEF HInv, TypeOK
<1>7. \A j \in Open \ {k} : handle'[j] = handle[j]
  BY <1>3 DEF HInv, TypeOK
<1>8. TypeOK'
  BY <1>1, <1>4, <1>5, <1>6, <1>7, <1>3 DEF HInv, TypeOK
<1>9. OthersKept(k)
  <2> SUFFICES ASSUME NEW j \in Open \ {k}, HasEntry(j)
               PROVE  EntryOf(j)' = EntryOf(j)
    BY <1>7 DEF OthersKept
  <2>1. slot[handle[j].tab][handle[j].fh] # None /\ handle[j].fh \in Fh /\ handle[j].tab \in Table
    BY DEF HInv, OwnedLive, EntryOf, HasEntry, TypeOK, Handle
  <2> QED BY <2>1, <1>1, <1>3, <1>7 DEF EntryOf, HInv, TypeOK
<1>10. HasEntry(k)' /\ Owns(k)' /\ ~InHand(k)' /\ EntryOf(k)' = e /\ FdOf(k)' = FdOf(k)
  BY <1>1, <1>2, <1>5, <1>6 DEF HasEntry, Owns, InHand, EntryOf, FdOf
<1>11. \A t \in Task : use[t].pc # "idle" => use[t].open # k
  BY <1>1 DEF HInv, UsesHeld
<1> QED BY <1>1, <1>2, <1>4, <1>5, <1>8, <1>9, <1>10, <1>11, KeepStep

(* Requests on open files change no table, and nobody's descriptor. *)
LEMMA SameTables ==
  ASSUME HInv, UNCHANGED <<fds, slot, handle, lost>>
  PROVE  OwnedLive' /\ OwnedOnce' /\ Accounted' /\ \A k \in Open : FdOf(k)' = FdOf(k)
<1>1. \A k \in Open : /\ (InHand(k)' <=> InHand(k)) /\ (HasEntry(k)' <=> HasEntry(k)) /\ EntryOf(k)' = EntryOf(k)
  BY DEF InHand, HasEntry, EntryOf
<1>2. \A k \in Open : (Owns(k)' <=> Owns(k)) /\ FdOf(k)' = FdOf(k)
  BY <1>1 DEF Owns, FdOf
<1>3. OwnedLive'
  BY <1>1, <1>2 DEF HInv, OwnedLive
<1>4. OwnedOnce'
  BY <1>2 DEF HInv, OwnedOnce
<1>5. Accounted'
  BY <1>2 DEF HInv, Accounted
<1> QED BY <1>2, <1>3, <1>4, <1>5

(* A request starts on a file that is held, and has no descriptor yet. *)
LEMMA RequestStep ==
  ASSUME HInv, NEW t \in Task, NEW k \in Open, Request(t, k)
  PROVE  HInv'
<1> USE HandlesAssumption
<1>1. PICK op \in Ops(handle[k].tab) : use' = [use EXCEPT ![t] = [pc |-> "get", open |-> k, op |-> op, fd |-> None]]
  BY DEF Request
<1>2. handle[k].pc = "held" /\ UNCHANGED <<fds, slot, handle, lost, failures>>
  BY DEF Request
<1>3. op \in Ops("file") \cup Ops("dir")
  BY <1>1 DEF HInv, TypeOK, Table, Handle
<1>4. [pc |-> "get", open |-> k, op |-> op, fd |-> None] \in Use
  BY <1>3 DEF Use
<1>5. TypeOK'
  BY <1>1, <1>2, <1>4 DEF HInv, TypeOK
<1>6. OwnedLive' /\ OwnedOnce' /\ Accounted' /\ \A j \in Open : FdOf(j)' = FdOf(j)
  BY <1>2, SameTables
<1>7. UsesHeld'
  BY <1>1, <1>2, <1>6 DEF HInv, TypeOK, UsesHeld
<1> QED BY <1>5, <1>6, <1>7 DEF HInv

(* The entry of a held file is there, with the descriptor the file owns. *)
LEMMA GetFileStep ==
  ASSUME HInv, NEW t \in Task, GetFile(t)
  PROVE  HInv'
<1> USE HandlesAssumption
<1> DEFINE k == use[t].open
<1>1. use[t].pc = "get" /\ k \in Open /\ handle[k].pc = "held"
  BY DEF GetFile, HInv, TypeOK, UsesHeld
<1>2. HasEntry(k) /\ EntryOf(k) # None /\ FdOf(k) = EntryOf(k).fd /\ FdOf(k) \in Fd
  BY <1>1, FdOfType DEF HInv, OwnedLive, HasEntry, Owns, FdOf, InHand
<1>3. /\ use' = [use EXCEPT ![t] = [@ EXCEPT !.pc = "io", !.fd = EntryOf(k).fd]]
      /\ UNCHANGED <<fds, slot, handle, lost, failures>>
  BY <1>2 DEF GetFile, EntryOf
<1>4. /\ use'[t] = [use[t] EXCEPT !.pc = "io", !.fd = EntryOf(k).fd]
      /\ \A u \in Task \ {t} : use'[u] = use[u]
  BY <1>3 DEF HInv, TypeOK
<1>5. use[t] \in Use /\ EntryOf(k).fd \in Fd
  BY <1>2 DEF HInv, TypeOK
<1>6. use'[t] \in Use /\ use'[t].pc = "io" /\ use'[t].open = k /\ use'[t].fd = FdOf(k)
  BY <1>2, <1>4, <1>5 DEF Use
<1>7. TypeOK'
  BY <1>1, <1>2, <1>3, <1>4, <1>6 DEF HInv, TypeOK
<1>8. OwnedLive' /\ OwnedOnce' /\ Accounted' /\ \A j \in Open : FdOf(j)' = FdOf(j)
  BY <1>3, SameTables
<1>9. UsesHeld'
  <2> SUFFICES ASSUME NEW u \in Task
               PROVE  (/\ use[u].pc # "idle" => handle[use[u].open].pc = "held"
                       /\ use[u].pc = "io" => use[u].fd = FdOf(use[u].open))'
    BY DEF UsesHeld
  <2>1. CASE u = t
    BY <2>1, <1>1, <1>3, <1>6, <1>8
  <2>2. CASE u # t
    BY <2>2, <1>3, <1>4, <1>8 DEF HInv, UsesHeld, TypeOK
  <2> QED BY <2>1, <2>2
<1> QED BY <1>7, <1>8, <1>9 DEF HInv

(* A request that ends leaves the tables alone. *)
LEMMA DoneStep ==
  ASSUME HInv, NEW t \in Task, Done(t)
  PROVE  HInv'
<1> USE HandlesAssumption
<1>1. use' = [use EXCEPT ![t] = NoUse] /\ UNCHANGED <<fds, slot, handle, lost, failures>>
  BY DEF Done
<1>2. TypeOK'
  BY <1>1 DEF HInv, TypeOK, NoUse, Use
<1>3. OwnedLive' /\ OwnedOnce' /\ Accounted' /\ \A j \in Open : FdOf(j)' = FdOf(j)
  BY <1>1, SameTables
<1>4. UsesHeld'
  BY <1>1, <1>3 DEF HInv, TypeOK, UsesHeld, NoUse
<1> QED BY <1>2, <1>3, <1>4 DEF HInv

(* The last reference is gone: no request has the file in use. *)
LEMMA LastPutStep ==
  ASSUME HInv, NEW k \in Open, LastPut(k)
  PROVE  HInv'
<1> USE HandlesAssumption
<1>1. /\ handle' = [handle EXCEPT ![k].pc = "release"] /\ UNCHANGED <<fds, slot, use, lost, failures>>
      /\ handle[k].pc = "held" /\ \A t \in Task : use[t].open # k
  BY DEF LastPut
<1>2. /\ handle'[k] = [handle[k] EXCEPT !.pc = "release"]
      /\ handle[k] \in Handle /\ handle[k].path \in Path /\ handle[k].fh \in Fh
  BY <1>1 DEF HInv, TypeOK
<1>3. /\ handle'[k] \in Handle /\ handle'[k].pc = "release" /\ handle'[k].tab = handle[k].tab
      /\ handle'[k].path = handle[k].path /\ handle'[k].fh = handle[k].fh
  BY <1>2 DEF Handle
<1>4. TypeOK'
  BY <1>1, <1>2, <1>3 DEF HInv, TypeOK
<1>5. OthersKept(k)
  BY <1>1 DEF OthersKept, EntryOf, HInv, TypeOK
<1>6. /\ HasEntry(k) /\ Owns(k) /\ ~InHand(k) /\ HasEntry(k)' /\ Owns(k)' /\ ~InHand(k)'
      /\ EntryOf(k)' = EntryOf(k) /\ FdOf(k)' = FdOf(k)
  BY <1>1, <1>3 DEF HasEntry, Owns, InHand, EntryOf, FdOf
<1>7. EntryOf(k) # None
  BY <1>6 DEF HInv, OwnedLive
<1> QED BY <1>1, <1>3, <1>4, <1>5, <1>6, <1>7, KeepStep

(* release finds the entry of its handle, and the descriptor that is its own. *)
LEMMA ReleaseStep ==
  ASSUME HInv, NEW k \in Open, Release(k)
  PROVE  HInv'
<1> USE HandlesAssumption
<1>1. /\ handle[k].pc = "release" /\ handle[k].tab = "file" /\ UNCHANGED <<fds, slot, use, lost, failures>>
      /\ HasEntry(k) /\ ~InHand(k) /\ Owns(k) /\ FdOf(k) = EntryOf(k).fd
  BY DEF Release, HasEntry, InHand, Owns, FdOf
<1>2. EntryOf(k) # None /\ EntryOf(k).fd \in Fd
  BY <1>1, FdOfType DEF HInv, OwnedLive
<1>3. handle' = [handle EXCEPT ![k] = [@ EXCEPT !.pc = "close", !.fd = EntryOf(k).fd]]
  BY <1>1, <1>2 DEF Release, EntryOf
<1>4. /\ handle'[k] = [handle[k] EXCEPT !.pc = "close", !.fd = EntryOf(k).fd]
      /\ handle[k] \in Handle /\ handle[k].path \in Path /\ handle[k].fh \in Fh
  BY <1>1, <1>3 DEF HInv, TypeOK
<1>5. /\ handle'[k] \in Handle /\ handle'[k].pc = "close" /\ handle'[k].tab = "file"
      /\ handle'[k].path = handle[k].path /\ handle'[k].fh = handle[k].fh /\ handle'[k].fd = EntryOf(k).fd
  BY <1>1, <1>2, <1>4 DEF Handle
<1>6. TypeOK'
  BY <1>1, <1>2, <1>3, <1>4, <1>5 DEF HInv, TypeOK
<1>7. OthersKept(k)
  BY <1>1, <1>3 DEF OthersKept, EntryOf, HInv, TypeOK
<1>8. HasEntry(k)' /\ Owns(k)' /\ ~InHand(k)' /\ EntryOf(k)' = EntryOf(k) /\ FdOf(k)' = FdOf(k)
  BY <1>1, <1>5 DEF HasEntry, Owns, InHand, EntryOf, FdOf
<1>9. \A t \in Task : use[t].pc # "idle" => use[t].open # k
  BY <1>1 DEF HInv, UsesHeld
<1> QED BY <1>1, <1>2, <1>5, <1>6, <1>7, <1>8, <1>9, KeepStep

(* Vacating the entry of k is seen by no other handle: who owns another    *)
(* descriptor has another entry.                                           *)
LEMMA VacateKeepsOthers ==
  ASSUME HInv, NEW k \in Open, HasEntry(k), NEW b, b = handle[k].tab,
         handle' = [handle EXCEPT ![k] = NoHandle],
         slot' = slot \/ slot' = [slot EXCEPT ![b][handle[k].fh] = None]
  PROVE  OthersKept(k)
<1> SUFFICES ASSUME NEW j \in Open \ {k}
             PROVE  handle'[j] = handle[j] /\ (HasEntry(j) => EntryOf(j)' = EntryOf(j))
  BY DEF OthersKept
<1>1. handle'[j] = handle[j]
  BY DEF HInv, TypeOK
<1>2. ASSUME HasEntry(j) PROVE EntryOf(j)' = EntryOf(j)
  <2>1. Owns(j) /\ Owns(k) /\ FdOf(j) = EntryOf(j).fd /\ FdOf(k) = EntryOf(k).fd
    BY <1>2 DEF Owns, FdOf, HasEntry, InHand
  <2>2. EntryOf(j) # EntryOf(k)
    BY <2>1 DEF HInv, OwnedOnce
  <2>3. <<handle[j].tab, handle[j].fh>> # <<b, handle[k].fh>>
    BY <2>2 DEF EntryOf
  <2>4. handle[j].tab \in Table /\ handle[j].fh \in Fh /\ b \in Table /\ handle[k].fh \in Fh
    BY <1>2 DEF HInv, TypeOK, Handle, HasEntry
  <2> QED BY <1>1, <2>3, <2>4 DEF EntryOf, HInv, TypeOK
<1> QED BY <1>1, <1>2

(* releasedir drops the entry, and the entry its descriptor. *)
LEMMA ReleasedirStep ==
  ASSUME HInv, NEW k \in Open, Releasedir(k)
  PROVE  HInv'
<1> USE HandlesAssumption
<1>1. /\ handle[k].pc = "release" /\ handle[k].tab = "dir" /\ UNCHANGED <<use, lost, failures>>
      /\ HasEntry(k) /\ ~InHand(k) /\ Owns(k) /\ FdOf(k) = EntryOf(k).fd
  BY DEF Releasedir, HasEntry, InHand, Owns, FdOf
<1>2. EntryOf(k) # None /\ EntryOf(k).fd \in Fd
  BY <1>1, FdOfType DEF HInv, OwnedLive
<1>3. /\ slot' = [slot EXCEPT !["dir"][handle[k].fh] = None]
      /\ fds' = [fds EXCEPT ![FdOf(k)] = None]
      /\ handle' = [handle EXCEPT ![k] = NoHandle]
  BY <1>1, <1>2 DEF Releasedir, EntryOf
<1>4. OthersKept(k) /\ handle'[k] = NoHandle
  BY <1>1, <1>3, VacateKeepsOthers DEF HInv, TypeOK
<1>5. TypeOK'
  BY <1>1, <1>2, <1>3 DEF HInv, TypeOK, NoHandle, Handle, Table
<1> QED BY <1>1, <1>3, <1>4, <1>5, GiveUpStep

(* close(2) gives up the descriptor of k, whether or not its entry goes. *)
LEMMA AsyncCloseStep ==
  ASSUME HInv, NEW k \in Open, AsyncClose(k)
  PROVE  HInv'
<1> USE HandlesAssumption
<1>1. /\ handle[k].pc = "close" /\ handle[k].tab = "file" /\ UNCHANGED <<use, lost>>
      /\ HasEntry(k) /\ Owns(k) /\ FdOf(k) = handle[k].fd /\ handle[k].fd \in Fd
  BY DEF AsyncClose, HasEntry, InHand, Owns, FdOf, HInv, OwnedLive, TypeOK
<1>2. /\ fds' = [fds EXCEPT ![FdOf(k)] = None]
      /\ handle' = [handle EXCEPT ![k] = NoHandle]
      /\ slot' = slot \/ slot' = [slot EXCEPT !["file"][handle[k].fh] = None]
  BY <1>1 DEF AsyncClose
<1>3. OthersKept(k) /\ handle'[k] = NoHandle
  BY <1>1, <1>2, VacateKeepsOthers DEF HInv, TypeOK
<1>4. failures' \in 0..MaxFailures
  BY DEF AsyncClose, HInv, TypeOK
<1>5. TypeOK'
  <2>1. slot' \in [Table -> [Fh -> Entry \cup {None}]]
    <3>1. slot \in [Table -> [Fh -> Entry \cup {None}]] /\ handle[k].fh \in Fh /\ "file" \in Table
      BY <1>1 DEF HInv, TypeOK, Table
    <3>2. CASE slot' = slot
      BY <3>1, <3>2
    <3>3. CASE slot' = [slot EXCEPT !["file"][handle[k].fh] = None]
      BY <3>1, <3>3
    <3> QED BY <1>2, <3>2, <3>3
  <2>2. NoHandle \in Handle /\ NoHandle.pc = "idle"
    BY DEF NoHandle, Handle, Table
  <2> QED BY <1>1, <1>2, <1>4, <2>1, <2>2 DEF HInv, TypeOK
<1> QED BY <1>1, <1>2, <1>3, <1>5, GiveUpStep

-----------------------------------------------------------------------------
(* Every step keeps the invariant. *)
LEMMA HInvNext == HInv /\ [Next]_vars => HInv'
<1> SUFFICES ASSUME HInv, [Next]_vars PROVE HInv'
  OBVIOUS
<1>1. ASSUME NEW k \in Open, Opening(k) PROVE HInv'
  <2>1. ASSUME NEW p \in Path, OpenFile(k, p) \/ Opendir(k, p) \/ Create(k, p) PROVE HInv'
    BY <2>1, AsyncOpenStep DEF OpenFile, Opendir, Create, Table
  <2> QED BY <1>1, <2>1, CreateOwnStep, InsertStep DEF Opening
<1>2. ASSUME NEW k \in Open, Releasing(k) PROVE HInv'
  BY <1>2, LastPutStep, ReleasedirStep, ReleaseStep, AsyncCloseStep DEF Releasing
<1>3. ASSUME NEW t \in Task, Using(t) PROVE HInv'
  BY <1>3, RequestStep, GetFileStep, DoneStep DEF Using
<1>4. CASE UNCHANGED vars
  <2>1. OwnedLive' /\ OwnedOnce' /\ Accounted' /\ \A j \in Open : FdOf(j)' = FdOf(j)
    BY <1>4, SameTables DEF vars
  <2>2. TypeOK' /\ UsesHeld'
    BY <1>4, <2>1 DEF vars, HInv, TypeOK, UsesHeld
  <2> QED BY <2>1, <2>2 DEF HInv
<1> QED BY <1>1, <1>2, <1>3, <1>4 DEF Next

(* The invariant gives the properties of Handles. *)
LEMMA HInvImplies == HInv => HandlesLive /\ IoOnOwnFile /\ FdsAccounted
<1> SUFFICES ASSUME HInv PROVE HandlesLive /\ IoOnOwnFile /\ FdsAccounted
  OBVIOUS
<1>1. \A k \in Open : HasEntry(k) => Owns(k) /\ FdOf(k) = EntryOf(k).fd
  BY DEF HasEntry, Owns, InHand, FdOf
<1>2. HandlesLive
  <2>1. \A k \in Open : /\ handle[k].pc # "panic"
                        /\ HasEntry(k) => EntryOf(k) # None /\ fds[EntryOf(k).fd] = handle[k].path
    BY <1>1 DEF HInv, OwnedLive
  <2>2. \A k \in Open : \A j \in Open \ {k} : HasEntry(k) /\ HasEntry(j) => EntryOf(j).fd # EntryOf(k).fd
    BY <1>1 DEF HInv, OwnedOnce
  <2> QED BY <2>1, <2>2 DEF HandlesLive
<1>3. IoOnOwnFile
  <2>1. ASSUME NEW t \in Task, use[t].pc = "io" PROVE fds[use[t].fd] = handle[use[t].open].path
    <3>1. use[t].open \in Open /\ handle[use[t].open].pc = "held" /\ use[t].fd = FdOf(use[t].open)
      BY <2>1 DEF HInv, TypeOK, UsesHeld
    <3> QED BY <3>1 DEF HInv, OwnedLive, Owns, HasEntry
  <2>2. ASSUME NEW k \in Open, handle[k].pc = "close" PROVE fds[handle[k].fd] = handle[k].path
    <3>1. HasEntry(k) /\ handle[k].fd = EntryOf(k).fd
      BY <2>2 DEF HInv, OwnedLive, HasEntry
    <3> QED BY <1>1, <3>1 DEF HInv, OwnedLive
  <2> QED BY <2>1, <2>2 DEF IoOnOwnFile
<1>4. FdsAccounted
  <2> SUFFICES ASSUME NEW d \in Fd, fds[d] # None, d \notin lost
               PROVE  \E k \in Open : \/ handle[k].pc \in {"own", "insert"} /\ handle[k].fd = d
                                      \/ HasEntry(k) /\ EntryOf(k).fd = d
    BY DEF FdsAccounted
  <2>1. PICK k \in Open : Owns(k) /\ FdOf(k) = d
    BY DEF HInv, Accounted
  <2> QED BY <2>1, <1>1 DEF Owns, InHand, FdOf
<1> QED BY <1>2, <1>3, <1>4

(* The types of Handles hold in every reachable state. *)
THEOREM HandlesTyped == Spec => []TypeOK
<1>1. HInv => TypeOK
  BY DEF HInv
<1> QED BY <1>1, HInvInit, HInvNext, PTL DEF Spec

(* However many requests open, use and release files, and however often    *)
(* close(2) fails and leaves a stale entry in opened_files: every handle   *)
(* leads to its own descriptor, open on what was opened, and release never *)
(* panics.                                                                 *)
THEOREM HandlesAlwaysLive == Spec => []HandlesLive
BY HInvInit, HInvNext, HInvImplies, PTL DEF Spec

(* No read, write, flush, fsync, readdir or close acts on a descriptor of  *)
(* another file.                                                           *)
THEOREM IoAlwaysOnOwnFile == Spec => []IoOnOwnFile
BY HInvInit, HInvNext, HInvImplies, PTL DEF Spec

(* A create that fails after its open is the only way to leak a descriptor. *)
THEOREM FdsAlwaysAccounted == Spec => []FdsAccounted
BY HInvInit, HInvNext, HInvImplies, PTL DEF Spec
=============================================================================
