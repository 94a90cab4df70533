----------------------------- MODULE TodaProofs -----------------------------
(***************************************************************************)
(* The mounts of toda, for any number of processes that use the target and *)
(* any number of tries: whichever call of inject or resume fails, and      *)
(* however the main thread and the FUSE thread interleave.                 *)
(***************************************************************************)
EXTENDS Toda, TLAPS, SequenceTheorems

(* The stacks of mounts there ever are on path and new, by their mounts. *)
E == <<>>
V == <<"vol">>
VB == <<"vol", "bind">>
VF == <<"vol", "fuse">>
VK == <<"vol", "back">>
F == <<"fuse">>
B == <<"bind">>

NoFuse == \A p \in Procs : file[p] # "fuse"

(* Before the FUSE thread is spawned. *)
NotSpawned ==
  /\ session = "none" /\ ~injected
  /\ \/ pc \in {"start", "private", "bind"} /\ path = V /\ new = E
     \/ pc \in {"prepare", "create", "move"} /\ path = VB /\ new = E
     \/ pc = "spawn" /\ path = V /\ new = B
     \/ pc \in {"serve", "ok", "panic"} /\ path \in {V, VB} /\ new = E

(* Until recover_mount unmounts what is on path. *)
Up ==
  /\ pc \in {"wait", "asleep", "replace", "serve", "disable", "canonicalize", "detect", "reopen", "umount"} \cup Exited
  /\ pc = "ok" => ~injected
  /\ new = B
  /\ \/ session = "serving" /\ path = VF
     \/ session \in {"mkdir", "mount", "failed"} /\ path = V

(* The main thread joins the FUSE thread, or has given up on it. *)
Joining ==
  /\ pc \in {"join", "error"} /\ new = B
  /\ \/ session \in {"serving", "shutdown", "ended"} /\ path = V /\ NoFuse
     \/ session \in {"mkdir", "mount", "failed"} /\ path = E /\ (pc = "error" => session = "failed")
     \/ session = "serving" /\ path = F /\ pc = "join" /\ ~prompt

(* The FUSE thread is joined. *)
Joined ==
  /\ session = "ended" /\ NoFuse
  /\ \/ pc \in {"bindback", "error", "panic"} /\ path = V /\ new = B
     \/ pc \in {"umountnew", "error"} /\ path = VK /\ new = B
     \/ pc = "ok" /\ path = VK /\ new = E /\ \A p \in Procs : file[p] # "bind"

Mounts == NotSpawned \/ Up \/ Joining \/ Joined

(* enable_injection is off from resume's first step on. *)
Disabled == pc \in After \ {"disable"} \/ (pc = "ok" /\ injected) => ~enabled

(* What "prompt" promises, kept until the thread ends. *)
Mounted == prompt /\ (pc \in {"replace"} \cup After \/ injected) => session \notin {"none", "mkdir", "mount"}

IInv == TypeOK /\ Mounts /\ Disabled /\ Mounted

(* Mounting on and unmounting from a stack of one or two. *)
LEMMA Pushed ==
  ASSUME NEW x, NEW y
  PROVE  Append(<<>>, x) = <<x>> /\ Append(<<x>>, y) = <<x, y>>
<1> DEFINE S == {x, y}
<1>1. /\ <<x>> \in Seq(S) /\ <<x, y>> \in Seq(S) /\ <<>> \in Seq(S)
      /\ Len(<<x>>) = 1 /\ Len(<<x, y>>) = 2 /\ Len(<<>>) = 0
      /\ <<x>>[1] = x /\ <<x, y>>[1] = x /\ <<x, y>>[2] = y
  OBVIOUS
<1>2. \A s \in Seq(S), e \in S :
        /\ Append(s, e) \in Seq(S) /\ Len(Append(s, e)) = Len(s) + 1
        /\ Append(s, e)[Len(s) + 1] = e
        /\ \A i \in 1..Len(s) : Append(s, e)[i] = s[i]
  OBVIOUS
<1>3. Append(<<>>, x) = <<x>>
  <2>1. /\ Append(<<>>, x) \in Seq(S) /\ Len(Append(<<>>, x)) = 1 /\ Append(<<>>, x)[1] = x
    BY <1>1, <1>2
  <2> HIDE DEF S
  <2> QED BY <1>1, <2>1, SeqEqual
<1>4. Append(<<x>>, y) = <<x, y>>
  <2>1. /\ Append(<<x>>, y) \in Seq(S) /\ Len(Append(<<x>>, y)) = 2
        /\ Append(<<x>>, y)[1] = x /\ Append(<<x>>, y)[2] = y
    BY <1>1, <1>2
  <2> DEFINE s == Append(<<x>>, y)
             t == <<x, y>>
  <2>2. s \in Seq(S) /\ t \in Seq(S) /\ Len(s) = 2 /\ Len(t) = 2 /\ s[1] = t[1] /\ s[2] = t[2]
    BY <1>1, <2>1
  <2> HIDE DEF S, s, t
  <2>3. \A i \in 1..Len(s) : s[i] = t[i]
    BY <2>2
  <2>4. s = t
    BY <2>2, <2>3, SeqEqual
  <2> QED BY <2>4 DEF s, t
<1> QED BY <1>3, <1>4

LEMMA Popped ==
  ASSUME NEW x, NEW y
  PROVE  Front(<<x>>) = <<>> /\ Front(<<x, y>>) = <<x>>
<1>1. Front(<<x>>) = <<>>
  <2>1. Front(<<x>>) = SubSeq(<<x>>, 1, 0)
    BY DEF Front
  <2> QED BY <2>1, SubSeqEmpty
<1>2. Front(<<x, y>>) = SubSeq(<<x, y>>, 1, 1)
  BY DEF Front
<1>3. <<x, y>>[1] \in {x} /\ <<x, y>>[1] = x
  OBVIOUS
<1>4. /\ SubSeq(<<x, y>>, 1, 1) \in Seq({x}) /\ Len(SubSeq(<<x, y>>, 1, 1)) = 1
      /\ SubSeq(<<x, y>>, 1, 1)[1] = x
  <2>1. \A i \in 1..1 : <<x, y>>[i] \in {x}
    BY <1>3
  <2> DEFINE s == <<x, y>>
             T == {x}
  <2>2. \A i \in 1..1 : s[i] \in T
    BY <2>1
  <2>3. s[1] = x
    BY <1>3
  <2> HIDE DEF s, T
  <2>4. /\ SubSeq(s, 1, 1) \in Seq(T) /\ Len(SubSeq(s, 1, 1)) = 1
        /\ \A i \in 1..1 : SubSeq(s, 1, 1)[i] = s[1 + i - 1]
    BY <2>2, SubSeqProperties
  <2>5. SubSeq(s, 1, 1)[1] = s[1]
    BY <2>4
  <2> QED BY <2>3, <2>4, <2>5 DEF s, T
<1>5. <<x>> \in Seq({x}) /\ Len(<<x>>) = 1 /\ <<x>>[1] = x
  OBVIOUS
<1>6. SubSeq(<<x, y>>, 1, 1) = <<x>>
  <2> DEFINE s == SubSeq(<<x, y>>, 1, 1)
             t == <<x>>
             T == {x}
  <2>1. s \in Seq(T) /\ t \in Seq(T) /\ Len(s) = 1 /\ Len(t) = 1 /\ s[1] = t[1]
    BY <1>4, <1>5
  <2> HIDE DEF s, t, T
  <2>2. s = t
    BY <2>1, SeqEqual
  <2> QED BY <2>2 DEF s, t
<1> QED BY <1>1, <1>2, <1>6

(* What the calls of mount(2) and umount2(2) make of these stacks. *)
LEMMA Stacks ==
  /\ Append(E, "fuse") = F /\ Append(E, "bind") = B /\ Append(V, "bind") = VB
  /\ Append(V, "fuse") = VF /\ Append(V, "back") = VK
  /\ Front(V) = E /\ Front(VB) = V /\ Front(VF) = V /\ Front(B) = E
  /\ Top(V) = "vol" /\ Top(VB) = "bind" /\ Top(VF) = "fuse" /\ Top(VK) = "back" /\ Top(F) = "fuse" /\ Top(B) = "bind"
<1>1. /\ Append(E, "fuse") = F /\ Append(E, "bind") = B /\ Append(V, "bind") = VB
      /\ Append(V, "fuse") = VF /\ Append(V, "back") = VK
  BY Pushed, Zenon DEF E, V, VB, VF, VK, F, B
<1>2. Front(V) = E /\ Front(VB) = V /\ Front(VF) = V /\ Front(B) = E
  BY Popped, Zenon DEF E, V, VB, VF, B
<1>3. Top(V) = "vol" /\ Top(VB) = "bind" /\ Top(VF) = "fuse" /\ Top(VK) = "back" /\ Top(F) = "fuse" /\ Top(B) = "bind"
  BY DEF V, VB, VF, VK, F, B, Top, Last
<1> QED BY <1>1, <1>2, <1>3

LEMMA StackTypes ==
  /\ \A s \in {E, V, VB, VF, VK, F, B} : s \in Seq(Mount)
  /\ \A s \in {V, VB, VF, VK, F, B} : s # E
  BY DEF E, V, VB, VF, VK, F, B, Mount, Data

LEMMA StackContents ==
  /\ \A s \in {V, VB, VF, VK} : Contains(s, "vol")
  /\ \A s \in {VF, F} : Contains(s, "fuse")
  /\ \A s \in {E, V, VB, VK, B} : ~Contains(s, "fuse")
<1>1. \A s \in {V, VB, VF, VK} : 1 \in 1..Len(s) /\ s[1] = "vol"
  BY DEF V, VB, VF, VK
<1>2. 2 \in 1..Len(VF) /\ VF[2] = "fuse" /\ 1 \in 1..Len(F) /\ F[1] = "fuse"
  BY DEF VF, F
<1>3. \A s \in {E, V, VB, VK, B} : \A i \in 1..Len(s) : s[i] # "fuse"
  <2>1. \A i \in 1..Len(E) : E[i] # "fuse"
    BY DEF E
  <2>2. \A i \in 1..Len(V) : V[i] # "fuse"
    BY DEF V
  <2>3. \A i \in 1..Len(VB) : VB[i] # "fuse"
    BY DEF VB
  <2>4. \A i \in 1..Len(VK) : VK[i] # "fuse"
    BY DEF VK
  <2>5. \A i \in 1..Len(B) : B[i] # "fuse"
    BY DEF B
  <2> QED BY <2>1, <2>2, <2>3, <2>4, <2>5
<1> QED BY <1>1, <1>2, <1>3 DEF Contains

(* The replacers open the files of processes again on a mount. *)
LEMMA ReopenedTyped ==
  ASSUME TypeOK, NEW S, NEW m \in Mount
  PROVE  Reopened(S, m) \in [Procs -> Mount \cup {NoMount}]
  BY DEF TypeOK, Reopened

LEMMA InitInv ==
  Init => IInv
<1> SUFFICES ASSUME Init PROVE IInv
  OBVIOUS
<1>1. Mounts
  BY DEF Init, Mounts, NotSpawned, V, E
<1>2. TypeOK
  <2>1. path \in Seq(Mount) /\ new \in Seq(Mount)
    BY <1>1, StackTypes DEF Mounts, NotSpawned, Up, Joining, Joined
  <2>2. file \in [Procs -> Mount \cup {NoMount}] /\ tries \in 0..MaxTries
    BY TodaAssumption DEF Init, Mount, Data
  <2> QED BY <2>1, <2>2 DEF Init, TypeOK, Before
<1> QED BY <1>1, <1>2 DEF Init, IInv, Disabled, Mounted, After

(* Every step of the main thread, the FUSE thread, the runtime and the     *)
(* processes keeps the invariant.                                          *)
LEMMA StepInv ==
  IInv /\ [Next]_vars => IInv'
<1> SUFFICES ASSUME IInv, [Next]_vars PROVE IInv'
  OBVIOUS
<1> USE DEF IInv, After, Exited, env
<1>0. Mounts' => path' \in Seq(Mount) /\ new' \in Seq(Mount)
  BY StackTypes DEF Mounts, NotSpawned, Up, Joining, Joined
<1>1. CASE Canonicalize
  <2>1. Mounts'
    BY <1>1, Stacks
    DEF Canonicalize, InjectFails, Goto, NoFuse, Mounts, NotSpawned, Up, Joining, Joined
  <2>2. Disabled' /\ Mounted'
    BY <1>1 DEF Canonicalize, InjectFails, Goto, Disabled, Mounted
  <2>3. TypeOK'
    BY <1>0, <1>1, <2>1 DEF Canonicalize, InjectFails, Goto, TypeOK, Before
  <2> QED BY <2>1, <2>2, <2>3
<1>2. CASE MakePrivate
  <2>1. Mounts'
    BY <1>2
    DEF MakePrivate, Goto, Mounts, NotSpawned, Up, Joining, Joined
  <2>2. Disabled' /\ Mounted'
    BY <1>2 DEF MakePrivate, Goto, Disabled, Mounted
  <2>3. TypeOK'
    BY <1>0, <1>2, <2>1 DEF MakePrivate, Goto, TypeOK, Before
  <2> QED BY <2>1, <2>2, <2>3
<1>3. CASE BindSelf
  <2>1. Mounts'
    BY <1>3, Stacks
    DEF BindSelf, Goto, NoFuse, Mounts, NotSpawned, Up, Joining, Joined
  <2>2. Disabled' /\ Mounted'
    BY <1>3 DEF BindSelf, Goto, Disabled, Mounted
  <2>3. TypeOK'
    BY <1>0, <1>3, <2>1 DEF BindSelf, Goto, TypeOK, Before
  <2> QED BY <2>1, <2>2, <2>3
<1>4. CASE Prepare("prepare", "create")
  <2>1. Mounts'
    BY <1>4
    DEF Prepare, Goto, NoFuse, Mounts, NotSpawned, Up, Joining, Joined
  <2>2. Disabled' /\ Mounted'
    BY <1>4 DEF Prepare, Goto, Disabled, Mounted
  <2>3. TypeOK'
    BY <1>0, <1>4, <2>1 DEF Prepare, Goto, TypeOK, Before
  <2> QED BY <2>1, <2>2, <2>3
<1>5. CASE CreateInjection
  <2>1. Mounts'
    BY <1>5
    DEF CreateInjection, InjectFails, Goto, NoFuse, Mounts, NotSpawned, Up, Joining, Joined
  <2>2. Disabled' /\ Mounted'
    BY <1>5 DEF CreateInjection, InjectFails, Goto, Disabled, Mounted
  <2>3. TypeOK'
    BY <1>0, <1>5, <2>1 DEF CreateInjection, InjectFails, Goto, TypeOK, Before
  <2> QED BY <2>1, <2>2, <2>3
<1>6. CASE MoveMount
  <2>1. Mounts'
    BY <1>6, Stacks
    DEF MoveMount, InjectFails, Goto, NoFuse, Mounts, NotSpawned, Up, Joining, Joined
  <2>2. Disabled' /\ Mounted'
    BY <1>6 DEF MoveMount, InjectFails, Goto, Disabled, Mounted
  <2>3. TypeOK'
    BY <1>0, <1>6, <2>1 DEF MoveMount, InjectFails, Goto, TypeOK, Before
  <2> QED BY <2>1, <2>2, <2>3
<1>7. CASE SpawnSession
  <2>1. Mounts'
    BY <1>7
    DEF SpawnSession, Goto, NoFuse, Mounts, NotSpawned, Up, Joining, Joined
  <2>2. Disabled' /\ Mounted'
    BY <1>7 DEF SpawnSession, Goto, Disabled, Mounted, Mounts, NotSpawned, Up, Joining, Joined
  <2>3. TypeOK'
    BY <1>0, <1>7, <2>1 DEF SpawnSession, Goto, TypeOK, Before
  <2> QED BY <2>1, <2>2, <2>3
<1>8. CASE Wait
  <2>1. Mounts'
    BY <1>8
    DEF Wait, Goto, NoFuse, Mounts, NotSpawned, Up, Joining, Joined
  <2>2. Disabled' /\ Mounted'
    BY <1>8 DEF Wait, Goto, Disabled, Mounted, Mounts, NotSpawned, Up, Joining, Joined
  <2>3. TypeOK'
    BY <1>0, <1>8, <2>1 DEF Wait, Goto, TypeOK, Before
  <2> QED BY <2>1, <2>2, <2>3
<1>9. CASE RunReplacers
  <2>1. Mounts'
    BY <1>9
    DEF RunReplacers, Reopened, Goto, NoFuse, Mounts, NotSpawned, Up, Joining, Joined
  <2>2. Disabled' /\ Mounted'
    BY <1>9 DEF RunReplacers, Reopened, Goto, Disabled, Mounted
  <2>3. TypeOK'
    <3>1. file' \in [Procs -> Mount \cup {NoMount}]
      <4>1. Top(path) \in Mount
        BY <1>9, Stacks DEF RunReplacers, Goto, Mount, Data, Mounts, NotSpawned, Up, Joining, Joined
      <4> QED BY <1>9, <4>1, ReopenedTyped DEF RunReplacers
    <3> QED BY <1>0, <1>9, <2>1, <3>1 DEF RunReplacers, Goto, TypeOK, Before
  <2> QED BY <2>1, <2>2, <2>3
<1>10. CASE CatchSignal
  <2>1. Mounts'
    BY <1>10
    DEF CatchSignal, Goto, NoFuse, Mounts, NotSpawned, Up, Joining, Joined
  <2>2. Disabled' /\ Mounted'
    BY <1>10 DEF CatchSignal, Goto, Disabled, Mounted
  <2>3. TypeOK'
    BY <1>0, <1>10, <2>1 DEF CatchSignal, Goto, TypeOK, Before
  <2> QED BY <2>1, <2>2, <2>3
<1>11. CASE DisableInjection
  <2>1. Mounts'
    BY <1>11
    DEF DisableInjection, Goto, NoFuse, Mounts, NotSpawned, Up, Joining, Joined
  <2>2. Disabled' /\ Mounted'
    BY <1>11 DEF DisableInjection, Goto, Disabled, Mounted
  <2>3. TypeOK'
    BY <1>0, <1>11, <2>1 DEF DisableInjection, Goto, TypeOK, Before
  <2> QED BY <2>1, <2>2, <2>3
<1>12. CASE CanonicalizeAgain
  <2>1. Mounts'
    BY <1>12
    DEF CanonicalizeAgain, Goto, NoFuse, Mounts, NotSpawned, Up, Joining, Joined
  <2>2. Disabled' /\ Mounted'
    BY <1>12 DEF CanonicalizeAgain, Goto, Disabled, Mounted
  <2>3. TypeOK'
    BY <1>0, <1>12, <2>1 DEF CanonicalizeAgain, Goto, TypeOK, Before
  <2> QED BY <2>1, <2>2, <2>3
<1>13. CASE Prepare("detect", "reopen")
  <2>1. Mounts'
    BY <1>13
    DEF Prepare, Goto, NoFuse, Mounts, NotSpawned, Up, Joining, Joined
  <2>2. Disabled' /\ Mounted'
    BY <1>13 DEF Prepare, Goto, Disabled, Mounted
  <2>3. TypeOK'
    BY <1>0, <1>13, <2>1 DEF Prepare, Goto, TypeOK, Before
  <2> QED BY <2>1, <2>2, <2>3
<1>14. CASE RunReplacersBack
  <2>1. Mounts'
    BY <1>14
    DEF RunReplacersBack, Reopened, Goto, NoFuse, TypeOK, Mounts, NotSpawned, Up, Joining, Joined
  <2>2. Disabled' /\ Mounted'
    BY <1>14 DEF RunReplacersBack, Reopened, Goto, Disabled, Mounted
  <2>3. TypeOK'
    <3>1. file' \in [Procs -> Mount \cup {NoMount}]
      <4>1. Top(new) \in Mount
        BY <1>14, Stacks DEF RunReplacersBack, Goto, Mount, Data, Mounts, NotSpawned, Up, Joining, Joined
      <4> QED BY <1>14, <4>1, ReopenedTyped DEF RunReplacersBack
    <3> QED BY <1>0, <1>14, <2>1, <3>1, TodaAssumption DEF RunReplacersBack, Goto, TypeOK, Before
  <2> QED BY <2>1, <2>2, <2>3
<1>15. CASE UmountPath
  <2>1. Mounts'
    BY <1>15, Stacks
    DEF UmountPath, Retry, Pinned, Goto, NoFuse, TypeOK, Mounts, NotSpawned, Up, Joining, Joined
  <2>2. Disabled' /\ Mounted'
    BY <1>15 DEF UmountPath, Retry, Pinned, Goto, Disabled, Mounted
  <2>3. TypeOK'
    BY <1>0, <1>15, <2>1, TodaAssumption DEF UmountPath, Retry, Pinned, Goto, TypeOK, Before
  <2> QED BY <2>1, <2>2, <2>3
<1>16. CASE JoinSession
  <2>1. Mounts'
    BY <1>16
    DEF JoinSession, Goto, NoFuse, Mounts, NotSpawned, Up, Joining, Joined
  <2>2. Disabled' /\ Mounted'
    BY <1>16 DEF JoinSession, Goto, Disabled, Mounted
  <2>3. TypeOK'
    BY <1>0, <1>16, <2>1 DEF JoinSession, Goto, TypeOK, Before
  <2> QED BY <2>1, <2>2, <2>3
<1>17. CASE BindBack
  <2>1. Mounts'
    BY <1>17, Stacks
    DEF BindBack, Goto, NoFuse, Mounts, NotSpawned, Up, Joining, Joined
  <2>2. Disabled' /\ Mounted'
    BY <1>17 DEF BindBack, Goto, Disabled, Mounted
  <2>3. TypeOK'
    BY <1>0, <1>17, <2>1, TodaAssumption DEF BindBack, Goto, TypeOK, Before
  <2> QED BY <2>1, <2>2, <2>3
<1>18. CASE UmountNew
  <2>1. Mounts'
    BY <1>18, Stacks
    DEF UmountNew, Retry, Pinned, Goto, NoFuse, TypeOK, Mounts, NotSpawned, Up, Joining, Joined
  <2>2. Disabled' /\ Mounted'
    BY <1>18 DEF UmountNew, Retry, Pinned, Goto, Disabled, Mounted
  <2>3. TypeOK'
    BY <1>0, <1>18, <2>1, TodaAssumption DEF UmountNew, Retry, Pinned, Goto, TypeOK, Before
  <2> QED BY <2>1, <2>2, <2>3
<1>19. CASE CreateDir
  <2>1. Mounts'
    BY <1>19
    DEF CreateDir, Wake, Running, NoFuse, Mounts, NotSpawned, Up, Joining, Joined
  <2>2. Disabled' /\ Mounted'
    BY <1>19 DEF CreateDir, Wake, Running, Disabled, Mounted
  <2>3. TypeOK'
    BY <1>0, <1>19, <2>1 DEF CreateDir, Wake, Running, TypeOK, Before
  <2> QED BY <2>1, <2>2, <2>3
<1>20. CASE FuseMount
  <2>1. Mounts'
    BY <1>20, Stacks
    DEF FuseMount, Running, NoFuse, Mounted, Mounts, NotSpawned, Up, Joining, Joined
  <2>2. Disabled' /\ Mounted'
    BY <1>20 DEF FuseMount, Running, Disabled, Mounted
  <2>3. TypeOK'
    BY <1>0, <1>20, <2>1 DEF FuseMount, Running, TypeOK, Before
  <2> QED BY <2>1, <2>2, <2>3
<1>21. CASE StartShutdown
  <2>1. Mounts'
    BY <1>21, StackContents
    DEF StartShutdown, Running, NoFuse, Mounts, NotSpawned, Up, Joining, Joined
  <2>2. Disabled' /\ Mounted'
    BY <1>21 DEF StartShutdown, Running, Disabled, Mounted
  <2>3. TypeOK'
    BY <1>0, <1>21, <2>1 DEF StartShutdown, Running, TypeOK, Before
  <2> QED BY <2>1, <2>2, <2>3
<1>22. CASE FinishShutdown
  <2>1. Mounts'
    BY <1>22
    DEF FinishShutdown, Running, NoFuse, Mounts, NotSpawned, Up, Joining, Joined
  <2>2. Disabled' /\ Mounted'
    BY <1>22 DEF FinishShutdown, Running, Disabled, Mounted
  <2>3. TypeOK'
    BY <1>0, <1>22, <2>1 DEF FinishShutdown, Running, TypeOK, Before
  <2> QED BY <2>1, <2>2, <2>3
<1>23. ASSUME NEW p \in Procs, RunRelease(p)
       PROVE  IInv'
  <2>1. Mounts'
    BY <1>23
    DEF RunRelease, Running, NoFuse, Mounts, NotSpawned, Up, Joining, Joined
  <2>2. Disabled' /\ Mounted'
    BY <1>23 DEF RunRelease, Running, Disabled, Mounted
  <2>3. TypeOK'
    <3>1. closing' \in [Procs -> {"none", "queued", "polled", "blocking"}]
      BY <1>23 DEF RunRelease, TypeOK
    <3> QED BY <1>0, <1>23, <2>1, <3>1 DEF RunRelease, Running, TypeOK, Before
  <2> QED BY <2>1, <2>2, <2>3
<1>24. CASE Signal
  <2>1. Mounts'
    BY <1>24
    DEF Signal, Running, NoFuse, Mounts, NotSpawned, Up, Joining, Joined
  <2>2. Disabled' /\ Mounted'
    BY <1>24 DEF Signal, Running, Disabled, Mounted
  <2>3. TypeOK'
    BY <1>0, <1>24, <2>1 DEF Signal, Running, TypeOK, Before
  <2> QED BY <2>1, <2>2, <2>3
<1>25. CASE SpuriousWake
  <2>1. Mounts'
    BY <1>25
    DEF SpuriousWake, Goto, NoFuse, Mounts, NotSpawned, Up, Joining, Joined
  <2>2. Disabled' /\ Mounted'
    BY <1>25 DEF SpuriousWake, Goto, Disabled, Mounted
  <2>3. TypeOK'
    BY <1>0, <1>25, <2>1 DEF SpuriousWake, Goto, TypeOK, Before
  <2> QED BY <2>1, <2>2, <2>3
<1>26. ASSUME NEW p \in Procs, OpenFile(p)
       PROVE  IInv'
  <2>1. Mounts'
    BY <1>26, Stacks, StackTypes
    DEF OpenFile, Running, NoFuse, TypeOK, Mounts, NotSpawned, Up, Joining, Joined
  <2>2. Disabled' /\ Mounted'
    BY <1>26 DEF OpenFile, Running, Disabled, Mounted
  <2>3. TypeOK'
    <3>1. file' \in [Procs -> Mount \cup {NoMount}]
      <4>1. Top(path) \in Mount
        BY <1>26, Stacks DEF OpenFile, Mount, Data, E, Mounts, NotSpawned, Up, Joining, Joined
      <4> QED BY <1>26, <4>1 DEF OpenFile, TypeOK
    <3> QED BY <1>0, <1>26, <2>1, <3>1 DEF OpenFile, Running, TypeOK, Before
  <2> QED BY <2>1, <2>2, <2>3
<1>27. ASSUME NEW p \in Procs, CloseFile(p)
       PROVE  IInv'
  <2>1. Mounts'
    BY <1>27, TodaAssumption
    DEF CloseFile, Running, NoFuse, TypeOK, Mounts, NotSpawned, Up, Joining, Joined
  <2>2. Disabled' /\ Mounted'
    BY <1>27 DEF CloseFile, Running, Disabled, Mounted
  <2>3. TypeOK'
    BY <1>0, <1>27, <2>1 DEF CloseFile, Running, TypeOK, Before
  <2> QED BY <2>1, <2>2, <2>3
<1>28. CASE UNCHANGED vars
  <2>1. Mounts'
    BY <1>28
    DEF vars, NoFuse, Mounts, NotSpawned, Up, Joining, Joined
  <2>2. Disabled' /\ Mounted'
    BY <1>28 DEF vars, Disabled, Mounted
  <2>3. TypeOK'
    BY <1>0, <1>28, <2>1 DEF vars, TypeOK, Before
  <2> QED BY <2>1, <2>2, <2>3
<1> HIDE DEF IInv, After, Exited, env
<1> QED
  BY <1>1, <1>2, <1>3, <1>4, <1>5, <1>6, <1>7, <1>8, <1>9, <1>10, <1>11, <1>12, <1>13, <1>14, <1>15, <1>16, <1>17, <1>18,
     <1>19, <1>20, <1>21, <1>22, <1>23, <1>24, <1>25, <1>26, <1>27, <1>28
  DEF Next, Main, Session, Environment, Stopped

LEMMA Consequences ==
  IInv => DataReachable /\ SessionBacked /\ CleanExit /\ VolumeKept
<1> SUFFICES ASSUME IInv PROVE DataReachable /\ SessionBacked /\ CleanExit /\ VolumeKept
  OBVIOUS
<1> USE DEF IInv, Mounts, NotSpawned, Up, Joining, Joined, Exited
<1>1. DataReachable
  BY Stacks, StackTypes DEF DataReachable, Data, E
<1>2. SessionBacked
  BY Stacks, StackTypes DEF SessionBacked, Data, E
<1>3. CleanExit
  BY Stacks, StackTypes, StackContents DEF CleanExit, Data, E, Disabled, NoFuse
<1>4. VolumeKept
  BY StackContents DEF VolumeKept, Mounted, After
<1> QED BY <1>1, <1>2, <1>3, <1>4

LEMMA Invariance ==
  Spec => []IInv
  BY InitInv, StepInv, PTL DEF Spec

(* Every variable of toda's life keeps its type, in particular the umounts *)
(* tried never exceed the limit.                                           *)
THEOREM TodaTyped ==
  Spec => []TypeOK
<1>1. IInv => TypeOK
  BY DEF IInv
<1> QED BY <1>1, Invariance, PTL

(* At every step of inject and resume, failed ones included, the volume is *)
(* mounted on top of path or on new.                                       *)
THEOREM DataAlwaysReachable ==
  Spec => []DataReachable
  BY Consequences, Invariance, PTL

(* No FUSE session answers requests without the volume behind it. *)
THEOREM SessionAlwaysBacked ==
  Spec => []SessionBacked
  BY Consequences, Invariance, PTL

(* A resume that returns Ok has put everything back as it was: mounts,     *)
(* session, injection and the files of the processes.                      *)
THEOREM ExitAlwaysClean ==
  Spec => []CleanExit
  BY Consequences, Invariance, PTL

(* recover_mount takes the volume off path only when the FUSE thread was   *)
(* late or has failed.                                                     *)
THEOREM VolumeAlwaysKept ==
  Spec => []VolumeKept
  BY Consequences, Invariance, PTL
=============================================================================
