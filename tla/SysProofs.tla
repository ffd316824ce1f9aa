------------------------------ MODULE SysProofs -----------------------------
(***************************************************************************)
(* Proofs about Sys, for any tree of processes, any number of threads and  *)
(* any number of forks: the lock can be used in every process, no child is *)
(* lost from the list of its parent, and the count is that of the blocks.  *)
(***************************************************************************)
EXTENDS Sys, FiniteSetTheorems, SequenceTheorems, WellFoundedInduction, TLAPS

-----------------------------------------------------------------------------
(* The nodes of a list with one pid.                                        *)
Nodes(s, c) == {i \in DOMAIN s : s[i] = c}

One(b) == IF b THEN 1 ELSE 0

(* There are finitely many.                                                 *)
LEMMA NodesFinite ==
    ASSUME NEW s \in Seq(Pids), NEW c
    PROVE  IsFiniteSet(Nodes(s, c)) /\ Cardinality(Nodes(s, c)) \in Nat
<1>1. Nodes(s, c) \in SUBSET (1..Len(s))
  BY DEF Nodes
<1>2. IsFiniteSet(1..Len(s))
  BY FS_Interval
<1> QED BY <1>1, <1>2, FS_Subset, FS_CardinalityType

(* A node that is pushed is one more.                                       *)
LEMMA PushNodes ==
    ASSUME NEW s \in Seq(Pids), NEW x \in Pids, NEW c
    PROVE  /\ <<x>> \o s \in Seq(Pids)
           /\ Cardinality(Nodes(<<x>> \o s, c)) = Cardinality(Nodes(s, c)) + One(x = c)
<1> DEFINE r == <<x>> \o s
           Shift == {i + 1 : i \in Nodes(s, c)}
           f == [i \in Nodes(s, c) |-> i + 1]
<1>1. /\ r \in Seq(Pids) /\ Len(r) = Len(s) + 1 /\ r[1] = x /\ Len(s) \in Nat
      /\ \A i \in 1..Len(s) : r[i + 1] = s[i]
  BY ConcatProperties
<1>2. f \in Bijection(Nodes(s, c), Shift)
  <2>1. \A i \in Nodes(s, c) : i \in Nat
    BY DEF Nodes
  <2>2. f \in [Nodes(s, c) -> Shift] /\ \A j \in Shift : \E i \in Nodes(s, c) : f[i] = j
    OBVIOUS
  <2>3. \A i, j \in Nodes(s, c) : f[i] = f[j] => i = j
    BY <2>1
  <2> HIDE DEF f, Shift
  <2> QED BY <2>2, <2>3 DEF Bijection, Injection, Surjection, IsInjective
<1>3. IsFiniteSet(Shift) /\ Cardinality(Shift) = Cardinality(Nodes(s, c))
  BY <1>2, NodesFinite, FS_Bijection DEF ExistsBijection
<1> HIDE DEF r, f
<1>4. Nodes(r, c) = IF x = c THEN Shift \cup {1} ELSE Shift
  <2>1. \A j \in DOMAIN r : j = 1 \/ (j - 1 \in DOMAIN s /\ r[j] = s[j - 1] /\ j = (j - 1) + 1)
    BY <1>1
  <2>2. \A i \in DOMAIN s : i + 1 \in DOMAIN r /\ r[i + 1] = s[i]
    BY <1>1
  <2>3. 1 \in DOMAIN r
    BY <1>1
  <2> QED BY <1>1, <2>1, <2>2, <2>3 DEF Nodes
<1>5. 1 \notin Shift
  BY DEF Nodes
<1>6. Cardinality(Shift \cup {1}) = Cardinality(Shift) + 1
  BY <1>3, <1>5, FS_AddElement
<1>7. Cardinality(Nodes(s, c)) \in Nat
  BY NodesFinite
<1> HIDE DEF Shift
<1> QED BY <1>1, <1>3, <1>4, <1>6, <1>7 DEF One, r

(* The first node with a pid exists if the pid is in the list.              *)
LEMMA FirstExists ==
    ASSUME NEW s \in Seq(Pids), NEW x, Nodes(s, x) # {}
    PROVE  FirstOf(s, x) \in 1..Len(s) /\ s[FirstOf(s, x)] = x
<1>1. Nodes(s, x) \subseteq Nat
  BY DEF Nodes
<1>2. PICK i \in Nodes(s, x) : \A j \in Nodes(s, x) : ~(j < i)
  <2> DEFINE R == OpToRel(<, Nat)
  <2>1. \A i, j \in Nat : <<j, i>> \notin R => ~(j < i)
    BY DEF OpToRel
  <2>2. IsWellFoundedOn(R, Nat)
    BY NatLessThanWellFounded
  <2> HIDE DEF R
  <2>3. \E i \in Nodes(s, x) : \A j \in Nodes(s, x) : ~(<<j, i>> \in R)
    BY <1>1, <2>2, WFMin
  <2> QED BY <1>1, <2>1, <2>3
<1>3. \A j \in 1..(i - 1) : s[j] # x
  <2> SUFFICES ASSUME NEW j \in 1..(i - 1), s[j] = x PROVE FALSE
    OBVIOUS
  <2>1. j \in Nodes(s, x) /\ j < i /\ i \in Nat /\ j \in Nat
    <3>1. i \in Nat /\ i \in 1..Len(s) /\ Len(s) \in Nat
      BY <1>1, <1>2 DEF Nodes
    <3>2. j \in 1..Len(s) /\ j < i /\ j \in Nat
      BY <3>1
    <3> QED BY <3>1, <3>2 DEF Nodes
  <2> QED BY <1>2, <2>1
<1>4. \E k \in DOMAIN s : s[k] = x /\ \A j \in 1..(k - 1) : s[j] # x
  BY <1>2, <1>3 DEF Nodes
<1> QED BY <1>4 DEF FirstOf

(* A node that is taken out is one less.                                    *)
LEMMA WithoutNodes ==
    ASSUME NEW s \in Seq(Pids), NEW x, NEW c, Nodes(s, x) # {}
    PROVE  /\ Without(s, x) \in Seq(Pids)
           /\ Cardinality(Nodes(Without(s, x), c)) = Cardinality(Nodes(s, c)) - One(x = c)
<1> DEFINE k == FirstOf(s, x)
           r == Without(s, x)
           n == Len(s) - 1
           Rest == Nodes(s, c) \ {k}
           f == [i \in Nodes(r, c) |-> IF i < k THEN i ELSE i + 1]
<1>1. k \in 1..Len(s) /\ s[k] = x /\ Len(s) \in Nat /\ n \in Nat
  BY FirstExists
<1>2. r = [i \in 1..n |-> IF i < k THEN s[i] ELSE s[i + 1]]
  BY DEF Without
<1> HIDE DEF k, r
<1>3. r \in Seq(Pids) /\ Len(r) = n /\ DOMAIN r = 1..n
  <2>1. r \in [1..n -> Pids]
    BY <1>1, <1>2
  <2> QED BY <1>1, <2>1
<1>4. \A i \in Nodes(r, c) : i \in 1..n /\ r[i] = c
  BY <1>3 DEF Nodes
<1>5. f \in [Nodes(r, c) -> Rest]
  <2> SUFFICES ASSUME NEW i \in Nodes(r, c) PROVE (IF i < k THEN i ELSE i + 1) \in Rest
    OBVIOUS
  <2>1. i \in 1..n /\ c = IF i < k THEN s[i] ELSE s[i + 1]
    BY <1>2, <1>4
  <2> QED BY <1>1, <2>1 DEF Nodes
<1>6. \A i, j \in Nodes(r, c) : f[i] = f[j] => i = j
  BY <1>1, <1>4
<1>7. \A j \in Rest : \E i \in Nodes(r, c) : f[i] = j
  <2> SUFFICES ASSUME NEW j \in Rest PROVE \E i \in Nodes(r, c) : f[i] = j
    OBVIOUS
  <2>1. j \in 1..Len(s) /\ s[j] = c /\ j # k
    BY DEF Nodes
  <2>2. CASE j < k
    <3>1. j \in 1..n /\ r[j] = c
      BY <1>1, <1>2, <2>1, <2>2
    <3>2. j \in Nodes(r, c)
      BY <1>3, <3>1 DEF Nodes
    <3> QED BY <2>2, <3>2
  <2>3. CASE j > k
    <3>1. j - 1 \in 1..n /\ r[j - 1] = c /\ ~(j - 1 < k) /\ (j - 1) + 1 = j
      BY <1>1, <1>2, <2>1, <2>3
    <3>2. j - 1 \in Nodes(r, c)
      BY <1>3, <3>1 DEF Nodes
    <3> QED BY <3>1, <3>2
  <2> QED BY <1>1, <2>1, <2>2, <2>3
<1>8. IsFiniteSet(Nodes(r, c))
  BY <1>3, NodesFinite
<1> HIDE DEF f
<1>9. Cardinality(Rest) = Cardinality(Nodes(r, c))
  <2>1. f \in Bijection(Nodes(r, c), Rest)
    BY <1>5, <1>6, <1>7 DEF Bijection, Injection, Surjection, IsInjective
  <2> QED BY <1>8, <2>1, FS_Bijection DEF ExistsBijection
<1>10. k \in Nodes(s, c) <=> x = c
  BY <1>1 DEF Nodes
<1>11. IsFiniteSet(Nodes(s, c)) /\ Cardinality(Nodes(s, c)) \in Nat
  BY NodesFinite
<1>12. Cardinality(Rest) = IF k \in Nodes(s, c) THEN Cardinality(Nodes(s, c)) - 1
                           ELSE Cardinality(Nodes(s, c))
  BY <1>11, FS_RemoveElement
<1> HIDE DEF Rest
<1> QED BY <1>3, <1>9, <1>10, <1>11, <1>12 DEF One, r
-----------------------------------------------------------------------------
(* The lock.                                                                *)

(* What fork and waitpid returned is a pid, as long as it is needed.        *)
ArgIsPid == \A p \in Pids, t \in AllThreads :
    pc[p][t] \in {"forked", "undoing", "reaped"} => arg[p][t] \in Pids

(* A process that ended has no thread; one that is new has one.             *)
Quiet == \A p \in Pids, t \in AllThreads : status[p] # "running" => pc[p][t] = "none"
NewAlone == \A p \in Pids, t \in AllThreads : pc[p][t] \in {"preparing", "spawning"} =>
    t # Sig /\ \A u \in AllThreads : u # t => pc[p][u] = "none"

(* A thread that exits has children to wait for, or none.                   *)
ExitList == \A p \in Pids, t \in AllThreads :
    /\ pc[p][t] = "reaping" => child_list[p] # <<>>
    /\ pc[p][t] = "freed" => child_list[p] = <<>>

LockInv == ArgIsPid /\ Quiet /\ NewAlone /\ LockUsable /\ ExitList

-----------------------------------------------------------------------------
(* The types.                                                               *)
LEMMA InitTypes == SysInit => STypeOK
  BY SysInputs DEF SysInit, STypeOK, AllThreads, Labels

(* One thread goes to another place.                                        *)
LEMMA GotoPlaces ==
    ASSUME STypeOK, NEW p \in Pids, NEW t \in AllThreads, NEW l \in Labels, Goto(p, t, l)
    PROVE  /\ pc' \in [Pids -> [AllThreads -> Labels]]
           /\ pc'[p][t] = l
           /\ \A q \in Pids, u \in AllThreads : q # p \/ u # t => pc'[q][u] = pc[q][u]
  BY DEF STypeOK, Goto

LEMMA ReapedTypes ==
    ASSUME STypeOK, NEW c \in Pids, Reaped(c) \/ UNCHANGED kernel
    PROVE  /\ status' \in [Pids -> {"none", "running", "zombie"}]
           /\ parent' \in [Pids -> Pids \cup {None}] /\ pending' \in [Pids -> BOOLEAN]
  BY DEF STypeOK, Reaped, kernel

LEMMA SigintTypes ==
    ASSUME STypeOK, NEW c, Sigint(c)
    PROVE  pending' \in [Pids -> BOOLEAN]
  BY DEF STypeOK, Sigint

LEMMA InFlightFinite ==
    ASSUME NEW p
    PROVE  IsFiniteSet(InFlight(p)) /\ Cardinality(InFlight(p)) \in Nat
<1>1. InFlight(p) \in SUBSET Threads
  BY DEF InFlight
<1> QED BY <1>1, SysInputs, FS_Subset, FS_CardinalityType

(* fork, waitpid and the list.                                              *)
LEMMA ChildTypes ==
    ASSUME STypeOK, LockInv, NEW p \in Pids, NEW t \in Threads,
           ForkStep(p, t) \/ WaitStep(p, t)
    PROVE  STypeOK'
<1>1. t \in AllThreads
  BY DEF AllThreads
<1>2. CASE ForkBegin(p, t)
  <2>1. Goto(p, t, "forking") /\ Lock(p, t) /\ UNCHANGED kernel /\ UNCHANGED state /\ UNCHANGED <<arg, forks>>
    BY <1>2 DEF ForkBegin
  <2>2. pc' \in [Pids -> [AllThreads -> Labels]]
    BY <1>1, <2>1, GotoPlaces DEF Labels, Inside
  <2> QED BY <1>1, <2>1, <2>2 DEF STypeOK, Lock, kernel, state
<1>3. CASE ForkFails(p, t)
  <2>1. Goto(p, t, "killing") /\ UNCHANGED kernel /\ UNCHANGED state /\ UNCHANGED <<owner, arg, forks>>
    BY <1>3 DEF ForkFails
  <2>2. pc' \in [Pids -> [AllThreads -> Labels]]
    BY <1>1, <2>1, GotoPlaces DEF Labels, Inside
  <2> QED BY <2>1, <2>2 DEF STypeOK, kernel, state
<1>4. CASE Push(p, t)
  <2>1. /\ Goto(p, t, "run") /\ UNCHANGED kernel /\ Unlock(p)
        /\ UNCHANGED <<malloc_count, signal_exit_flag, signal_exit_requested, heap,
                       stray, forks>>
        /\ child_list' = [child_list EXCEPT ![p] = <<arg[p][t]>> \o child_list[p]]
        /\ arg' = [arg EXCEPT ![p][t] = None]
    BY <1>4 DEF Push
  <2>2. pc' \in [Pids -> [AllThreads -> Labels]]
    BY <1>1, <2>1, GotoPlaces DEF Labels
  <2>3. arg[p][t] \in Pids /\ child_list[p] \in Seq(Pids)
    BY <1>1, <1>4 DEF STypeOK, LockInv, ArgIsPid, Push, At
  <2>4. child_list' \in [Pids -> Seq(Pids)]
    <3> DEFINE s == <<arg[p][t]>> \o child_list[p]
    <3>1. s \in Seq(Pids) /\ child_list' = [child_list EXCEPT ![p] = s]
      BY <2>1, <2>3, PushNodes
    <3> HIDE DEF s
    <3> QED BY <3>1 DEF STypeOK
  <2> QED BY <1>1, <2>1, <2>2, <2>4 DEF STypeOK, Unlock, kernel
<1>5. CASE PushFails(p, t)
  <2>1. /\ Goto(p, t, "undoing") /\ Sigint(arg[p][t]) /\ UNCHANGED <<status, parent>>
        /\ UNCHANGED state /\ UNCHANGED <<owner, arg, forks>>
    BY <1>5 DEF PushFails
  <2>2. pc' \in [Pids -> [AllThreads -> Labels]]
    BY <1>1, <2>1, GotoPlaces DEF Labels, Inside
  <2>3. pending' \in [Pids -> BOOLEAN]
    BY <2>1, SigintTypes
  <2> QED BY <2>1, <2>2, <2>3 DEF STypeOK, state
<1>6. CASE Undo(p, t)
  <2>1. /\ Goto(p, t, "killing") /\ (Reaped(arg[p][t]) \/ UNCHANGED kernel)
        /\ arg' = [arg EXCEPT ![p][t] = None] /\ UNCHANGED state /\ UNCHANGED <<owner, forks>>
    BY <1>6 DEF Undo, WaitReturns
  <2>2. pc' \in [Pids -> [AllThreads -> Labels]]
    BY <1>1, <2>1, GotoPlaces DEF Labels, Inside
  <2>3. arg[p][t] \in Pids
    BY <1>1, <1>6 DEF LockInv, ArgIsPid, Undo, At
  <2>4. /\ status' \in [Pids -> {"none", "running", "zombie"}]
        /\ parent' \in [Pids -> Pids \cup {None}] /\ pending' \in [Pids -> BOOLEAN]
    BY <2>1, <2>3, ReapedTypes
  <2> QED BY <1>1, <2>1, <2>2, <2>4 DEF STypeOK, state
<1>7. CASE PrepareFromChild(p, t)
  <2>1. /\ Goto(p, t, "spawning") /\ child_list' = [child_list EXCEPT ![p] = <<>>] /\ Unlock(p)
        /\ UNCHANGED kernel /\ UNCHANGED <<malloc_count, signal_exit_flag, signal_exit_requested, heap, stray>>
        /\ UNCHANGED <<arg, forks>>
    BY <1>7 DEF PrepareFromChild
  <2>2. pc' \in [Pids -> [AllThreads -> Labels]]
    BY <1>1, <2>1, GotoPlaces DEF Labels
  <2>3. child_list' \in [Pids -> Seq(Pids)]
    <3>1. <<>> \in Seq(Pids)
      OBVIOUS
    <3> QED BY <2>1, <3>1 DEF STypeOK
  <2> QED BY <2>1, <2>2, <2>3 DEF STypeOK, Unlock, kernel
<1>8. CASE SpawnSigThread(p, t)
  <2>1. pc' \in [Pids -> [AllThreads -> Labels]]
    BY <1>1, <1>8 DEF SpawnSigThread, STypeOK, Labels, AllThreads
  <2> QED BY <1>8, <2>1 DEF SpawnSigThread, STypeOK, kernel, state
<1>12. CASE SpawnFails(p, t)
  <2>1. Goto(p, t, "killing") /\ Lock(p, t) /\ UNCHANGED kernel /\ UNCHANGED state
        /\ UNCHANGED <<arg, forks>>
    BY <1>12 DEF SpawnFails
  <2>2. pc' \in [Pids -> [AllThreads -> Labels]]
    BY <1>1, <2>1, GotoPlaces DEF Labels, Inside
  <2> QED BY <1>1, <2>1, <2>2 DEF STypeOK, Lock, kernel, state
<1>9. ASSUME NEW c \in Pids, Fork(p, t, c) PROVE STypeOK'
  <2>1. /\ status' = [status EXCEPT ![c] = "running"] /\ parent' = [parent EXCEPT ![c] = p]
        /\ pending' = [pending EXCEPT ![c] = FALSE]
        /\ owner' = [owner EXCEPT ![c] = owner[p]]
        /\ child_list' = [child_list EXCEPT ![c] = child_list[p]]
        /\ malloc_count' = [malloc_count EXCEPT ![c] = malloc_count[p]]
        /\ signal_exit_flag' = [signal_exit_flag EXCEPT ![c] = signal_exit_flag[p]]
        /\ signal_exit_requested' = [signal_exit_requested EXCEPT ![c] = signal_exit_requested[p]]
        /\ heap' = [heap EXCEPT ![c] = heap[p]]
        /\ stray' = [stray EXCEPT ![c] = stray[p] + Cardinality(InFlight(p))]
        /\ forks' = forks + 1
    BY <1>9 DEF Fork, Copy
  <2>2. pc' \in [Pids -> [AllThreads -> Labels]]
    <3> DEFINE new == [u \in AllThreads |-> IF u = t THEN "preparing" ELSE "none"]
               old == [pc EXCEPT ![p][t] = "forked"]
    <3>1. new \in [AllThreads -> Labels]
      BY DEF Labels, Inside
    <3>2. old \in [Pids -> [AllThreads -> Labels]]
      BY <1>1 DEF STypeOK, Labels, Inside
    <3>3. pc' = [old EXCEPT ![c] = new]
      BY <1>9 DEF Fork
    <3> HIDE DEF new, old
    <3> QED BY <3>1, <3>2, <3>3
  <2>3. arg' \in [Pids -> [AllThreads -> Pids \cup {None}]]
    <3> DEFINE new == [u \in AllThreads |-> None]
               old == [arg EXCEPT ![p][t] = c]
    <3>1. new \in [AllThreads -> Pids \cup {None}]
      OBVIOUS
    <3>2. old \in [Pids -> [AllThreads -> Pids \cup {None}]]
      BY <1>1 DEF STypeOK
    <3>3. arg' = [old EXCEPT ![c] = new]
      BY <1>9 DEF Fork
    <3> HIDE DEF new, old
    <3> QED BY <3>1, <3>2, <3>3
  <2>4. /\ status' \in [Pids -> {"none", "running", "zombie"}]
        /\ parent' \in [Pids -> Pids \cup {None}] /\ pending' \in [Pids -> BOOLEAN]
        /\ owner' \in [Pids -> AllThreads \cup {None}] /\ forks' \in Nat
    BY <2>1 DEF STypeOK
  <2>5. child_list' \in [Pids -> Seq(Pids)] /\ malloc_count' \in [Pids -> 0..CountMax]
    BY <2>1 DEF STypeOK
  <2>6. /\ signal_exit_flag' \in [Pids -> BOOLEAN] /\ signal_exit_requested' \in [Pids -> BOOLEAN]
        /\ heap' \in [Pids -> Nat] /\ stray' \in [Pids -> Nat]
    BY <2>1, InFlightFinite DEF STypeOK
  <2> QED BY <2>2, <2>3, <2>4, <2>5, <2>6 DEF STypeOK
<1>10. ASSUME NEW c \in Pids, Waitpid(p, t, c) PROVE STypeOK'
  <2>1. Goto(p, t, "reaped") /\ Reaped(c) /\ arg' = [arg EXCEPT ![p][t] = c] /\ UNCHANGED state
        /\ UNCHANGED <<owner, forks>>
    BY <1>10 DEF Waitpid
  <2>2. pc' \in [Pids -> [AllThreads -> Labels]]
    BY <1>1, <2>1, GotoPlaces DEF Labels
  <2>3. /\ status' \in [Pids -> {"none", "running", "zombie"}]
        /\ parent' \in [Pids -> Pids \cup {None}] /\ pending' \in [Pids -> BOOLEAN]
    BY <2>1, ReapedTypes
  <2> QED BY <1>1, <2>1, <2>2, <2>3 DEF STypeOK, state
<1>11. CASE Unlist(p, t)
  <2>1. /\ arg' = [arg EXCEPT ![p][t] = None] /\ UNCHANGED kernel
        /\ UNCHANGED <<malloc_count, signal_exit_flag, signal_exit_requested, heap,
                       stray, forks>>
    BY <1>11 DEF Unlist
  <2>2. CASE Listed(p, arg[p][t])
    <3> DEFINE s == Without(child_list[p], arg[p][t])
    <3>1. Goto(p, t, "run") /\ UNCHANGED owner /\ child_list' = [child_list EXCEPT ![p] = s]
      BY <1>11, <2>2 DEF Unlist
    <3>2. pc' \in [Pids -> [AllThreads -> Labels]]
      BY <1>1, <3>1, GotoPlaces DEF Labels
    <3>3. child_list[p] \in Seq(Pids) /\ Nodes(child_list[p], arg[p][t]) # {}
      BY <2>2 DEF STypeOK, Nodes, Listed
    <3>4. s \in Seq(Pids)
      BY <3>3, WithoutNodes
    <3> HIDE DEF s
    <3> QED BY <1>1, <2>1, <3>1, <3>2, <3>4 DEF STypeOK, kernel
  <2>3. CASE ~Listed(p, arg[p][t])
    <3>1. Goto(p, t, "killing") /\ owner' = [owner EXCEPT ![p] = t] /\ UNCHANGED child_list
      BY <1>11, <2>3 DEF Unlist
    <3>2. pc' \in [Pids -> [AllThreads -> Labels]]
      BY <1>1, <3>1, GotoPlaces DEF Labels, Inside
    <3> QED BY <1>1, <2>1, <3>1, <3>2 DEF STypeOK, kernel
  <2> QED BY <2>2, <2>3
<1> QED BY <1>2, <1>3, <1>4, <1>5, <1>6, <1>7, <1>8, <1>9, <1>10, <1>11, <1>12 DEF ForkStep, WaitStep

(* exit.                                                                    *)
LEMMA ExitTypes ==
    ASSUME STypeOK, LockInv, NEW p \in Pids, NEW t \in AllThreads, ExitStep(p, t)
    PROVE  STypeOK'
<1>1. CASE Kill(p, t)
  <2>1. /\ Goto(p, t, "reaping") /\ Sigint(Head(child_list[p])) /\ UNCHANGED <<status,
                                                                               parent>>
        /\ UNCHANGED state /\ UNCHANGED <<owner, arg, forks>>
    BY <1>1 DEF Kill
  <2>2. pc' \in [Pids -> [AllThreads -> Labels]]
    BY <2>1, GotoPlaces DEF Labels, Inside
  <2>3. pending' \in [Pids -> BOOLEAN]
    BY <2>1, SigintTypes
  <2> QED BY <2>1, <2>2, <2>3 DEF STypeOK, state
<1>2. CASE Reap(p, t)
  <2> DEFINE h == Head(child_list[p])
             s == Tail(child_list[p])
  <2>1. /\ Goto(p, t, "killing") /\ (Reaped(h) \/ UNCHANGED kernel)
        /\ child_list' = [child_list EXCEPT ![p] = s]
        /\ UNCHANGED <<owner, malloc_count, signal_exit_flag, signal_exit_requested,
                       heap, stray, arg, forks>>
    BY <1>2 DEF Reap, WaitReturns
  <2>2. pc' \in [Pids -> [AllThreads -> Labels]]
    BY <2>1, GotoPlaces DEF Labels, Inside
  <2>3. h \in Pids /\ s \in Seq(Pids)
    <3>1. child_list[p] \in Seq(Pids) /\ child_list[p] # <<>>
      BY <1>2 DEF STypeOK, LockInv, ExitList, Reap, At
    <3> QED BY <3>1, HeadTailProperties
  <2> HIDE DEF h, s
  <2>4. /\ status' \in [Pids -> {"none", "running", "zombie"}]
        /\ parent' \in [Pids -> Pids \cup {None}] /\ pending' \in [Pids -> BOOLEAN]
    BY <2>1, <2>3, ReapedTypes
  <2> QED BY <2>1, <2>2, <2>3, <2>4 DEF STypeOK
<1>3. CASE FreeState(p, t)
  <2>1. Goto(p, t, "freed") /\ UNCHANGED kernel /\ UNCHANGED state /\ UNCHANGED <<owner, arg, forks>>
    BY <1>3 DEF FreeState
  <2>2. pc' \in [Pids -> [AllThreads -> Labels]]
    BY <2>1, GotoPlaces DEF Labels, Inside
  <2> QED BY <2>1, <2>2 DEF STypeOK, kernel, state
<1>4. CASE Exit(p, t)
  <2>1. <<>> \in Seq(Pids) /\ 0 \in 0..CountMax /\ 0 \in Nat
    BY SysInputs
  <2>2. status' \in [Pids -> {"none", "running", "zombie"}] /\ parent' \in [Pids -> Pids \cup {None}]
    BY <1>4 DEF Exit, STypeOK
  <2>3. pc' \in [Pids -> [AllThreads -> Labels]] /\ arg' \in [Pids -> [AllThreads -> Pids \cup {None}]]
    <3>1. [u \in AllThreads |-> "none"] \in [AllThreads -> Labels]
          /\ [u \in AllThreads |-> None] \in [AllThreads -> Pids \cup {None}]
      BY DEF Labels
    <3> QED BY <1>4, <3>1 DEF Exit, STypeOK
  <2> QED BY <1>4, <2>1, <2>2, <2>3 DEF Exit, STypeOK, Unlock
<1> QED BY <1>1, <1>2, <1>3, <1>4 DEF ExitStep

(* The program, its blocks and the signal thread.                           *)
LEMMA FatalTypes ==
    ASSUME STypeOK, NEW p \in Pids, NEW t \in AllThreads, FatalInside(p, t)
    PROVE  /\ owner' \in [Pids -> AllThreads \cup {None}]
           /\ pc' \in [Pids -> [AllThreads -> Labels]]
           /\ UNCHANGED malloc_count
<1>1. pc' \in [Pids -> [AllThreads -> Labels]]
  BY GotoPlaces DEF FatalInside, Labels, Inside
<1> QED BY <1>1 DEF FatalInside, STypeOK

LEMMA SafeExitTypes ==
    ASSUME STypeOK, NEW p \in Pids, NEW t \in AllThreads, SafeExit(p, t)
    PROVE  STypeOK'
<1>1. /\ Goto(p, t, "killing") /\ owner' = [owner EXCEPT ![p] = t]
      /\ UNCHANGED kernel /\ UNCHANGED state /\ UNCHANGED <<arg, forks>>
  BY DEF SafeExit, Lock
<1>2. pc' \in [Pids -> [AllThreads -> Labels]]
  BY <1>1, GotoPlaces DEF Labels, Inside
<1> QED BY <1>1, <1>2 DEF STypeOK, kernel, state

LEMMA UserTypes ==
    ASSUME STypeOK, BlocksCounted, NEW p \in Pids, NEW t \in Threads, UserStep(p, t)
    PROVE  STypeOK'
<1> t \in AllThreads
  BY DEF AllThreads
<1>1. CASE SafeExit(p, t)
  BY <1>1, SafeExitTypes
<1>2. CASE StartThread(p, t)
  <2>1. Goto(p, t, "run") /\ UNCHANGED kernel /\ UNCHANGED state /\ UNCHANGED <<owner, arg, forks>>
    BY <1>2 DEF StartThread
  <2>2. pc' \in [Pids -> [AllThreads -> Labels]]
    BY <2>1, GotoPlaces DEF Labels
  <2> QED BY <2>1, <2>2 DEF STypeOK, kernel, state
<1>3. CASE SetSigExit(p, t)
  BY <1>3 DEF SetSigExit, STypeOK, kernel
<1>4. CASE Malloc(p, t)
  <2>1. /\ Goto(p, t, "counting") /\ heap' = [heap EXCEPT ![p] = @ + 1] /\ UNCHANGED kernel
        /\ UNCHANGED <<owner, child_list, malloc_count, stray, signal_exit_flag,
                       signal_exit_requested, arg, forks>>
    BY <1>4 DEF Malloc
  <2>2. pc' \in [Pids -> [AllThreads -> Labels]]
    BY <2>1, GotoPlaces DEF Labels
  <2>3. heap' \in [Pids -> Nat]
    BY <2>1 DEF STypeOK
  <2> QED BY <2>1, <2>2, <2>3 DEF STypeOK, kernel
<1>5. CASE Count(p, t)
  <2>1. /\ UNCHANGED kernel
        /\ UNCHANGED <<child_list, heap, signal_exit_flag, signal_exit_requested, arg,
                       forks>>
    BY <1>5 DEF Count
  <2>2. CASE malloc_count[p] = CountMax
    <3>1. FatalInside(p, t) /\ stray' = [stray EXCEPT ![p] = @ + 1]
      BY <1>5, <2>2 DEF Count
    <3>2. stray' \in [Pids -> Nat]
      BY <3>1 DEF STypeOK
    <3> QED BY <2>1, <3>1, <3>2, FatalTypes DEF STypeOK, kernel
  <2>3. CASE malloc_count[p] # CountMax
    <3>1. /\ malloc_count' = [malloc_count EXCEPT ![p] = @ + 1] /\ Goto(p, t, "run")
          /\ UNCHANGED <<owner, stray>>
      BY <1>5, <2>3 DEF Count
    <3>2. malloc_count' \in [Pids -> 0..CountMax]
      BY <2>3, <3>1, SysInputs DEF STypeOK
    <3>3. pc' \in [Pids -> [AllThreads -> Labels]]
      BY <3>1, GotoPlaces DEF Labels
    <3> QED BY <2>1, <3>1, <3>2, <3>3 DEF STypeOK, kernel
  <2> QED BY <2>2, <2>3
<1>6. CASE Uncount(p, t)
  <2>1. /\ UNCHANGED kernel
        /\ UNCHANGED <<child_list, heap, stray, signal_exit_flag, signal_exit_requested,
                       arg, forks>>
    BY <1>6 DEF Uncount
  <2>2. CASE malloc_count[p] = 0
    <3>1. FatalInside(p, t)
      BY <1>6, <2>2 DEF Uncount
    <3> QED BY <2>1, <3>1, FatalTypes DEF STypeOK, kernel
  <2>3. CASE malloc_count[p] # 0
    <3>1. /\ malloc_count' = [malloc_count EXCEPT ![p] = @ - 1] /\ Goto(p, t, "freeing")
          /\ UNCHANGED owner
      BY <1>6, <2>3 DEF Uncount
    <3>2. malloc_count' \in [Pids -> 0..CountMax]
      BY <2>3, <3>1, SysInputs DEF STypeOK
    <3>3. pc' \in [Pids -> [AllThreads -> Labels]]
      BY <3>1, GotoPlaces DEF Labels
    <3> QED BY <2>1, <3>1, <3>2, <3>3 DEF STypeOK, kernel
  <2> QED BY <2>2, <2>3
<1>7. CASE Free(p, t)
  <2>1. /\ Goto(p, t, "run") /\ heap' = [heap EXCEPT ![p] = @ - 1] /\ UNCHANGED kernel
        /\ UNCHANGED <<owner, child_list, malloc_count, stray, signal_exit_flag,
                       signal_exit_requested, arg, forks>>
    BY <1>7 DEF Free
  <2>2. pc' \in [Pids -> [AllThreads -> Labels]]
    BY <2>1, GotoPlaces DEF Labels
  <2>3. heap[p] - 1 \in Nat
    <3>1. t \in InFlight(p)
      BY <1>7 DEF Free, At, InFlight
    <3>2. Cardinality(InFlight(p)) \in Nat /\ Cardinality(InFlight(p)) # 0
      BY <3>1, InFlightFinite, FS_EmptySet
    <3> QED BY <3>2 DEF BlocksCounted, STypeOK
  <2>4. heap' \in [Pids -> Nat]
    BY <2>1, <2>3 DEF STypeOK
  <2> QED BY <2>1, <2>2, <2>4 DEF STypeOK, kernel
<1> QED BY <1>1, <1>2, <1>3, <1>4, <1>5, <1>6, <1>7 DEF UserStep

LEMMA SigTypes ==
    ASSUME STypeOK, NEW p \in Pids, SigStep(p) \/ Interrupt(p)
    PROVE  STypeOK'
<1>1. Sig \in AllThreads
  BY DEF AllThreads
<1>2. CASE SigWait(p)
  <2>1. /\ Goto(p, Sig, "signalled") /\ pending' = [pending EXCEPT ![p] = FALSE]
        /\ UNCHANGED <<status, parent>> /\ UNCHANGED state /\ UNCHANGED <<owner, arg, forks>>
    BY <1>2 DEF SigWait
  <2>2. pc' \in [Pids -> [AllThreads -> Labels]]
    BY <1>1, <2>1, GotoPlaces DEF Labels
  <2> QED BY <2>1, <2>2 DEF STypeOK, state
<1>3. CASE SigRequest(p)
  <2>1. /\ signal_exit_requested' = [signal_exit_requested EXCEPT ![p] = TRUE] /\ UNCHANGED kernel
        /\ UNCHANGED <<owner, child_list, malloc_count, signal_exit_flag, heap, stray,
                       arg, forks>>
    BY <1>3 DEF SigRequest
  <2>2. pc' \in [Pids -> [AllThreads -> Labels]]
    <3> DEFINE l == IF signal_exit_flag[p] THEN "routine" ELSE "none"
    <3>1. Goto(p, Sig, l) /\ l \in Labels
      BY <1>3 DEF SigRequest, Labels
    <3> HIDE DEF l
    <3> QED BY <1>1, <3>1, GotoPlaces
  <2> QED BY <2>1, <2>2 DEF STypeOK, kernel
<1>4. CASE SafeExit(p, Sig)
  BY <1>1, <1>4, SafeExitTypes
<1>5. CASE Interrupt(p)
  <2>1. Sigint(p) /\ UNCHANGED <<status, parent>> /\ UNCHANGED state /\ UNCHANGED <<owner, pc, arg, forks>>
    BY <1>5 DEF Interrupt
  <2> QED BY <2>1, SigintTypes DEF STypeOK, state
<1> QED BY <1>2, <1>3, <1>4, <1>5 DEF SigStep

-----------------------------------------------------------------------------
(* The lock is taken and released with the section.                         *)

(* One thread goes on, and the mutex goes with it.                          *)
OwnerMoves(p, t, l) ==
    \/ UNCHANGED owner /\ (pc[p][t] \in Inside <=> l \in Inside)
    \/ owner[p] \in {None, t} /\ owner' = [owner EXCEPT ![p] = t] /\ l \in Inside
    \/ pc[p][t] \in Inside /\ owner' = [owner EXCEPT ![p] = None] /\ l \notin Inside

(* What it leaves behind: its own pid, and the list as the others need it.  *)
Moves(p, t, l) ==
    /\ pc[p][t] # "none" /\ Goto(p, t, l) /\ OwnerMoves(p, t, l)
    /\ status[p] = "running"
    /\ \A q \in Pids : status'[q] = "running" <=> status[q] = "running"
    /\ l # "preparing" /\ (l = "spawning" => pc[p][t] = "preparing")
    /\ \A q \in Pids, u \in AllThreads : q # p \/ u # t => arg'[q][u] = arg[q][u]
    /\ l \in {"forked", "undoing", "reaped"} => arg'[p][t] \in Pids
    /\ \A q \in Pids : q # p => child_list'[q] = child_list[q]
    /\ child_list'[p] = child_list[p] \/ owner[p] \in {None, t}
    /\ l = "reaping" => child_list'[p] # <<>>
    /\ l = "freed" => child_list'[p] = <<>>

LEMMA MoveKeepsLock ==
    ASSUME STypeOK, LockInv, NEW p \in Pids, NEW t \in AllThreads, NEW l \in Labels, Moves(p, t, l)
    PROVE  LockInv'
<1>1. /\ pc'[p][t] = l
      /\ \A q \in Pids, u \in AllThreads : q # p \/ u # t => pc'[q][u] = pc[q][u]
  BY GotoPlaces DEF Moves
<1>2. ArgIsPid'
  BY <1>1 DEF Moves, LockInv, ArgIsPid
<1>3. Quiet'
  BY <1>1 DEF Moves, LockInv, Quiet
<1>4. NewAlone'
  BY <1>1 DEF Moves, LockInv, NewAlone
<1>5. None \notin AllThreads
  BY SysInputs DEF AllThreads
<1>6. LockUsable'
  <2> SUFFICES ASSUME NEW q \in Pids, NEW u \in AllThreads
               PROVE  owner'[q] = u <=> pc'[q][u] \in Inside
    BY DEF LockUsable
  <2>1. \A v \in AllThreads : owner[q] = v <=> pc[q][v] \in Inside
    BY DEF LockInv, LockUsable
  <2>2. OwnerMoves(p, t, l) /\ owner \in [Pids -> AllThreads \cup {None}]
    BY DEF Moves, STypeOK
  <2>3. CASE q # p
    <3>1. owner'[q] = owner[q]
      BY <2>2, <2>3 DEF OwnerMoves
    <3> QED BY <1>1, <2>1, <2>3, <3>1
  <2>4. CASE q = p /\ u = t
    BY <1>1, <1>5, <2>1, <2>2, <2>4 DEF OwnerMoves
  <2>5. CASE q = p /\ u # t
    <3>1. owner'[p] = u <=> owner[p] = u
      BY <1>5, <2>1, <2>2, <2>5 DEF OwnerMoves
    <3> QED BY <1>1, <2>1, <2>5, <3>1
  <2> QED BY <2>3, <2>4, <2>5
<1>7. ExitList'
  <2> SUFFICES ASSUME NEW q \in Pids, NEW u \in AllThreads
               PROVE  /\ pc'[q][u] = "reaping" => child_list'[q] # <<>>
                      /\ pc'[q][u] = "freed" => child_list'[q] = <<>>
    BY DEF ExitList
  <2>1. /\ pc[q][u] = "reaping" => child_list[q] # <<>>
        /\ pc[q][u] = "freed" => child_list[q] = <<>>
        /\ owner[q] = u <=> pc[q][u] \in Inside
    BY DEF LockInv, ExitList, LockUsable
  <2>2. CASE q # p
    BY <1>1, <2>1, <2>2 DEF Moves
  <2>3. CASE q = p /\ u = t
    BY <1>1, <2>3 DEF Moves
  <2>4. CASE q = p /\ u # t
    <3>1. pc[p][u] \in {"reaping", "freed"} => owner[p] = u
      BY <2>1, <2>4 DEF Inside
    <3> QED BY <1>1, <1>5, <2>1, <2>4, <3>1 DEF Moves
  <2> QED BY <2>2, <2>3, <2>4
<1> QED BY <1>2, <1>3, <1>4, <1>6, <1>7 DEF LockInv

(* Nothing moves.                                                           *)
LEMMA StillKeepsLock ==
    ASSUME LockInv, UNCHANGED <<status, owner, child_list, pc, arg>>
    PROVE  LockInv'
  BY DEF LockInv, ArgIsPid, Quiet, NewAlone, LockUsable, ExitList

(* A fork: the parent goes on, and the child has a copy of its mutex.       *)
LEMMA ForkKeepsLock ==
    ASSUME STypeOK, LockInv, NEW p \in Pids, NEW t \in Threads, NEW c \in Pids, Fork(p, t, c)
    PROVE  LockInv'
<1>1. t \in AllThreads /\ t # Sig /\ None \notin AllThreads
  BY SysInputs DEF AllThreads
<1>2. c # p /\ status[c] # "running" /\ status[p] = "running" /\ pc[p][t] = "forking"
  BY DEF Fork, At
<1>3. /\ pc'[p][t] = "forked"
      /\ \A u \in AllThreads : pc'[c][u] = IF u = t THEN "preparing" ELSE "none"
      /\ \A q \in Pids, u \in AllThreads : q # c /\ (q # p \/ u # t) => pc'[q][u] = pc[q][u]
  <2>1. pc' = [pc EXCEPT ![p][t] = "forked",
                         ![c] = [u \in AllThreads |-> IF u = t THEN "preparing" ELSE "none"]]
    BY DEF Fork
  <2>2. pc \in [Pids -> [AllThreads -> Labels]]
    BY DEF STypeOK
  <2> QED BY <1>1, <1>2, <2>1, <2>2
<1>4. /\ arg'[p][t] = c
      /\ \A q \in Pids, u \in AllThreads : q # c /\ (q # p \/ u # t) => arg'[q][u] = arg[q][u]
  <2>1. arg' = [arg EXCEPT ![p][t] = c, ![c] = [u \in AllThreads |-> None]]
    BY DEF Fork
  <2>2. arg \in [Pids -> [AllThreads -> Pids \cup {None}]]
    BY DEF STypeOK
  <2> QED BY <1>1, <1>2, <2>1, <2>2
<1>5. /\ status'[c] = "running" /\ \A q \in Pids : q # c => status'[q] = status[q]
      /\ owner'[c] = owner[p] /\ \A q \in Pids : q # c => owner'[q] = owner[q]
      /\ \A q \in Pids : q # c => child_list'[q] = child_list[q]
  BY DEF Fork, Copy, STypeOK
<1>6. owner[p] = t
  BY <1>1, <1>2 DEF LockInv, LockUsable, Inside
<1>7. ArgIsPid'
  BY <1>3, <1>4 DEF LockInv, ArgIsPid
<1>8. Quiet'
  BY <1>2, <1>3, <1>5 DEF LockInv, Quiet
<1>9. NewAlone'
  BY <1>1, <1>2, <1>3 DEF LockInv, NewAlone
<1>10. LockUsable'
  <2> SUFFICES ASSUME NEW q \in Pids, NEW u \in AllThreads
               PROVE  owner'[q] = u <=> pc'[q][u] \in Inside
    BY DEF LockUsable
  <2>1. CASE q = c
    BY <1>1, <1>3, <1>5, <1>6, <2>1 DEF Inside
  <2>2. CASE q # c
    BY <1>2, <1>3, <1>5, <2>2 DEF LockInv, LockUsable, Inside
  <2> QED BY <2>1, <2>2
<1>11. ExitList'
  BY <1>3, <1>5 DEF LockInv, ExitList
<1> QED BY <1>7, <1>8, <1>9, <1>10, <1>11 DEF LockInv

(* A new child starts its signal thread, outside of the lock.               *)
LEMMA SpawnKeepsLock ==
    ASSUME STypeOK, LockInv, NEW p \in Pids, NEW t \in Threads, SpawnSigThread(p, t)
    PROVE  LockInv'
<1>1. t \in AllThreads /\ Sig \in AllThreads /\ t # Sig
  BY SysInputs DEF AllThreads
<1>2. /\ pc'[p][t] = "run" /\ pc'[p][Sig] = "sigwait"
      /\ \A q \in Pids, u \in AllThreads : q # p \/ u \notin {t, Sig} => pc'[q][u] = pc[q][u]
  <2>1. pc' = [pc EXCEPT ![p][t] = "run", ![p][Sig] = "sigwait"]
    BY DEF SpawnSigThread
  <2> QED BY <1>1, <2>1 DEF STypeOK
<1>3. /\ status[p] = "running" /\ pc[p][t] = "spawning" /\ pc[p][Sig] = "none"
      /\ UNCHANGED <<owner, arg, child_list, status>>
  BY <1>1 DEF SpawnSigThread, At, LockInv, NewAlone, kernel, state
<1>4. ArgIsPid' /\ Quiet' /\ ExitList'
  BY <1>1, <1>2, <1>3 DEF LockInv, ArgIsPid, Quiet, ExitList
<1>5. NewAlone'
  BY <1>1, <1>2, <1>3 DEF LockInv, NewAlone
<1>6. LockUsable'
  BY <1>1, <1>2, <1>3 DEF LockInv, LockUsable, Inside
<1> QED BY <1>4, <1>5, <1>6 DEF LockInv

(* A thread starts.                                                         *)
LEMMA StartKeepsLock ==
    ASSUME STypeOK, LockInv, NEW p \in Pids, NEW t \in Threads, StartThread(p, t)
    PROVE  LockInv'
<1>1. t \in AllThreads /\ Threads \subseteq AllThreads
  BY DEF AllThreads
<1>2. /\ pc'[p][t] = "run" /\ \A q \in Pids, u \in AllThreads : q # p \/ u # t => pc'[q][u] = pc[q][u]
  BY <1>1, GotoPlaces DEF StartThread, Labels
<1>3. /\ status[p] = "running" /\ pc[p][t] = "none" /\ \E u \in Threads : pc[p][u] = "run"
      /\ UNCHANGED <<owner, arg, child_list, status>>
  BY DEF StartThread, At, kernel, state
<1>4. ArgIsPid' /\ Quiet' /\ ExitList'
  BY <1>2, <1>3 DEF LockInv, ArgIsPid, Quiet, ExitList
<1>5. NewAlone'
  <2>1. \A u \in AllThreads : pc[p][u] \notin {"preparing", "spawning"}
    BY <1>1, <1>3 DEF LockInv, NewAlone
  <2> QED BY <1>1, <1>2, <2>1 DEF LockInv, NewAlone
<1>6. LockUsable'
  BY <1>1, <1>2, <1>3 DEF LockInv, LockUsable, Inside
<1> QED BY <1>4, <1>5, <1>6 DEF LockInv

(* A process ends with all its threads.                                     *)
LEMMA ExitKeepsLock ==
    ASSUME STypeOK, LockInv, NEW p \in Pids, NEW t \in AllThreads, Exit(p, t)
    PROVE  LockInv'
<1>1. None \notin AllThreads
  BY SysInputs DEF AllThreads
<1>2. /\ \A u \in AllThreads : pc'[p][u] = "none"
      /\ \A q \in Pids, u \in AllThreads : q # p => pc'[q][u] = pc[q][u] /\ arg'[q][u] = arg[q][u]
  BY DEF Exit, STypeOK
<1>3. /\ owner'[p] = None
      /\ \A q \in Pids : q # p => owner'[q] = owner[q] /\ child_list'[q] = child_list[q]
      /\ \A q \in Pids : q # p /\ status'[q] # "running" => status[q] # "running"
  BY DEF Exit, Unlock, STypeOK
<1>4. ArgIsPid' /\ ExitList'
  BY <1>2, <1>3 DEF LockInv, ArgIsPid, ExitList
<1>5. Quiet' /\ NewAlone'
  BY <1>2, <1>3 DEF LockInv, Quiet, NewAlone
<1>6. LockUsable'
  BY <1>1, <1>2, <1>3 DEF LockInv, LockUsable, Inside
<1> QED BY <1>4, <1>5, <1>6 DEF LockInv

(* Every other step of fork, wait, exit and the signal thread is a move.    *)
LEMMA ForkWaitKeepsLock ==
    ASSUME STypeOK, LockInv, NEW p \in Pids, NEW t \in Threads,
           ForkStep(p, t) \/ WaitStep(p, t)
    PROVE  LockInv'
<1>1. t \in AllThreads /\ child_list \in [Pids -> Seq(Pids)]
  BY DEF AllThreads, STypeOK
<1> USE DEF Moves, OwnerMoves, At, Inside
<1>2. CASE ForkBegin(p, t)
  <2>1. Moves(p, t, "forking") /\ "forking" \in Labels
    BY <1>2 DEF ForkBegin, Lock, kernel, state, Labels
  <2> QED BY <1>1, <2>1, MoveKeepsLock
<1>3. CASE ForkFails(p, t)
  <2>1. Moves(p, t, "killing") /\ "killing" \in Labels
    BY <1>3 DEF ForkFails, kernel, state, Labels
  <2> QED BY <1>1, <2>1, MoveKeepsLock
<1>4. CASE Push(p, t)
  <2>1. owner[p] = t
    BY <1>1, <1>4 DEF Push, LockInv, LockUsable
  <2>2. /\ UNCHANGED kernel /\ Goto(p, t, "run") /\ Unlock(p)
        /\ arg' = [arg EXCEPT ![p][t] = None]
        /\ \A q \in Pids : q # p => child_list'[q] = child_list[q]
    BY <1>1, <1>4 DEF Push
  <2>3. Moves(p, t, "run") /\ "run" \in Labels
    BY <1>1, <1>4, <2>1, <2>2 DEF Push, Unlock, kernel, Labels, STypeOK
  <2> QED BY <1>1, <2>3, MoveKeepsLock
<1>5. CASE PushFails(p, t)
  <2>1. Moves(p, t, "undoing") /\ "undoing" \in Labels
    BY <1>1, <1>5 DEF PushFails, state, Labels, LockInv, ArgIsPid
  <2> QED BY <1>1, <2>1, MoveKeepsLock
<1>6. CASE Undo(p, t)
  <2>1. \A q \in Pids : status'[q] = "running" <=> status[q] = "running"
    BY <1>1, <1>6 DEF Undo, WaitReturns, Reaped, kernel, STypeOK
  <2>2. Moves(p, t, "killing") /\ "killing" \in Labels
    BY <1>1, <1>6, <2>1 DEF Undo, state, Labels, STypeOK
  <2> QED BY <1>1, <2>2, MoveKeepsLock
<1>7. CASE PrepareFromChild(p, t)
  <2>1. owner[p] = t
    BY <1>1, <1>7 DEF PrepareFromChild, LockInv, LockUsable
  <2>2. Moves(p, t, "spawning") /\ "spawning" \in Labels
    BY <1>1, <1>7, <2>1 DEF PrepareFromChild, Unlock, kernel, Labels
  <2> QED BY <1>1, <2>2, MoveKeepsLock
<1>8. CASE SpawnSigThread(p, t)
  BY <1>8, SpawnKeepsLock
<1>9. ASSUME NEW c \in Pids, Fork(p, t, c) PROVE LockInv'
  BY <1>9, ForkKeepsLock
<1>10. ASSUME NEW c \in Pids, Waitpid(p, t, c) PROVE LockInv'
  <2>1. \A q \in Pids : status'[q] = "running" <=> status[q] = "running"
    BY <1>10 DEF Waitpid, Reaped, STypeOK
  <2>2. Moves(p, t, "reaped") /\ "reaped" \in Labels
    BY <1>1, <1>10, <2>1 DEF Waitpid, state, Labels, STypeOK
  <2> QED BY <1>1, <2>2, MoveKeepsLock
<1>11. CASE Unlist(p, t)
  <2>1. /\ At(p, t, "reaped") /\ owner[p] = None /\ UNCHANGED kernel
        /\ arg' = [arg EXCEPT ![p][t] = None]
    BY <1>11 DEF Unlist
  <2>2. CASE Listed(p, arg[p][t])
    <3>1. /\ Goto(p, t, "run") /\ UNCHANGED owner
          /\ \A q \in Pids : q # p => child_list'[q] = child_list[q]
      BY <1>1, <1>11, <2>2 DEF Unlist
    <3>2. Moves(p, t, "run") /\ "run" \in Labels
      BY <1>1, <2>1, <3>1 DEF kernel, Labels, STypeOK
    <3> QED BY <1>1, <3>2, MoveKeepsLock
  <2>3. CASE ~Listed(p, arg[p][t])
    <3>1. /\ Goto(p, t, "killing") /\ owner' = [owner EXCEPT ![p] = t]
          /\ UNCHANGED child_list
      BY <1>11, <2>3 DEF Unlist
    <3>2. Moves(p, t, "killing") /\ "killing" \in Labels
      BY <1>1, <2>1, <3>1 DEF kernel, Labels, STypeOK
    <3> QED BY <1>1, <3>2, MoveKeepsLock
  <2> QED BY <2>2, <2>3
<1>12. CASE SpawnFails(p, t)
  <2>1. Moves(p, t, "killing") /\ "killing" \in Labels
    BY <1>12 DEF SpawnFails, Lock, kernel, state, Labels
  <2> QED BY <1>1, <2>1, MoveKeepsLock
<1> QED
  BY <1>2, <1>3, <1>4, <1>5, <1>6, <1>7, <1>8, <1>9, <1>10, <1>11, <1>12 DEF ForkStep, WaitStep

LEMMA ExitStepKeepsLock ==
    ASSUME STypeOK, LockInv, NEW p \in Pids, NEW t \in AllThreads, ExitStep(p, t)
    PROVE  LockInv'
<1> USE DEF Moves, OwnerMoves, At, Inside
<1>1. CASE Kill(p, t)
  <2>1. Moves(p, t, "reaping") /\ "reaping" \in Labels
    BY <1>1 DEF Kill, state, Labels
  <2> QED BY <2>1, MoveKeepsLock
<1>2. CASE Reap(p, t)
  <2>1. owner[p] = t
    BY <1>2 DEF Reap, LockInv, LockUsable
  <2>2. \A q \in Pids : status'[q] = "running" <=> status[q] = "running"
    <3>1. Head(child_list[p]) \in Pids
      <4>1. child_list[p] \in Seq(Pids) /\ child_list[p] # <<>>
        BY <1>2 DEF STypeOK, LockInv, ExitList, Reap
      <4> QED BY <4>1, HeadTailProperties
    <3> QED BY <1>2, <3>1 DEF Reap, WaitReturns, Reaped, kernel, STypeOK
  <2>3. Goto(p, t, "killing") /\ \A q \in Pids : q # p => child_list'[q] = child_list[q]
    BY <1>2 DEF Reap, STypeOK
  <2>4. Moves(p, t, "killing") /\ "killing" \in Labels
    BY <1>2, <2>1, <2>2, <2>3 DEF Reap, Labels
  <2> QED BY <2>4, MoveKeepsLock
<1>3. CASE FreeState(p, t)
  <2>1. Moves(p, t, "freed") /\ "freed" \in Labels
    BY <1>3 DEF FreeState, kernel, state, Labels
  <2> QED BY <2>1, MoveKeepsLock
<1>4. CASE Exit(p, t)
  BY <1>4, ExitKeepsLock
<1> QED BY <1>1, <1>2, <1>3, <1>4 DEF ExitStep

LEMMA SafeExitKeepsLock ==
    ASSUME STypeOK, LockInv, NEW p \in Pids, NEW t \in AllThreads, SafeExit(p, t)
    PROVE  LockInv'
<1>1. Moves(p, t, "killing") /\ "killing" \in Labels
  BY DEF SafeExit, Lock, kernel, state, Labels, Moves, OwnerMoves, At, Inside
<1> QED BY <1>1, MoveKeepsLock

LEMMA FatalKeepsLock ==
    ASSUME STypeOK, LockInv, NEW p \in Pids, NEW t \in AllThreads, owner[p] = None,
           status[p] = "running", pc[p][t] \in {"run", "counting"},
           FatalInside(p, t), UNCHANGED <<status, child_list, arg>>
    PROVE  LockInv'
<1>1. Moves(p, t, "killing") /\ "killing" \in Labels
  BY DEF FatalInside, Labels, Moves, OwnerMoves, At, Inside
<1> QED BY <1>1, MoveKeepsLock

LEMMA UserKeepsLock ==
    ASSUME STypeOK, LockInv, NEW p \in Pids, NEW t \in Threads, UserStep(p, t)
    PROVE  LockInv'
<1>1. t \in AllThreads
  BY DEF AllThreads
<1>2. CASE SafeExit(p, t)
  BY <1>1, <1>2, SafeExitKeepsLock
<1>3. CASE StartThread(p, t)
  BY <1>3, StartKeepsLock
<1>4. CASE SetSigExit(p, t)
  BY <1>4, StillKeepsLock DEF SetSigExit, kernel
<1>5. CASE Malloc(p, t)
  <2>1. Moves(p, t, "counting") /\ "counting" \in Labels
    BY <1>5 DEF Malloc, kernel, Labels, Moves, OwnerMoves, At, Inside
  <2> QED BY <1>1, <2>1, MoveKeepsLock
<1>6. CASE Count(p, t)
  <2>1. /\ status[p] = "running" /\ pc[p][t] = "counting" /\ owner[p] = None
        /\ UNCHANGED <<status, child_list, arg>>
    BY <1>6 DEF Count, At, kernel
  <2>2. CASE FatalInside(p, t)
    BY <1>1, <2>1, <2>2, FatalKeepsLock
  <2>3. CASE Goto(p, t, "run") /\ UNCHANGED owner
    <3>1. Moves(p, t, "run") /\ "run" \in Labels
      BY <2>1, <2>3 DEF Labels, Moves, OwnerMoves, Inside
    <3> QED BY <1>1, <3>1, MoveKeepsLock
  <2> QED BY <1>6, <2>2, <2>3 DEF Count
<1>7. CASE Uncount(p, t)
  <2>1. /\ status[p] = "running" /\ pc[p][t] = "run" /\ owner[p] = None
        /\ UNCHANGED <<status, child_list, arg>>
    BY <1>7 DEF Uncount, At, kernel
  <2>2. CASE FatalInside(p, t)
    BY <1>1, <2>1, <2>2, FatalKeepsLock
  <2>3. CASE Goto(p, t, "freeing") /\ UNCHANGED owner
    <3>1. Moves(p, t, "freeing") /\ "freeing" \in Labels
      BY <2>1, <2>3 DEF Labels, Moves, OwnerMoves, Inside
    <3> QED BY <1>1, <3>1, MoveKeepsLock
  <2> QED BY <1>7, <2>2, <2>3 DEF Uncount
<1>8. CASE Free(p, t)
  <2>1. Moves(p, t, "run") /\ "run" \in Labels
    BY <1>8 DEF Free, kernel, Labels, Moves, OwnerMoves, At, Inside
  <2> QED BY <1>1, <2>1, MoveKeepsLock
<1> QED BY <1>2, <1>3, <1>4, <1>5, <1>6, <1>7, <1>8 DEF UserStep

LEMMA SigKeepsLock ==
    ASSUME STypeOK, LockInv, NEW p \in Pids, SigStep(p) \/ Interrupt(p)
    PROVE  LockInv'
<1> USE DEF Moves, OwnerMoves, At, Inside
<1>1. Sig \in AllThreads
  BY DEF AllThreads
<1>2. CASE SigWait(p)
  <2>1. Moves(p, Sig, "signalled") /\ "signalled" \in Labels
    BY <1>2 DEF SigWait, state, Labels
  <2> QED BY <1>1, <2>1, MoveKeepsLock
<1>3. CASE SigRequest(p)
  <2>1. \E l \in {"routine", "none"} : Moves(p, Sig, l) /\ l \in Labels
    BY <1>3 DEF SigRequest, kernel, Labels
  <2> QED BY <1>1, <2>1, MoveKeepsLock
<1>4. CASE SafeExit(p, Sig)
  BY <1>1, <1>4, SafeExitKeepsLock
<1>5. CASE Interrupt(p)
  BY <1>5, StillKeepsLock DEF Interrupt, state
<1> QED BY <1>2, <1>3, <1>4, <1>5 DEF SigStep

-----------------------------------------------------------------------------
(* The children.                                                            *)

(* A thread was told of a child that is not in the list yet, and threads    *)
(* were told of one that still is.                                          *)
Forked(p, c) == \E t \in Threads : pc[p][t] = "forked" /\ arg[p][t] = c
Waiters(p, c) == {t \in Threads : pc[p][t] = "reaped" /\ arg[p][t] = c}

New(p) == \E t \in Threads : pc[p][t] = "preparing"
Leaving(p) == \E t \in AllThreads : pc[p][t] \in Exiting \cup {"undoing"}

(* While the process goes on, every node and every child is accounted for;  *)
(* a new one has the list of its parent and no child; one that exits has a  *)
(* node for every child, or is about to wait for the one it could not list. *)
Balance(p, c) ==
    Cardinality(Nodes(child_list[p], c)) + One(Forked(p, c))
        = Cardinality(Waiters(p, c)) + One(Child(c, p))

ChildrenOf(p) == \A c \in Pids :
    /\ New(p) => ~Child(c, p)
    /\ Leaving(p) /\ Child(c, p)
       => Listed(p, c) \/ \E t \in AllThreads : pc[p][t] = "undoing" /\ arg[p][t] = c
    /\ ~New(p) /\ ~Leaving(p) => Balance(p, c)

TreeInv == NoOrphans /\ \A p \in Pids : ChildrenOf(p)

(* Only one thread is inside a section.                                     *)
LEMMA OneInside ==
    ASSUME LockInv, NEW p \in Pids, NEW t \in AllThreads, NEW u \in AllThreads,
           pc[p][t] \in Inside, pc[p][u] \in Inside
    PROVE  t = u
  BY DEF LockInv, LockUsable

(* A process nothing happens to.                                            *)
LEMMA SameChildren ==
    ASSUME NEW q \in Pids, ChildrenOf(q),
           pc'[q] = pc[q], arg'[q] = arg[q], child_list'[q] = child_list[q],
           \A c \in Pids : Child(c, q)' <=> Child(c, q)
    PROVE  ChildrenOf(q)'
<1> SUFFICES ASSUME NEW c \in Pids
             PROVE  /\ New(q)' => ~Child(c, q)'
                    /\ Leaving(q)' /\ Child(c, q)'
                       => Listed(q, c)' \/ \E t \in AllThreads : pc'[q][t] = "undoing" /\ arg'[q][t] = c
                    /\ ~New(q)' /\ ~Leaving(q)' => Balance(q, c)'
  BY DEF ChildrenOf
<1>1. (New(q)' <=> New(q)) /\ (Leaving(q)' <=> Leaving(q)) /\ (Listed(q, c)' <=> Listed(q, c))
  BY DEF New, Leaving, Listed
<1>2. Balance(q, c)' <=> Balance(q, c)
  <2>1. /\ Waiters(q, c)' = Waiters(q, c) /\ (Forked(q, c)' <=> Forked(q, c))
        /\ Nodes(child_list[q], c)' = Nodes(child_list[q], c)
    BY DEF Waiters, Forked, Nodes
  <2> QED BY <2>1 DEF Balance, One
<1> QED BY <1>1, <1>2 DEF ChildrenOf

(* A pid is in the list if it has a node.                                   *)
LEMMA ListedNodes ==
    ASSUME NEW p \in Pids, NEW c \in Pids
    PROVE  Listed(p, c) <=> Nodes(child_list[p], c) # {}
  BY DEF Listed, Nodes

LEMMA EmptyCard ==
    ASSUME NEW S, IsFiniteSet(S)
    PROVE  Cardinality(S) \in Nat /\ (Cardinality(S) = 0 <=> S = {})
  BY FS_CardinalityType, FS_EmptySet

LEMMA WaitersFinite ==
    ASSUME NEW p, NEW c
    PROVE  IsFiniteSet(Waiters(p, c)) /\ Cardinality(Waiters(p, c)) \in Nat
<1>1. Waiters(p, c) \in SUBSET Threads
  BY DEF Waiters
<1> QED BY <1>1, SysInputs, FS_Subset, FS_CardinalityType

(* When no thread has yet to list a child, every child is in the list.      *)
LEMMA AllListed ==
    ASSUME STypeOK, NEW p \in Pids, ChildrenOf(p), ~New(p),
           \A t \in AllThreads : pc[p][t] \notin {"forked", "undoing"}
    PROVE  \A c \in Pids : Child(c, p) => Listed(p, c)
<1> SUFFICES ASSUME NEW c \in Pids, Child(c, p) PROVE Listed(p, c)
  OBVIOUS
<1>1. CASE Leaving(p)
  BY <1>1 DEF ChildrenOf
<1>2. CASE ~Leaving(p)
  <2>1. ~Forked(p, c) /\ Balance(p, c)
    BY <1>2 DEF ChildrenOf, Forked, AllThreads
  <2>2. Cardinality(Waiters(p, c)) \in Nat
    BY WaitersFinite
  <2>3. /\ IsFiniteSet(Nodes(child_list[p], c)) /\ Cardinality(Nodes(child_list[p], c)) \in Nat
    BY NodesFinite DEF STypeOK
  <2>4. Cardinality(Nodes(child_list[p], c)) # 0
    BY <2>1, <2>2, <2>3 DEF Balance, One
  <2> QED BY <2>3, <2>4, EmptyCard, ListedNodes
<1> QED BY <1>1, <1>2

(* What the kernel knows of the tree is unchanged, or a zombie is reaped.   *)
LEMMA SameTree ==
    ASSUME NoOrphans, UNCHANGED <<status, parent>>
    PROVE  NoOrphans' /\ \A c, q \in Pids : Child(c, q)' <=> Child(c, q)
  BY DEF NoOrphans, Child

LEMMA ZombieReaped ==
    ASSUME STypeOK, NoOrphans, NEW c \in Pids, status[c] = "zombie", Reaped(c)
    PROVE  NoOrphans' /\ \A d, q \in Pids : Child(d, q)' <=> d # c /\ Child(d, q)
<1>1. /\ status'[c] = "none"
      /\ \A d \in Pids : d # c => status'[d] = status[d] /\ parent'[d] = parent[d]
  BY DEF Reaped, STypeOK
<1>2. NoOrphans'
  <2> SUFFICES ASSUME NEW d \in Pids, status'[d] # "none"
               PROVE  IF parent'[d] = None THEN d = Root ELSE status'[parent'[d]] = "running"
    BY DEF NoOrphans
  <2>1. d # c /\ parent'[d] = parent[d] /\ status'[d] = status[d]
    BY <1>1
  <2>2. IF parent[d] = None THEN d = Root ELSE status[parent[d]] = "running"
    BY <2>1 DEF NoOrphans
  <2>3. parent[d] # None => parent[d] \in Pids /\ parent[d] # c
    BY <2>2 DEF STypeOK
  <2> QED BY <1>1, <2>1, <2>2, <2>3
<1> QED BY <1>1, <1>2 DEF Child

(* A step of one thread leaves the other processes alone.                   *)
Elsewhere(p) == \A q \in Pids : q # p =>
    pc'[q] = pc[q] /\ arg'[q] = arg[q] /\ child_list'[q] = child_list[q]

LEMMA OthersKeep ==
    ASSUME NEW p \in Pids, TreeInv, Elsewhere(p),
           \A c, q \in Pids : q # p => (Child(c, q)' <=> Child(c, q))
    PROVE  \A q \in Pids : q # p => ChildrenOf(q)'
  BY SameChildren DEF TreeInv, Elsewhere

(* Places that have no part in the accounts.                                *)
Plain == {"none", "run", "forking", "spawning", "counting", "freeing", "sigwait", "signalled",
          "routine"}

LEMMA PlainKeepsTree ==
    ASSUME STypeOK, TreeInv, NEW p \in Pids, UNCHANGED <<status, parent, child_list, arg>>,
           \A q \in Pids : q # p => pc'[q] = pc[q],
           \A t \in AllThreads : pc'[p][t] = pc[p][t] \/ {pc[p][t], pc'[p][t]} \subseteq Plain
    PROVE  TreeInv'
<1>1. NoOrphans' /\ \A c, q \in Pids : Child(c, q)' <=> Child(c, q)
  BY SameTree DEF TreeInv
<1>2. \A q \in Pids : q # p => ChildrenOf(q)'
  BY <1>1, OthersKeep DEF Elsewhere
<1>3. ASSUME NEW l \in {"preparing", "forked", "undoing", "reaped"} \cup Exiting, NEW t \in AllThreads
      PROVE  pc'[p][t] = l <=> pc[p][t] = l
  BY <1>3 DEF Plain, Exiting
<1>4. Threads \subseteq AllThreads
  BY DEF AllThreads
<1>5. ChildrenOf(p)'
  <2>1. (New(p)' <=> New(p)) /\ (Leaving(p)' <=> Leaving(p))
    BY <1>3, <1>4 DEF New, Leaving, Exiting
  <2>2. ASSUME NEW c \in Pids
        PROVE  /\ Listed(p, c)' <=> Listed(p, c)
               /\ (\E t \in AllThreads : pc'[p][t] = "undoing" /\ arg'[p][t] = c)
                    <=> \E t \in AllThreads : pc[p][t] = "undoing" /\ arg[p][t] = c
               /\ Balance(p, c)' <=> Balance(p, c)
    <3>1. /\ Waiters(p, c)' = Waiters(p, c) /\ (Forked(p, c)' <=> Forked(p, c))
          /\ Nodes(child_list[p], c)' = Nodes(child_list[p], c)
      BY <1>3, <1>4 DEF Waiters, Forked, Nodes
    <3>2. Balance(p, c)' <=> Balance(p, c)
      BY <1>1, <3>1 DEF Balance, One
    <3>3. \A t \in AllThreads : pc'[p][t] = "undoing" <=> pc[p][t] = "undoing"
      BY <1>3
    <3> QED BY <3>2, <3>3 DEF Listed
  <2> QED BY <1>1, <2>1, <2>2 DEF TreeInv, ChildrenOf
<1> QED BY <1>1, <1>2, <1>5 DEF TreeInv

(* A process that exits has every child in its list.                        *)
LEMMA LeaveKeepsTree ==
    ASSUME STypeOK, LockInv, TreeInv, NEW p \in Pids, NEW t \in AllThreads, NEW l \in Exiting,
           pc[p][t] \notin {"preparing", "forked", "undoing"},
           pc[p][t] \in Inside \/ owner[p] = None,
           Goto(p, t, l), UNCHANGED <<status, parent, child_list>>,
           \A q \in Pids : q # p => arg'[q] = arg[q]
    PROVE  TreeInv'
<1>1. NoOrphans' /\ \A c, q \in Pids : Child(c, q)' <=> Child(c, q)
  BY SameTree DEF TreeInv
<1>2. l \in Labels
  BY DEF Exiting, Labels, Inside
<1>3. /\ pc'[p][t] = l
      /\ \A q \in Pids, u \in AllThreads : q # p \/ u # t => pc'[q][u] = pc[q][u]
      /\ \A q \in Pids : q # p => pc'[q] = pc[q]
  BY <1>2, GotoPlaces DEF Goto, STypeOK
<1>4. \A q \in Pids : q # p => ChildrenOf(q)'
  BY <1>1, <1>3, OthersKeep DEF Elsewhere
<1>5. \A u \in AllThreads : u # t => pc[p][u] \notin Inside
  BY SysInputs DEF LockInv, LockUsable, AllThreads
<1>6. \A u \in AllThreads : pc[p][u] \notin {"forked", "undoing", "preparing"}
  BY <1>5 DEF Inside
<1>7. Threads \subseteq AllThreads
  BY DEF AllThreads
<1>8. ~New(p) /\ ~New(p)' /\ Leaving(p)'
  BY <1>3, <1>6, <1>7 DEF New, Leaving, Exiting
<1>9. \A c \in Pids : Child(c, p) => Listed(p, c)
  BY <1>6, <1>8, AllListed DEF TreeInv
<1>10. ChildrenOf(p)'
  BY <1>1, <1>8, <1>9 DEF ChildrenOf, Listed
<1> QED BY <1>1, <1>4, <1>10 DEF TreeInv

(* What a step of t in p does to the places and the pids it was told.       *)
LEMMA ArgMoves ==
    ASSUME STypeOK, NEW p \in Pids, NEW t \in AllThreads, NEW x \in Pids \cup {None},
           arg' = [arg EXCEPT ![p][t] = x]
    PROVE  /\ arg'[p][t] = x
           /\ \A q \in Pids, u \in AllThreads : q # p \/ u # t => arg'[q][u] = arg[q][u]
           /\ \A q \in Pids : q # p => arg'[q] = arg[q]
  BY DEF STypeOK

LEMMA GotoElsewhere ==
    ASSUME STypeOK, NEW p \in Pids, NEW t \in AllThreads, NEW l \in Labels, Goto(p, t, l)
    PROVE  \A q \in Pids : q # p => pc'[q] = pc[q]
  BY DEF Goto, STypeOK

(* The one inside goes on alone.                                            *)
LEMMA Alone ==
    ASSUME LockInv, NEW p \in Pids, NEW t \in AllThreads, pc[p][t] \in Inside \/ owner[p] = None
    PROVE  \A u \in AllThreads : u # t => pc[p][u] \notin Inside
  BY SysInputs DEF LockInv, LockUsable, AllThreads

(* The parent pushes the node of its new child.                             *)
LEMMA PushKeepsTree ==
    ASSUME STypeOK, LockInv, TreeInv, NEW p \in Pids, NEW t \in Threads, Push(p, t)
    PROVE  TreeInv'
<1> DEFINE x == arg[p][t]
<1>1. t \in AllThreads /\ Threads \subseteq AllThreads
  BY DEF AllThreads
<1>2. /\ pc[p][t] = "forked" /\ Goto(p, t, "run") /\ "run" \in Labels
      /\ arg' = [arg EXCEPT ![p][t] = None]
      /\ child_list' = [child_list EXCEPT ![p] = <<x>> \o child_list[p]]
      /\ UNCHANGED <<status, parent>>
  BY DEF Push, At, kernel, Labels
<1>3. x \in Pids
  BY <1>1, <1>2 DEF LockInv, ArgIsPid
<1>4. /\ pc'[p][t] = "run"
      /\ \A q \in Pids, u \in AllThreads : q # p \/ u # t => pc'[q][u] = pc[q][u]
      /\ \A q \in Pids : q # p => pc'[q] = pc[q]
  BY <1>1, <1>2, GotoPlaces, GotoElsewhere
<1>5. /\ \A q \in Pids, u \in AllThreads : q # p \/ u # t => arg'[q][u] = arg[q][u]
      /\ \A q \in Pids : q # p => arg'[q] = arg[q]
  BY <1>1, <1>2, ArgMoves
<1>6. child_list'[p] = <<x>> \o child_list[p] /\ \A q \in Pids : q # p => child_list'[q] = child_list[q]
  BY <1>2 DEF STypeOK
<1> HIDE DEF x
<1>7. NoOrphans' /\ \A c, q \in Pids : Child(c, q)' <=> Child(c, q)
  BY <1>2, SameTree DEF TreeInv
<1>8. \A q \in Pids : q # p => ChildrenOf(q)'
  BY <1>4, <1>5, <1>6, <1>7, OthersKeep DEF Elsewhere
<1>9. \A u \in AllThreads : u # t => pc[p][u] \notin Inside
  BY <1>1, <1>2, Alone DEF Inside
<1>10. ~New(p) /\ ~New(p)' /\ ~Leaving(p) /\ ~Leaving(p)'
  BY <1>1, <1>2, <1>4, <1>9 DEF New, Leaving, Exiting, Inside
<1>11. ASSUME NEW c \in Pids PROVE Balance(p, c)'
  <2>1. Balance(p, c)
    BY <1>10 DEF TreeInv, ChildrenOf
  <2>2. (Forked(p, c) <=> x = c) /\ ~Forked(p, c)'
    BY <1>1, <1>2, <1>4, <1>9 DEF Forked, Inside, x
  <2>3. Waiters(p, c)' = Waiters(p, c)
    BY <1>1, <1>2, <1>4, <1>5 DEF Waiters
  <2>4. Cardinality(Nodes(child_list[p], c))' = Cardinality(Nodes(child_list[p], c)) + One(x = c)
    <3>1. child_list[p] \in Seq(Pids)
      BY DEF STypeOK
    <3> QED BY <1>3, <1>6, <3>1, PushNodes
  <2>5. Cardinality(Nodes(child_list[p], c)) \in Nat /\ Cardinality(Waiters(p, c)) \in Nat
    BY NodesFinite, WaitersFinite DEF STypeOK
  <2> QED BY <1>7, <2>1, <2>2, <2>3, <2>4, <2>5 DEF Balance, One
<1>12. ChildrenOf(p)'
  BY <1>10, <1>11 DEF ChildrenOf
<1> QED BY <1>7, <1>8, <1>12 DEF TreeInv

(* It has no memory for the node: it will wait for this child first.        *)
LEMMA PushFailsKeepsTree ==
    ASSUME STypeOK, LockInv, TreeInv, NEW p \in Pids, NEW t \in Threads, PushFails(p, t)
    PROVE  TreeInv'
<1>1. t \in AllThreads /\ Threads \subseteq AllThreads
  BY DEF AllThreads
<1>2. /\ pc[p][t] = "forked" /\ Goto(p, t, "undoing") /\ "undoing" \in Labels
      /\ UNCHANGED <<status, parent, child_list, arg>>
  BY DEF PushFails, At, state, Labels, Inside
<1>3. /\ pc'[p][t] = "undoing"
      /\ \A q \in Pids, u \in AllThreads : q # p \/ u # t => pc'[q][u] = pc[q][u]
      /\ \A q \in Pids : q # p => pc'[q] = pc[q]
  BY <1>1, <1>2, GotoPlaces, GotoElsewhere
<1>4. NoOrphans' /\ \A c, q \in Pids : Child(c, q)' <=> Child(c, q)
  BY <1>2, SameTree DEF TreeInv
<1>5. \A q \in Pids : q # p => ChildrenOf(q)'
  BY <1>2, <1>3, <1>4, OthersKeep DEF Elsewhere
<1>6. \A u \in AllThreads : u # t => pc[p][u] \notin Inside
  BY <1>1, <1>2, Alone DEF Inside
<1>7. ~New(p) /\ ~New(p)' /\ ~Leaving(p) /\ Leaving(p)'
  BY <1>1, <1>2, <1>3, <1>6 DEF New, Leaving, Exiting, Inside
<1>8. ASSUME NEW c \in Pids, Child(c, p)
      PROVE  Listed(p, c) \/ arg[p][t] = c
  <2>1. Balance(p, c)
    BY <1>7 DEF TreeInv, ChildrenOf
  <2>2. Forked(p, c) => arg[p][t] = c
    BY <1>1, <1>2, <1>6 DEF Forked, Inside
  <2>3. /\ IsFiniteSet(Nodes(child_list[p], c)) /\ Cardinality(Nodes(child_list[p], c)) \in Nat
        /\ Cardinality(Waiters(p, c)) \in Nat
    BY NodesFinite, WaitersFinite DEF STypeOK
  <2>4. Forked(p, c) \/ Cardinality(Nodes(child_list[p], c)) # 0
    BY <1>8, <2>1, <2>3 DEF Balance, One
  <2> QED BY <2>2, <2>3, <2>4, EmptyCard, ListedNodes
<1>9. ChildrenOf(p)'
  BY <1>1, <1>2, <1>3, <1>4, <1>7, <1>8 DEF ChildrenOf, Listed
<1> QED BY <1>4, <1>5, <1>9 DEF TreeInv

(* waitpid returned: whoever is still a child of p is not the one that was  *)
(* waited for.                                                              *)
LEMMA WaitLeaves ==
    ASSUME STypeOK, NoOrphans, NEW c \in Pids, NEW p \in Pids, WaitReturns(c, p)
    PROVE  /\ NoOrphans'
           /\ \A d, q \in Pids : Child(d, q)' <=> Child(d, q) /\ ~(d = c /\ q = p)
<1>1. CASE Child(c, p) /\ status[c] = "zombie" /\ Reaped(c)
  <2>1. NoOrphans' /\ \A d, q \in Pids : Child(d, q)' <=> d # c /\ Child(d, q)
    BY <1>1, ZombieReaped
  <2>2. \A q \in Pids : Child(c, q) => q = p
    BY <1>1 DEF Child
  <2> QED BY <2>1, <2>2
<1>2. CASE ~Child(c, p) /\ UNCHANGED kernel
  <2>1. NoOrphans' /\ \A d, q \in Pids : Child(d, q)' <=> Child(d, q)
    BY <1>2, SameTree DEF kernel
  <2> QED BY <1>2, <2>1
<1> QED BY <1>1, <1>2 DEF WaitReturns

(* The child that could not be listed is waited for.                        *)
LEMMA UndoKeepsTree ==
    ASSUME STypeOK, LockInv, TreeInv, NEW p \in Pids, NEW t \in Threads, Undo(p, t)
    PROVE  TreeInv'
<1> DEFINE x == arg[p][t]
<1>1. t \in AllThreads /\ Threads \subseteq AllThreads
  BY DEF AllThreads
<1>2. /\ pc[p][t] = "undoing" /\ Goto(p, t, "killing") /\ "killing" \in Labels
      /\ arg' = [arg EXCEPT ![p][t] = None] /\ UNCHANGED child_list /\ WaitReturns(x, p)
  BY DEF Undo, At, state, Labels, Inside
<1>3. x \in Pids
  BY <1>1, <1>2 DEF LockInv, ArgIsPid
<1>4. /\ pc'[p][t] = "killing"
      /\ \A q \in Pids, u \in AllThreads : q # p \/ u # t => pc'[q][u] = pc[q][u]
      /\ \A q \in Pids : q # p => pc'[q] = pc[q]
  BY <1>1, <1>2, GotoPlaces, GotoElsewhere
<1>5. \A q \in Pids : q # p => arg'[q] = arg[q]
  BY <1>1, <1>2, ArgMoves
<1>6. /\ NoOrphans' /\ \A c \in Pids : Child(c, p)' <=> Child(c, p) /\ c # x
      /\ \A c, q \in Pids : q # p => (Child(c, q)' <=> Child(c, q))
  BY <1>2, <1>3, WaitLeaves DEF TreeInv
<1>7. \A q \in Pids : q # p => ChildrenOf(q)'
  BY <1>2, <1>4, <1>5, <1>6, OthersKeep DEF Elsewhere
<1>8. \A u \in AllThreads : u # t => pc[p][u] \notin Inside
  BY <1>1, <1>2, Alone DEF Inside
<1>9. Leaving(p) /\ ~New(p)' /\ Leaving(p)'
  BY <1>1, <1>2, <1>4, <1>8 DEF New, Leaving, Exiting, Inside
<1>10. ASSUME NEW c \in Pids, Child(c, p)' PROVE Listed(p, c)'
  <2>1. Child(c, p) /\ c # x
    BY <1>6, <1>10
  <2>2. \A u \in AllThreads : pc[p][u] = "undoing" => arg[p][u] # c
    BY <1>8, <2>1 DEF Inside
  <2> QED BY <1>2, <1>9, <2>1, <2>2 DEF TreeInv, ChildrenOf, Listed
<1>11. ChildrenOf(p)'
  BY <1>9, <1>10 DEF ChildrenOf
<1> QED BY <1>6, <1>7, <1>11 DEF TreeInv

(* A new process forgets the list of its parent.                            *)
LEMMA PrepareKeepsTree ==
    ASSUME STypeOK, LockInv, TreeInv, NEW p \in Pids, NEW t \in Threads, PrepareFromChild(p, t)
    PROVE  TreeInv'
<1>1. t \in AllThreads /\ Threads \subseteq AllThreads
  BY DEF AllThreads
<1>2. /\ pc[p][t] = "preparing" /\ Goto(p, t, "spawning") /\ "spawning" \in Labels
      /\ child_list' = [child_list EXCEPT ![p] = <<>>] /\ UNCHANGED <<status, parent,
                                                   arg>>
  BY DEF PrepareFromChild, At, kernel, Labels
<1>3. /\ pc'[p][t] = "spawning"
      /\ \A q \in Pids, u \in AllThreads : q # p \/ u # t => pc'[q][u] = pc[q][u]
      /\ \A q \in Pids : q # p => pc'[q] = pc[q]
  BY <1>1, <1>2, GotoPlaces, GotoElsewhere
<1>4. child_list'[p] = <<>> /\ \A q \in Pids : q # p => child_list'[q] = child_list[q]
  BY <1>2 DEF STypeOK
<1>5. NoOrphans' /\ \A c, q \in Pids : Child(c, q)' <=> Child(c, q)
  BY <1>2, SameTree DEF TreeInv
<1>6. \A q \in Pids : q # p => ChildrenOf(q)'
  BY <1>2, <1>3, <1>4, <1>5, OthersKeep DEF Elsewhere
<1>7. \A u \in AllThreads : u # t => pc'[p][u] = "none"
  BY <1>1, <1>2, <1>3 DEF LockInv, NewAlone
<1>8. \A c \in Pids : ~Child(c, p)'
  BY <1>1, <1>2, <1>5 DEF TreeInv, ChildrenOf, New
<1>9. ASSUME NEW c \in Pids PROVE Balance(p, c)'
  <2>1. Waiters(p, c)' = {} /\ ~Forked(p, c)' /\ Nodes(child_list[p], c)' = {}
    BY <1>1, <1>3, <1>4, <1>7 DEF Waiters, Forked, Nodes
  <2> QED BY <1>8, <2>1, FS_EmptySet DEF Balance, One
<1>10. ChildrenOf(p)'
  <2>1. ~New(p)' /\ ~Leaving(p)'
    BY <1>1, <1>3, <1>7 DEF New, Leaving, Exiting
  <2> QED BY <1>9, <2>1 DEF ChildrenOf
<1> QED BY <1>5, <1>6, <1>10 DEF TreeInv

(* A child is reaped, and has to be taken out of the list.                  *)
LEMMA WaitpidKeepsTree ==
    ASSUME STypeOK, LockInv, TreeInv, NEW p \in Pids, NEW t \in Threads, NEW c \in Pids,
           Waitpid(p, t, c)
    PROVE  TreeInv'
<1>1. t \in AllThreads /\ Threads \subseteq AllThreads
  BY DEF AllThreads
<1>2. /\ pc[p][t] = "run" /\ Goto(p, t, "reaped") /\ "reaped" \in Labels
      /\ arg' = [arg EXCEPT ![p][t] = c] /\ UNCHANGED child_list
      /\ Child(c, p) /\ status[c] = "zombie" /\ Reaped(c)
  BY DEF Waitpid, At, state, Labels
<1>3. /\ pc'[p][t] = "reaped"
      /\ \A q \in Pids, u \in AllThreads : q # p \/ u # t => pc'[q][u] = pc[q][u]
      /\ \A q \in Pids : q # p => pc'[q] = pc[q]
  BY <1>1, <1>2, GotoPlaces, GotoElsewhere
<1>4. /\ arg'[p][t] = c
      /\ \A q \in Pids, u \in AllThreads : q # p \/ u # t => arg'[q][u] = arg[q][u]
      /\ \A q \in Pids : q # p => arg'[q] = arg[q]
  BY <1>1, <1>2, ArgMoves
<1>5. NoOrphans' /\ \A d, q \in Pids : Child(d, q)' <=> d # c /\ Child(d, q)
  BY <1>2, ZombieReaped DEF TreeInv
<1>6. \A q \in Pids : q # p => ChildrenOf(q)'
  <2>1. \A q \in Pids : q # p => ~Child(c, q)
    BY <1>2 DEF Child
  <2> QED BY <1>2, <1>3, <1>4, <1>5, <2>1, OthersKeep DEF Elsewhere
<1>7. ~New(p) /\ ~New(p)' /\ (Leaving(p)' <=> Leaving(p))
  BY <1>1, <1>2, <1>3 DEF New, Leaving, Exiting, LockInv, NewAlone
<1>8. ASSUME NEW d \in Pids, Leaving(p), Child(d, p)'
      PROVE  Listed(p, d)' \/ \E u \in AllThreads : pc'[p][u] = "undoing" /\ arg'[p][u] = d
  <2>1. Listed(p, d) \/ \E u \in AllThreads : pc[p][u] = "undoing" /\ arg[p][u] = d
    BY <1>5, <1>8 DEF TreeInv, ChildrenOf
  <2> QED BY <1>2, <1>3, <1>4, <2>1 DEF Listed
<1>9. ASSUME NEW d \in Pids, ~Leaving(p) PROVE Balance(p, d)'
  <2>1. Balance(p, d)
    BY <1>7, <1>9 DEF TreeInv, ChildrenOf
  <2>2. Nodes(child_list[p], d)' = Nodes(child_list[p], d) /\ (Forked(p, d)' <=> Forked(p, d))
    BY <1>1, <1>2, <1>3, <1>4 DEF Nodes, Forked
  <2>3. Waiters(p, d)' = IF d = c THEN Waiters(p, d) \cup {t} ELSE Waiters(p, d)
    BY <1>1, <1>2, <1>3, <1>4 DEF Waiters
  <2>4. t \notin Waiters(p, d)
    BY <1>2 DEF Waiters
  <2>5. Cardinality(Waiters(p, d) \cup {t}) = Cardinality(Waiters(p, d)) + 1
    BY <2>4, WaitersFinite, FS_AddElement
  <2>6. Cardinality(Waiters(p, d))' = Cardinality(Waiters(p, d)) + One(d = c)
    BY <2>3, <2>5, WaitersFinite DEF One
  <2>7. Cardinality(Nodes(child_list[p], d)) \in Nat /\ Cardinality(Waiters(p, d)) \in Nat
    BY NodesFinite, WaitersFinite DEF STypeOK
  <2> QED BY <1>2, <1>5, <2>1, <2>2, <2>6, <2>7 DEF Balance, One
<1>10. ChildrenOf(p)'
  BY <1>7, <1>8, <1>9 DEF ChildrenOf
<1> QED BY <1>5, <1>6, <1>10 DEF TreeInv

(* Its node is taken out.                                                   *)
LEMMA UnlistKeepsTree ==
    ASSUME STypeOK, LockInv, TreeInv, NEW p \in Pids, NEW t \in Threads, Unlist(p, t)
    PROVE  TreeInv'
<1> DEFINE x == arg[p][t]
<1>1. t \in AllThreads /\ Threads \subseteq AllThreads /\ None \notin AllThreads
  BY SysInputs DEF AllThreads
<1>2. /\ pc[p][t] = "reaped" /\ owner[p] = None
      /\ arg' = [arg EXCEPT ![p][t] = None] /\ UNCHANGED <<status, parent>>
  BY DEF Unlist, At, kernel
<1>3. x \in Pids
  BY <1>1, <1>2 DEF LockInv, ArgIsPid
<1>4. /\ \A q \in Pids, u \in AllThreads : q # p \/ u # t => arg'[q][u] = arg[q][u]
      /\ \A q \in Pids : q # p => arg'[q] = arg[q]
  BY <1>1, <1>2, ArgMoves
<1>5. CASE ~Listed(p, x)
  <2>1. Goto(p, t, "killing") /\ UNCHANGED child_list /\ "killing" \in Exiting
    BY <1>5 DEF Unlist, Exiting
  <2> QED BY <1>1, <1>2, <1>4, <2>1, LeaveKeepsTree
<1>6. CASE Listed(p, x)
  <2>1. /\ Goto(p, t, "run") /\ "run" \in Labels
        /\ child_list' = [child_list EXCEPT ![p] = Without(child_list[p], x)]
    BY <1>6 DEF Unlist, Labels
  <2>2. /\ pc'[p][t] = "run"
        /\ \A q \in Pids, u \in AllThreads : q # p \/ u # t => pc'[q][u] = pc[q][u]
        /\ \A q \in Pids : q # p => pc'[q] = pc[q]
    BY <1>1, <2>1, GotoPlaces, GotoElsewhere
  <2>3. /\ child_list'[p] = Without(child_list[p], x)
        /\ \A q \in Pids : q # p => child_list'[q] = child_list[q]
    BY <2>1 DEF STypeOK
  <2>4. NoOrphans' /\ \A c, q \in Pids : Child(c, q)' <=> Child(c, q)
    BY <1>2, SameTree DEF TreeInv
  <2>5. \A q \in Pids : q # p => ChildrenOf(q)'
    BY <1>4, <2>2, <2>3, <2>4, OthersKeep DEF Elsewhere
  <2>6. \A u \in AllThreads : pc[p][u] \notin Inside
    BY <1>1, <1>2 DEF LockInv, LockUsable
  <2>7. ~New(p) /\ ~New(p)' /\ ~Leaving(p) /\ ~Leaving(p)'
    BY <1>1, <2>2, <2>6 DEF New, Leaving, Exiting, Inside
  <2>8. ASSUME NEW c \in Pids PROVE Balance(p, c)'
    <3>1. Balance(p, c)
      BY <2>7 DEF TreeInv, ChildrenOf
    <3>2. ~Forked(p, c) /\ ~Forked(p, c)'
      BY <1>1, <2>2, <2>6 DEF Forked, Inside
    <3>3. Waiters(p, c)' = Waiters(p, c) \ {t} /\ (t \in Waiters(p, c) <=> x = c)
      BY <1>1, <1>2, <1>4, <2>2 DEF Waiters
    <3>4. Cardinality(Waiters(p, c))' = Cardinality(Waiters(p, c)) - One(x = c)
      <4>1. /\ IsFiniteSet(Waiters(p, c)) /\ Cardinality(Waiters(p, c)) \in Nat
            /\ Waiters(p, c)' = IF x = c THEN Waiters(p, c) \ {t} ELSE Waiters(p, c)
        BY <3>3, WaitersFinite
      <4>2. t \in Waiters(p, c)
            => Cardinality(Waiters(p, c) \ {t}) = Cardinality(Waiters(p, c)) - 1
        BY <4>1, FS_RemoveElement
      <4> QED BY <3>3, <4>1, <4>2 DEF One
    <3>5. Cardinality(Nodes(child_list[p], c))' = Cardinality(Nodes(child_list[p], c)) - One(x = c)
      <4>1. child_list[p] \in Seq(Pids) /\ Nodes(child_list[p], x) # {}
        BY <1>3, <1>6, ListedNodes DEF STypeOK
      <4> HIDE DEF x
      <4> QED BY <2>3, <4>1, WithoutNodes
    <3>6. Cardinality(Nodes(child_list[p], c)) \in Nat /\ Cardinality(Waiters(p, c)) \in Nat
      BY NodesFinite, WaitersFinite DEF STypeOK
    <3> QED BY <2>4, <3>1, <3>2, <3>4, <3>5, <3>6 DEF Balance, One
  <2>9. ChildrenOf(p)'
    BY <2>7, <2>8 DEF ChildrenOf
  <2> QED BY <2>4, <2>5, <2>9 DEF TreeInv
<1> QED BY <1>5, <1>6

(* An exiting process waits for the first child in its list.                *)
LEMMA ReapKeepsTree ==
    ASSUME STypeOK, LockInv, TreeInv, NEW p \in Pids, NEW t \in AllThreads, Reap(p, t)
    PROVE  TreeInv'
<1> DEFINE s == child_list[p]
           h == Head(s)
<1>1. /\ pc[p][t] = "reaping" /\ Goto(p, t, "killing") /\ "killing" \in Labels
      /\ child_list' = [child_list EXCEPT ![p] = Tail(s)] /\ UNCHANGED arg /\ WaitReturns(h, p)
  BY DEF Reap, At, Labels, Inside
<1>2. s \in Seq(Pids) /\ s # <<>>
  BY <1>1 DEF STypeOK, LockInv, ExitList
<1>3. /\ h \in Pids /\ h = s[1] /\ Tail(s) \in Seq(Pids)
      /\ \A i \in DOMAIN s : i # 1 => i - 1 \in DOMAIN Tail(s) /\ Tail(s)[i - 1] = s[i]
  <2>1. /\ Len(s) \in Nat /\ Len(s) # 0 /\ Tail(s) \in Seq(Pids) /\ Len(Tail(s)) = Len(s) - 1
        /\ \A i \in 1..Len(Tail(s)) : Tail(s)[i] = s[i + 1]
        /\ DOMAIN s = 1..Len(s) /\ DOMAIN Tail(s) = 1..Len(Tail(s))
    BY <1>2, HeadTailProperties, EmptySeq, LenProperties
  <2>2. h \in Pids /\ h = s[1]
    BY <1>2, HeadTailProperties
  <2> HIDE DEF s, h
  <2> QED BY <2>1, <2>2
<1>4. /\ pc'[p][t] = "killing"
      /\ \A q \in Pids, u \in AllThreads : q # p \/ u # t => pc'[q][u] = pc[q][u]
      /\ \A q \in Pids : q # p => pc'[q] = pc[q]
  BY <1>1, GotoPlaces, GotoElsewhere
<1>5. child_list'[p] = Tail(s) /\ \A q \in Pids : q # p => child_list'[q] = child_list[q]
  BY <1>1 DEF STypeOK
<1>6. /\ NoOrphans' /\ \A c \in Pids : Child(c, p)' <=> Child(c, p) /\ c # h
      /\ \A c, q \in Pids : q # p => (Child(c, q)' <=> Child(c, q))
  BY <1>1, <1>3, WaitLeaves DEF TreeInv
<1>7. \A q \in Pids : q # p => ChildrenOf(q)'
  BY <1>1, <1>4, <1>5, <1>6, OthersKeep DEF Elsewhere
<1>8. \A u \in AllThreads : u # t => pc[p][u] \notin Inside
  BY <1>1, Alone DEF Inside
<1>9. Threads \subseteq AllThreads
  BY DEF AllThreads
<1>10. ~New(p) /\ ~New(p)' /\ Leaving(p)'
  BY <1>1, <1>4, <1>8, <1>9 DEF New, Leaving, Exiting, Inside
<1>11. \A c \in Pids : Child(c, p) => Listed(p, c)
  BY <1>1, <1>8, <1>10, AllListed DEF TreeInv, Inside
<1>12. ASSUME NEW c \in Pids, Child(c, p)' PROVE Listed(p, c)'
  <2>1. PICK i \in DOMAIN s : s[i] = c
    BY <1>6, <1>11, <1>12 DEF Listed
  <2>2. i # 1
    BY <1>3, <1>6, <1>12, <2>1
  <2> HIDE DEF s, h
  <2>3. i - 1 \in DOMAIN Tail(s) /\ Tail(s)[i - 1] = c
    BY <1>3, <2>1, <2>2
  <2> QED BY <1>5, <2>3 DEF Listed
<1>13. ChildrenOf(p)'
  BY <1>10, <1>12 DEF ChildrenOf
<1> QED BY <1>6, <1>7, <1>13 DEF TreeInv

(* It ends when no child is left.                                           *)
LEMMA ExitKeepsTree ==
    ASSUME STypeOK, LockInv, TreeInv, NEW p \in Pids, NEW t \in AllThreads, Exit(p, t)
    PROVE  TreeInv'
<1>1. status[p] = "running" /\ pc[p][t] = "freed" /\ child_list[p] = <<>>
  BY DEF Exit, At, LockInv, ExitList
<1>2. \A u \in AllThreads : u # t => pc[p][u] \notin Inside
  BY <1>1, Alone DEF Inside
<1>3. Threads \subseteq AllThreads /\ None \notin Pids
  BY SysInputs DEF AllThreads
<1>4. \A c \in Pids : ~Child(c, p)
  <2>1. ~New(p)
    BY <1>1, <1>2, <1>3 DEF New, Inside
  <2>2. \A c \in Pids : Child(c, p) => Listed(p, c)
    BY <1>1, <1>2, <2>1, AllListed DEF TreeInv, Inside
  <2> QED BY <1>1, <2>2 DEF Listed
<1>5. /\ status'[p] = IF parent[p] = None THEN "none" ELSE "zombie"
      /\ \A c \in Pids : c # p => status'[c] = status[c]
      /\ parent'[p] = parent[p]
      /\ \A c \in Pids : parent'[c] = IF c # p /\ parent[c] = p THEN None ELSE parent[c]
  <2>1. /\ status' = [c \in Pids |->
              IF c = p THEN IF parent[p] = None THEN "none" ELSE "zombie"
              ELSE IF parent[c] = p /\ status[c] = "zombie" THEN "none" ELSE status[c]]
        /\ parent' = [c \in Pids |-> IF c # p /\ parent[c] = p THEN None ELSE parent[c]]
    BY DEF Exit
  <2>2. \A c \in Pids : ~(parent[c] = p /\ status[c] = "zombie")
    BY <1>4 DEF Child
  <2> QED BY <2>1, <2>2
<1>6. /\ \A u \in AllThreads : pc'[p][u] = "none"
      /\ child_list'[p] = <<>> /\ Elsewhere(p)
  BY DEF Exit, STypeOK, Elsewhere
<1>7. NoOrphans'
  <2> SUFFICES ASSUME NEW c \in Pids, status'[c] # "none"
               PROVE  IF parent'[c] = None THEN c = Root ELSE status'[parent'[c]] = "running"
    BY DEF NoOrphans
  <2>1. status[c] # "none" /\ parent[c] # p /\ parent'[c] = parent[c]
    BY <1>1, <1>4, <1>5 DEF Child
  <2>2. IF parent[c] = None THEN c = Root ELSE status[parent[c]] = "running"
    BY <2>1 DEF TreeInv, NoOrphans
  <2>3. parent[c] \in Pids \cup {None}
    BY DEF STypeOK
  <2> QED BY <1>5, <2>1, <2>2, <2>3
<1>8. \A c, q \in Pids : q # p => (Child(c, q)' <=> Child(c, q))
  <2> SUFFICES ASSUME NEW c \in Pids, NEW q \in Pids, q # p PROVE Child(c, q)' <=> Child(c, q)
    OBVIOUS
  <2>1. CASE c = p
    BY <1>1, <1>3, <1>5, <2>1 DEF Child
  <2>2. CASE c # p
    BY <1>3, <1>4, <1>5, <2>2 DEF Child
  <2> QED BY <2>1, <2>2
<1>9. \A q \in Pids : q # p => ChildrenOf(q)'
  BY <1>6, <1>8, OthersKeep
<1>10. \A c \in Pids : ~Child(c, p)'
  BY <1>1, <1>3, <1>4, <1>5 DEF Child
<1>11. ASSUME NEW c \in Pids PROVE Balance(p, c)'
  <2>1. Waiters(p, c)' = {} /\ ~Forked(p, c)' /\ Nodes(child_list[p], c)' = {}
    BY <1>3, <1>6 DEF Waiters, Forked, Nodes
  <2> QED BY <1>10, <2>1, FS_EmptySet DEF Balance, One
<1>12. ChildrenOf(p)'
  BY <1>10, <1>11 DEF ChildrenOf
<1> QED BY <1>7, <1>9, <1>12 DEF TreeInv

(* A fork: the parent has one child more, and the child has none.           *)
LEMMA ForkKeepsTree ==
    ASSUME STypeOK, LockInv, TreeInv, NEW p \in Pids, NEW t \in Threads, NEW c \in Pids,
           Fork(p, t, c)
    PROVE  TreeInv'
<1>1. t \in AllThreads /\ Threads \subseteq AllThreads /\ None \notin Pids
  BY SysInputs DEF AllThreads
<1>2. c # p /\ status[c] = "none" /\ status[p] = "running" /\ pc[p][t] = "forking"
  BY DEF Fork, At
<1>3. /\ pc'[p][t] = "forked"
      /\ \A u \in AllThreads : pc'[c][u] = IF u = t THEN "preparing" ELSE "none"
      /\ \A u \in AllThreads : u # t => pc'[p][u] = pc[p][u]
      /\ \A q \in Pids : q \notin {c, p} => pc'[q] = pc[q]
  <2>1. pc' = [pc EXCEPT ![p][t] = "forked",
                         ![c] = [u \in AllThreads |-> IF u = t THEN "preparing" ELSE "none"]]
    BY DEF Fork
  <2>2. pc \in [Pids -> [AllThreads -> Labels]]
    BY DEF STypeOK
  <2> QED BY <1>1, <1>2, <2>1, <2>2
<1>4. /\ arg'[p][t] = c
      /\ \A u \in AllThreads : u # t => arg'[p][u] = arg[p][u]
      /\ \A q \in Pids : q \notin {c, p} => arg'[q] = arg[q]
  <2>1. arg' = [arg EXCEPT ![p][t] = c, ![c] = [u \in AllThreads |-> None]]
    BY DEF Fork
  <2>2. arg \in [Pids -> [AllThreads -> Pids \cup {None}]]
    BY DEF STypeOK
  <2> QED BY <1>1, <1>2, <2>1, <2>2
<1>5. /\ status'[c] = "running" /\ \A q \in Pids : q # c => status'[q] = status[q]
      /\ parent'[c] = p /\ \A q \in Pids : q # c => parent'[q] = parent[q]
      /\ \A q \in Pids : q # c => child_list'[q] = child_list[q]
  BY DEF Fork, Copy, STypeOK
<1>6. \A d \in Pids : status[d] # "none" => parent[d] # c
  BY <1>1, <1>2 DEF TreeInv, NoOrphans
<1>7. NoOrphans'
  <2> SUFFICES ASSUME NEW d \in Pids, status'[d] # "none"
               PROVE  IF parent'[d] = None THEN d = Root ELSE status'[parent'[d]] = "running"
    BY DEF NoOrphans
  <2>1. CASE d = c
    BY <1>1, <1>2, <1>5, <2>1
  <2>2. CASE d # c
    <3>1. status[d] # "none" /\ parent'[d] = parent[d]
      BY <1>5, <2>2
    <3>2. IF parent[d] = None THEN d = Root ELSE status[parent[d]] = "running"
      BY <3>1 DEF TreeInv, NoOrphans
    <3>3. parent[d] \in Pids \cup {None} /\ parent[d] # c
      BY <1>6, <3>1 DEF STypeOK
    <3> QED BY <1>5, <3>1, <3>2, <3>3
  <2> QED BY <2>1, <2>2
<1>8. /\ \A d \in Pids : Child(d, p)' <=> Child(d, p) \/ d = c
      /\ \A d, q \in Pids : q # p => (Child(d, q)' <=> Child(d, q))
      /\ ~Child(c, p) /\ \A d \in Pids : ~Child(d, c)'
  <2>1. \A d, q \in Pids : d # c => (Child(d, q)' <=> Child(d, q))
    BY <1>5 DEF Child
  <2>2. ASSUME NEW q \in Pids PROVE ~Child(c, q) /\ (Child(c, q)' <=> q = p)
    <3>1. status'[c] # "none" /\ parent'[c] = p
      BY <1>5
    <3>2. Child(c, q)' <=> status'[c] # "none" /\ parent'[c] = q
      BY DEF Child
    <3> QED BY <1>2, <3>1, <3>2 DEF Child
  <2>3. \A d \in Pids : d # c => ~Child(d, c)
    BY <1>6 DEF Child
  <2> QED BY <1>2, <2>1, <2>2, <2>3
<1>9. ASSUME NEW q \in Pids, q \notin {c, p} PROVE ChildrenOf(q)'
  BY <1>3, <1>4, <1>5, <1>8, <1>9, SameChildren DEF TreeInv
<1>10. ChildrenOf(c)'
  <2>1. New(c)' /\ ~Leaving(c)'
    BY <1>1, <1>3 DEF New, Leaving, Exiting
  <2> QED BY <1>8, <2>1 DEF ChildrenOf
<1>11. \A u \in AllThreads : u # t => pc[p][u] \notin Inside
  BY <1>1, <1>2, Alone DEF Inside
<1>12. ~New(p) /\ ~New(p)' /\ ~Leaving(p) /\ ~Leaving(p)'
  BY <1>1, <1>2, <1>3, <1>11 DEF New, Leaving, Exiting, Inside
<1>13. ASSUME NEW d \in Pids PROVE Balance(p, d)'
  <2>1. Balance(p, d)
    BY <1>12 DEF TreeInv, ChildrenOf
  <2>2. Nodes(child_list[p], d)' = Nodes(child_list[p], d)
    BY <1>2, <1>5 DEF Nodes
  <2>3. ~Forked(p, d) /\ (Forked(p, d)' <=> d = c)
    BY <1>1, <1>2, <1>3, <1>4, <1>11 DEF Forked, Inside
  <2>4. Waiters(p, d)' = Waiters(p, d)
    BY <1>1, <1>2, <1>3, <1>4 DEF Waiters
  <2>5. Cardinality(Nodes(child_list[p], d)) \in Nat /\ Cardinality(Waiters(p, d)) \in Nat
    BY NodesFinite, WaitersFinite DEF STypeOK
  <2> QED BY <1>8, <2>1, <2>2, <2>3, <2>4, <2>5 DEF Balance, One
<1>14. ChildrenOf(p)'
  BY <1>12, <1>13 DEF ChildrenOf
<1> QED BY <1>7, <1>9, <1>10, <1>14 DEF TreeInv

(* Every step.                                                              *)
LEMMA ForkWaitKeepsTree ==
    ASSUME STypeOK, LockInv, TreeInv, NEW p \in Pids, NEW t \in Threads,
           ForkStep(p, t) \/ WaitStep(p, t)
    PROVE  TreeInv'
<1>1. t \in AllThreads
  BY DEF AllThreads
<1>2. CASE ForkBegin(p, t)
  <2>1. /\ pc[p][t] = "run" /\ Goto(p, t, "forking") /\ "forking" \in Labels
        /\ UNCHANGED <<status, parent, child_list, arg>>
    BY <1>2 DEF ForkBegin, At, kernel, state, Labels, Inside
  <2> QED BY <1>1, <2>1, GotoPlaces, GotoElsewhere, PlainKeepsTree DEF Plain
<1>3. CASE ForkFails(p, t)
  <2>1. /\ pc[p][t] = "forking" /\ Goto(p, t, "killing") /\ "killing" \in Exiting
        /\ UNCHANGED <<status, parent, child_list, arg>>
    BY <1>3 DEF ForkFails, At, kernel, state, Exiting
  <2> QED BY <1>1, <2>1, LeaveKeepsTree DEF Inside
<1>4. CASE SpawnSigThread(p, t)
  <2>1. /\ pc' = [pc EXCEPT ![p][t] = "run", ![p][Sig] = "sigwait"] /\ pc[p][t] = "spawning"
        /\ UNCHANGED <<status, parent, child_list, arg>>
    BY <1>4 DEF SpawnSigThread, At, kernel, state
  <2>2. t # Sig /\ Sig \in AllThreads /\ pc[p][Sig] = "none"
    BY <1>1, <2>1, SysInputs DEF LockInv, NewAlone, AllThreads
  <2>3. /\ pc'[p][t] = "run" /\ pc'[p][Sig] = "sigwait"
        /\ \A u \in AllThreads : u \notin {t, Sig} => pc'[p][u] = pc[p][u]
        /\ \A q \in Pids : q # p => pc'[q] = pc[q]
    BY <1>1, <2>1, <2>2 DEF STypeOK
  <2>4. \A u \in AllThreads : pc'[p][u] = pc[p][u] \/ {pc[p][u], pc'[p][u]} \subseteq Plain
    BY <2>1, <2>2, <2>3 DEF Plain
  <2> QED BY <2>1, <2>3, <2>4, PlainKeepsTree
<1>5. CASE SpawnFails(p, t)
  <2>1. /\ pc[p][t] = "spawning" /\ owner[p] = None /\ Goto(p, t, "killing") /\ "killing" \in Exiting
        /\ UNCHANGED <<status, parent, child_list, arg>>
    BY <1>5 DEF SpawnFails, Lock, At, kernel, state, Exiting
  <2> QED BY <1>1, <2>1, LeaveKeepsTree
<1> QED
  BY <1>2, <1>3, <1>4, <1>5, PushKeepsTree, PushFailsKeepsTree, UndoKeepsTree, PrepareKeepsTree,
     ForkKeepsTree, UnlistKeepsTree, WaitpidKeepsTree DEF ForkStep, WaitStep

LEMMA ExitStepKeepsTree ==
    ASSUME STypeOK, LockInv, TreeInv, NEW p \in Pids, NEW t \in AllThreads, ExitStep(p, t)
    PROVE  TreeInv'
<1>1. CASE Kill(p, t)
  <2>1. /\ pc[p][t] = "killing" /\ Goto(p, t, "reaping") /\ "reaping" \in Exiting
        /\ UNCHANGED <<status, parent, child_list, arg>>
    BY <1>1 DEF Kill, At, state, Exiting
  <2> QED BY <2>1, LeaveKeepsTree DEF Inside
<1>2. CASE FreeState(p, t)
  <2>1. /\ pc[p][t] = "killing" /\ Goto(p, t, "freed") /\ "freed" \in Exiting
        /\ UNCHANGED <<status, parent, child_list, arg>>
    BY <1>2 DEF FreeState, At, kernel, state, Exiting
  <2> QED BY <2>1, LeaveKeepsTree DEF Inside
<1> QED BY <1>1, <1>2, ReapKeepsTree, ExitKeepsTree DEF ExitStep

LEMMA SafeExitKeepsTree ==
    ASSUME STypeOK, LockInv, TreeInv, NEW p \in Pids, NEW t \in AllThreads, SafeExit(p, t)
    PROVE  TreeInv'
<1>1. /\ pc[p][t] \in {"run", "routine"} /\ Goto(p, t, "killing") /\ "killing" \in Exiting
      /\ owner[p] = None /\ UNCHANGED <<status, parent, child_list, arg>>
  BY DEF SafeExit, Lock, At, kernel, state, Exiting
<1> QED BY <1>1, LeaveKeepsTree

LEMMA UserKeepsTree ==
    ASSUME STypeOK, LockInv, TreeInv, NEW p \in Pids, NEW t \in Threads, UserStep(p, t)
    PROVE  TreeInv'
<1>1. t \in AllThreads
  BY DEF AllThreads
<1>2. CASE SafeExit(p, t)
  BY <1>1, <1>2, SafeExitKeepsTree
<1>3. CASE StartThread(p, t)
  <2>1. /\ pc[p][t] = "none" /\ Goto(p, t, "run") /\ "run" \in Labels
        /\ UNCHANGED <<status, parent, child_list, arg>>
    BY <1>3 DEF StartThread, At, kernel, state, Labels
  <2> QED BY <1>1, <2>1, GotoPlaces, GotoElsewhere, PlainKeepsTree DEF Plain
<1>4. CASE SetSigExit(p, t)
  BY <1>4, PlainKeepsTree DEF SetSigExit, kernel
<1>5. ASSUME NEW l \in {"run", "counting", "freeing"}, Goto(p, t, l), pc[p][t] \in Plain,
             UNCHANGED <<status, parent, child_list, arg>>
      PROVE  TreeInv'
  <2>1. l \in Labels /\ l \in Plain
    BY DEF Labels, Plain
  <2> QED BY <1>1, <1>5, <2>1, GotoPlaces, GotoElsewhere, PlainKeepsTree
<1>6. ASSUME FatalInside(p, t), pc[p][t] \in {"run", "counting"}, owner[p] = None,
             UNCHANGED <<status, parent, child_list, arg>>
      PROVE  TreeInv'
  <2>1. Goto(p, t, "killing") /\ "killing" \in Exiting
    BY <1>6 DEF FatalInside, Exiting
  <2> QED BY <1>1, <1>6, <2>1, LeaveKeepsTree
<1>7. CASE Malloc(p, t)
  BY <1>5, <1>7 DEF Malloc, At, kernel, Plain
<1>8. CASE Count(p, t)
  BY <1>5, <1>6, <1>8 DEF Count, At, kernel, Plain
<1>9. CASE Uncount(p, t)
  BY <1>5, <1>6, <1>9 DEF Uncount, At, kernel, Plain
<1>10. CASE Free(p, t)
  BY <1>5, <1>10 DEF Free, At, kernel, Plain
<1> QED BY <1>2, <1>3, <1>4, <1>7, <1>8, <1>9, <1>10 DEF UserStep

LEMMA SigKeepsTree ==
    ASSUME STypeOK, LockInv, TreeInv, NEW p \in Pids, SigStep(p) \/ Interrupt(p)
    PROVE  TreeInv'
<1>1. Sig \in AllThreads
  BY DEF AllThreads
<1>2. ASSUME SigWait(p) \/ SigRequest(p) PROVE TreeInv'
  <2>1. PICK l \in {"signalled", "routine", "none"} : Goto(p, Sig, l)
    BY <1>2 DEF SigWait, SigRequest
  <2>2. /\ pc[p][Sig] \in {"sigwait", "signalled"} /\ l \in Labels
        /\ UNCHANGED <<status, parent, child_list, arg>>
    BY <1>2 DEF SigWait, SigRequest, At, kernel, state, Labels
  <2> QED BY <1>1, <2>1, <2>2, GotoPlaces, GotoElsewhere, PlainKeepsTree DEF Plain
<1>3. CASE SafeExit(p, Sig)
  BY <1>1, <1>3, SafeExitKeepsTree
<1>4. CASE Interrupt(p)
  BY <1>4, PlainKeepsTree DEF Interrupt, state
<1> QED BY <1>2, <1>3, <1>4 DEF SigStep

-----------------------------------------------------------------------------
(* The count of blocks.                                                     *)

(* A thread that has a block which is not counted.                          *)
Busy == {"counting", "freeing"}

(* The blocks of a process where the threads that have one stay.            *)
LEMMA SameInFlight ==
    ASSUME NEW q \in Pids,
           \A u \in Threads : pc'[q][u] = pc[q][u] \/ (pc[q][u] \notin Busy /\ pc'[q][u] \notin Busy)
    PROVE  InFlight(q)' = InFlight(q)
  BY DEF InFlight, Busy

(* One thread more, or one less.                                            *)
LEMMA BusyMoves ==
    ASSUME STypeOK, NEW p \in Pids, NEW t \in Threads, NEW l \in Labels, Goto(p, t, l),
           pc[p][t] \in Busy <=> l \notin Busy
    PROVE  /\ Cardinality(InFlight(p))' = Cardinality(InFlight(p)) + IF l \in Busy THEN 1 ELSE -1
           /\ \A q \in Pids : q # p => InFlight(q)' = InFlight(q)
<1>1. t \in AllThreads /\ Threads \subseteq AllThreads
  BY DEF AllThreads
<1>2. /\ pc'[p][t] = l
      /\ \A q \in Pids, u \in AllThreads : q # p \/ u # t => pc'[q][u] = pc[q][u]
  BY <1>1, GotoPlaces
<1>3. IsFiniteSet(InFlight(p)) /\ Cardinality(InFlight(p)) \in Nat
  BY InFlightFinite
<1>4. \A q \in Pids : q # p => InFlight(q)' = InFlight(q)
  BY <1>1, <1>2, SameInFlight
<1>5. CASE l \in Busy
  <2>1. t \notin InFlight(p) /\ InFlight(p)' = InFlight(p) \cup {t}
    BY <1>1, <1>2, <1>5 DEF InFlight, Busy
  <2> QED BY <1>3, <1>4, <1>5, <2>1, FS_AddElement
<1>6. CASE l \notin Busy
  <2>1. t \in InFlight(p) /\ InFlight(p)' = InFlight(p) \ {t}
    BY <1>1, <1>2, <1>6 DEF InFlight, Busy
  <2>2. Cardinality(InFlight(p) \ {t}) = Cardinality(InFlight(p)) - 1
    BY <1>3, <2>1, FS_RemoveElement
  <2> QED BY <1>3, <1>4, <1>6, <2>1, <2>2
<1> QED BY <1>5, <1>6

(* A step in one process, after which its numbers agree.                    *)
LEMMA AgreesThere ==
    ASSUME STypeOK, BlocksCounted, NEW p \in Pids,
           \A q \in Pids : q # p => /\ malloc_count'[q] = malloc_count[q] /\ heap'[q] = heap[q]
                                    /\ stray'[q] = stray[q] /\ InFlight(q)' = InFlight(q),
           malloc_count'[p] + Cardinality(InFlight(p))' + stray'[p] = heap'[p]
    PROVE  BlocksCounted'
  BY DEF BlocksCounted

(* A step that moves no block.                                              *)
LEMMA NoBlockMoves ==
    ASSUME BlocksCounted, UNCHANGED <<malloc_count, heap, stray>>,
           \A q \in Pids, u \in Threads :
               pc'[q][u] = pc[q][u] \/ (pc[q][u] \notin Busy /\ pc'[q][u] \notin Busy)
    PROVE  BlocksCounted'
<1>1. \A q \in Pids : InFlight(q)' = InFlight(q)
  BY SameInFlight
<1> QED BY <1>1 DEF BlocksCounted

LEMMA GoesKeepsCount ==
    ASSUME STypeOK, BlocksCounted, NEW p \in Pids, NEW t \in AllThreads, NEW l \in Labels,
           Goto(p, t, l), UNCHANGED <<malloc_count, heap, stray>>,
           t = Sig \/ (pc[p][t] \notin Busy /\ l \notin Busy)
    PROVE  BlocksCounted'
<1>1. Threads \subseteq AllThreads /\ Sig \notin Threads
  BY SysInputs DEF AllThreads
<1>2. /\ pc'[p][t] = l
      /\ \A q \in Pids, u \in AllThreads : q # p \/ u # t => pc'[q][u] = pc[q][u]
  BY GotoPlaces
<1>3. \A q \in Pids, u \in Threads :
          pc'[q][u] = pc[q][u] \/ (pc[q][u] \notin Busy /\ pc'[q][u] \notin Busy)
  BY <1>1, <1>2
<1> QED BY <1>3, NoBlockMoves

(* A fork: a block in flight in the parent is a stray one of the child.     *)
LEMMA ForkKeepsCount ==
    ASSUME STypeOK, BlocksCounted, NEW p \in Pids, NEW t \in Threads, NEW c \in Pids, Fork(p, t, c)
    PROVE  BlocksCounted'
<1>1. t \in AllThreads /\ Threads \subseteq AllThreads
  BY DEF AllThreads
<1>2. c # p /\ pc[p][t] = "forking"
  BY DEF Fork, At
<1>3. /\ \A u \in AllThreads : pc'[c][u] = IF u = t THEN "preparing" ELSE "none"
      /\ pc'[p][t] = "forked"
      /\ \A q \in Pids, u \in AllThreads : q # c /\ (q # p \/ u # t) => pc'[q][u] = pc[q][u]
  <2>1. pc' = [pc EXCEPT ![p][t] = "forked",
                         ![c] = [u \in AllThreads |-> IF u = t THEN "preparing" ELSE "none"]]
    BY DEF Fork
  <2>2. pc \in [Pids -> [AllThreads -> Labels]]
    BY DEF STypeOK
  <2> QED BY <1>1, <1>2, <2>1, <2>2
<1>4. /\ malloc_count'[c] = malloc_count[p] /\ heap'[c] = heap[p]
      /\ stray'[c] = stray[p] + Cardinality(InFlight(p))
      /\ \A q \in Pids : q # c => /\ malloc_count'[q] = malloc_count[q] /\ heap'[q] = heap[q]
                                  /\ stray'[q] = stray[q]
  BY DEF Fork, Copy, STypeOK
<1>5. InFlight(c)' = {} /\ Cardinality({}) = 0
  BY <1>1, <1>3, FS_EmptySet DEF InFlight
<1>6. \A q \in Pids : q # c => InFlight(q)' = InFlight(q)
  <2> SUFFICES ASSUME NEW q \in Pids, q # c PROVE InFlight(q)' = InFlight(q)
    OBVIOUS
  <2>1. \A u \in Threads : pc'[q][u] = pc[q][u] \/ (pc[q][u] \notin Busy /\ pc'[q][u] \notin Busy)
    BY <1>1, <1>2, <1>3 DEF Busy
  <2> QED BY <2>1, SameInFlight
<1>7. malloc_count'[c] + Cardinality(InFlight(c))' + stray'[c] = heap'[c]
  <2>1. malloc_count[p] + Cardinality(InFlight(p)) + stray[p] = heap[p]
    BY DEF BlocksCounted
  <2>2. malloc_count[p] \in Nat /\ Cardinality(InFlight(p)) \in Nat /\ stray[p] \in Nat
    BY InFlightFinite, SysInputs DEF STypeOK
  <2> QED BY <1>4, <1>5, <2>1, <2>2
<1> QED BY <1>4, <1>6, <1>7, AgreesThere

LEMMA ExitKeepsCount ==
    ASSUME STypeOK, BlocksCounted, NEW p \in Pids, NEW t \in AllThreads, Exit(p, t)
    PROVE  BlocksCounted'
<1>1. Threads \subseteq AllThreads
  BY DEF AllThreads
<1>2. /\ \A u \in AllThreads : pc'[p][u] = "none"
      /\ \A q \in Pids : q # p => pc'[q] = pc[q]
  BY DEF Exit, STypeOK
<1>3. /\ malloc_count'[p] = 0 /\ heap'[p] = 0 /\ stray'[p] = 0
      /\ \A q \in Pids : q # p => /\ malloc_count'[q] = malloc_count[q] /\ heap'[q] = heap[q]
                                  /\ stray'[q] = stray[q]
  BY DEF Exit, STypeOK
<1>4. InFlight(p)' = {} /\ Cardinality({}) = 0
  BY <1>1, <1>2, FS_EmptySet DEF InFlight
<1>5. \A q \in Pids : q # p => InFlight(q)' = InFlight(q)
  BY <1>2 DEF InFlight
<1> QED BY <1>3, <1>4, <1>5, AgreesThere

(* safe_malloc and safe_free.                                               *)
LEMMA BlockKeepsCount ==
    ASSUME STypeOK, BlocksCounted, NEW p \in Pids, NEW t \in Threads,
           Malloc(p, t) \/ Count(p, t) \/ Uncount(p, t) \/ Free(p, t)
    PROVE  BlocksCounted'
<1>1. t \in AllThreads
  BY DEF AllThreads
<1>2. /\ malloc_count[p] + Cardinality(InFlight(p)) + stray[p] = heap[p]
      /\ malloc_count[p] \in Nat /\ Cardinality(InFlight(p)) \in Nat /\ stray[p] \in Nat
  BY InFlightFinite, SysInputs DEF BlocksCounted, STypeOK
<1>3. "run" \in Labels /\ "counting" \in Labels /\ "freeing" \in Labels /\ "killing" \in Labels
  BY DEF Labels, Inside
<1>4. CASE Malloc(p, t)
  <2>1. /\ pc[p][t] = "run" /\ Goto(p, t, "counting") /\ UNCHANGED <<malloc_count, stray>>
        /\ heap' = [heap EXCEPT ![p] = @ + 1]
    BY <1>4 DEF Malloc, At
  <2>2. /\ Cardinality(InFlight(p))' = Cardinality(InFlight(p)) + 1
        /\ \A q \in Pids : q # p => InFlight(q)' = InFlight(q)
    BY <1>3, <2>1, BusyMoves DEF Busy
  <2>3. heap'[p] = heap[p] + 1 /\ \A q \in Pids : q # p => heap'[q] = heap[q]
    BY <2>1 DEF STypeOK
  <2> QED BY <1>2, <2>1, <2>2, <2>3, AgreesThere
<1>5. CASE Count(p, t)
  <2>1. pc[p][t] = "counting" /\ UNCHANGED heap
    BY <1>5 DEF Count, At
  <2>2. CASE malloc_count[p] = CountMax
    <3>1. /\ Goto(p, t, "killing") /\ UNCHANGED malloc_count
          /\ stray' = [stray EXCEPT ![p] = @ + 1]
      BY <1>5, <2>2 DEF Count, FatalInside
    <3>2. /\ Cardinality(InFlight(p))' = Cardinality(InFlight(p)) - 1
          /\ \A q \in Pids : q # p => InFlight(q)' = InFlight(q)
      BY <1>2, <1>3, <2>1, <3>1, BusyMoves DEF Busy
    <3>3. stray'[p] = stray[p] + 1 /\ \A q \in Pids : q # p => stray'[q] = stray[q]
      BY <3>1 DEF STypeOK
    <3> QED BY <1>2, <2>1, <3>1, <3>2, <3>3, AgreesThere
  <2>3. CASE malloc_count[p] # CountMax
    <3>1. /\ Goto(p, t, "run") /\ UNCHANGED stray
          /\ malloc_count' = [malloc_count EXCEPT ![p] = @ + 1]
      BY <1>5, <2>3 DEF Count
    <3>2. /\ Cardinality(InFlight(p))' = Cardinality(InFlight(p)) - 1
          /\ \A q \in Pids : q # p => InFlight(q)' = InFlight(q)
      BY <1>2, <1>3, <2>1, <3>1, BusyMoves DEF Busy
    <3>3. /\ malloc_count'[p] = malloc_count[p] + 1
          /\ \A q \in Pids : q # p => malloc_count'[q] = malloc_count[q]
      BY <3>1 DEF STypeOK
    <3> QED BY <1>2, <2>1, <3>1, <3>2, <3>3, AgreesThere
  <2> QED BY <2>2, <2>3
<1>6. CASE Uncount(p, t)
  <2>1. pc[p][t] = "run" /\ UNCHANGED <<heap, stray>>
    BY <1>6 DEF Uncount, At
  <2>2. CASE malloc_count[p] = 0
    <3>1. Goto(p, t, "killing") /\ UNCHANGED malloc_count
      BY <1>6, <2>2 DEF Uncount, FatalInside
    <3> QED BY <1>1, <1>3, <2>1, <3>1, GoesKeepsCount DEF Busy
  <2>3. CASE malloc_count[p] # 0
    <3>1. Goto(p, t, "freeing") /\ malloc_count' = [malloc_count EXCEPT ![p] = @ - 1]
      BY <1>6, <2>3 DEF Uncount
    <3>2. /\ Cardinality(InFlight(p))' = Cardinality(InFlight(p)) + 1
          /\ \A q \in Pids : q # p => InFlight(q)' = InFlight(q)
      BY <1>3, <2>1, <3>1, BusyMoves DEF Busy
    <3>3. /\ malloc_count'[p] = malloc_count[p] - 1
          /\ \A q \in Pids : q # p => malloc_count'[q] = malloc_count[q]
      BY <3>1 DEF STypeOK
    <3> QED BY <1>2, <2>1, <3>2, <3>3, AgreesThere
  <2> QED BY <2>2, <2>3
<1>7. CASE Free(p, t)
  <2>1. /\ pc[p][t] = "freeing" /\ Goto(p, t, "run") /\ UNCHANGED <<malloc_count, stray>>
        /\ heap' = [heap EXCEPT ![p] = @ - 1]
    BY <1>7 DEF Free, At
  <2>2. /\ Cardinality(InFlight(p))' = Cardinality(InFlight(p)) - 1
        /\ \A q \in Pids : q # p => InFlight(q)' = InFlight(q)
    BY <1>2, <1>3, <2>1, BusyMoves DEF Busy
  <2>3. heap'[p] = heap[p] - 1 /\ \A q \in Pids : q # p => heap'[q] = heap[q]
    BY <2>1 DEF STypeOK
  <2> QED BY <1>2, <2>1, <2>2, <2>3, AgreesThere
<1> QED BY <1>4, <1>5, <1>6, <1>7

LEMMA NextKeepsCount ==
    ASSUME STypeOK, BlocksCounted, [Next]_vars
    PROVE  BlocksCounted'
<1>1. CASE UNCHANGED <<malloc_count, heap, stray, pc>>
  BY <1>1, NoBlockMoves
<1>2. ASSUME NEW p \in Pids, NEW t \in AllThreads, NEW l \in Labels \ Busy, Goto(p, t, l),
             t = Sig \/ pc[p][t] \notin Busy, UNCHANGED <<malloc_count, heap, stray>>
      PROVE  BlocksCounted'
  BY <1>2, GoesKeepsCount
<1>3. Threads \subseteq AllThreads /\ Sig \in AllThreads /\ Sig \notin Threads
  BY SysInputs DEF AllThreads
<1>4. (Inside \cup {"run", "spawning", "reaped", "signalled", "routine", "none"}) \subseteq Labels \ Busy
  BY DEF Labels, Inside, Busy
<1>5. ASSUME NEW p \in Pids, NEW t \in Threads, ForkStep(p, t) PROVE BlocksCounted'
  <2>1. CASE SpawnSigThread(p, t)
    <3>1. /\ pc[p][t] = "spawning" /\ UNCHANGED <<malloc_count, heap, stray>>
          /\ pc' = [pc EXCEPT ![p][t] = "run", ![p][Sig] = "sigwait"]
      BY <2>1 DEF SpawnSigThread, At, state
    <3>2. /\ pc'[p][t] = "run"
          /\ \A q \in Pids, u \in Threads : q # p \/ u # t => pc'[q][u] = pc[q][u]
      BY <1>3, <3>1 DEF STypeOK
    <3> QED BY <3>1, <3>2, NoBlockMoves DEF Busy
  <2>2. ASSUME NEW c \in Pids, Fork(p, t, c) PROVE BlocksCounted'
    BY <2>2, ForkKeepsCount
  <2>3. ASSUME ForkBegin(p, t) \/ ForkFails(p, t) \/ Push(p, t) \/ PushFails(p, t) \/ Undo(p, t)
               \/ PrepareFromChild(p, t) \/ SpawnFails(p, t)
        PROVE  BlocksCounted'
    <3>1. pc[p][t] \notin Busy /\ UNCHANGED <<malloc_count, heap, stray>>
      BY <2>3 DEF ForkBegin, ForkFails, Push, PushFails, Undo, PrepareFromChild, SpawnFails, At,
                  state, Busy
    <3>2. \E l \in {"forking", "killing", "run", "undoing", "spawning"} : Goto(p, t, l)
      BY <2>3 DEF ForkBegin, ForkFails, Push, PushFails, Undo, PrepareFromChild, SpawnFails
    <3> QED BY <1>2, <1>3, <1>4, <3>1, <3>2 DEF Inside
  <2> QED BY <1>5, <2>1, <2>2, <2>3 DEF ForkStep
<1>6. ASSUME NEW p \in Pids, NEW t \in Threads, WaitStep(p, t) PROVE BlocksCounted'
  <2>1. pc[p][t] \notin Busy /\ UNCHANGED <<malloc_count, heap, stray>>
    BY <1>6 DEF WaitStep, Unlist, Waitpid, At, state, Busy
  <2>2. \E l \in {"run", "killing", "reaped"} : Goto(p, t, l)
    BY <1>6 DEF WaitStep, Unlist, Waitpid
  <2> QED BY <1>2, <1>3, <1>4, <2>1, <2>2 DEF Inside
<1>7. ASSUME NEW p \in Pids, NEW t \in AllThreads, ExitStep(p, t) PROVE BlocksCounted'
  <2>1. CASE Exit(p, t)
    BY <2>1, ExitKeepsCount
  <2>2. ASSUME Kill(p, t) \/ Reap(p, t) \/ FreeState(p, t) PROVE BlocksCounted'
    <3>1. pc[p][t] \notin Busy /\ UNCHANGED <<malloc_count, heap, stray>>
      BY <2>2 DEF Kill, Reap, FreeState, At, state, Busy
    <3>2. \E l \in {"reaping", "killing", "freed"} : Goto(p, t, l)
      BY <2>2 DEF Kill, Reap, FreeState
    <3> QED BY <1>2, <1>4, <3>1, <3>2 DEF Inside
  <2> QED BY <1>7, <2>1, <2>2 DEF ExitStep
<1>8. ASSUME NEW p \in Pids, NEW t \in AllThreads, SafeExit(p, t) PROVE BlocksCounted'
  <2>1. pc[p][t] \notin Busy /\ Goto(p, t, "killing") /\ UNCHANGED <<malloc_count, heap,
                                                                     stray>>
    BY <1>8 DEF SafeExit, At, state, Busy
  <2> QED BY <1>2, <1>4, <2>1 DEF Inside
<1>9. ASSUME NEW p \in Pids, NEW t \in Threads, UserStep(p, t) PROVE BlocksCounted'
  <2>1. CASE StartThread(p, t)
    <3>1. pc[p][t] \notin Busy /\ Goto(p, t, "run") /\ UNCHANGED <<malloc_count, heap,
                                                                   stray>>
      BY <2>1 DEF StartThread, At, state, Busy
    <3> QED BY <1>2, <1>3, <1>4, <3>1
  <2>2. CASE SetSigExit(p, t)
    BY <1>1, <2>2 DEF SetSigExit
  <2>3. t \in AllThreads
    BY <1>3
  <2> QED BY <1>8, <1>9, <2>1, <2>2, <2>3, BlockKeepsCount DEF UserStep
<1>10. ASSUME NEW p \in Pids, SigStep(p) \/ Interrupt(p) PROVE BlocksCounted'
  <2>1. CASE SafeExit(p, Sig)
    BY <1>3, <1>8, <2>1
  <2>2. CASE Interrupt(p)
    BY <1>1, <2>2 DEF Interrupt, state
  <2>3. ASSUME SigWait(p) \/ SigRequest(p) PROVE BlocksCounted'
    <3>1. UNCHANGED <<malloc_count, heap, stray>>
      BY <2>3 DEF SigWait, SigRequest, state
    <3>2. \E l \in {"signalled", "routine", "none"} : Goto(p, Sig, l)
      BY <2>3 DEF SigWait, SigRequest
    <3> QED BY <1>2, <1>3, <1>4, <3>1, <3>2
  <2> QED BY <1>10, <2>1, <2>2, <2>3 DEF SigStep
<1>11. CASE UNCHANGED vars
  BY <1>1, <1>11 DEF vars, state
<1> QED BY <1>3, <1>5, <1>6, <1>7, <1>9, <1>10, <1>11 DEF Next

-----------------------------------------------------------------------------
(* The theorems.                                                            *)
SysInv == STypeOK /\ LockInv /\ TreeInv /\ BlocksCounted

LEMMA InitInv == SysInit => SysInv
<1> SUFFICES ASSUME SysInit PROVE SysInv
  OBVIOUS
<1>1. STypeOK
  BY InitTypes
<1>2. Threads \subseteq AllThreads /\ None \notin AllThreads /\ None \notin Pids
  BY SysInputs DEF AllThreads
<1>3. /\ \A p \in Pids, t \in AllThreads : pc[p][t] \in {"none", "run", "sigwait"}
      /\ \A p \in Pids, t \in AllThreads : status[p] # "running" => pc[p][t] = "none"
      /\ \A p \in Pids : owner[p] = None /\ child_list[p] = <<>>
      /\ \A p \in Pids : malloc_count[p] = 0 /\ heap[p] = 0 /\ stray[p] = 0
      /\ \A p \in Pids : parent[p] = None /\ (status[p] # "none" => p = Root)
  BY DEF SysInit
<1>4. LockInv
  <2>1. ArgIsPid /\ Quiet /\ NewAlone /\ ExitList
    BY <1>3 DEF ArgIsPid, Quiet, NewAlone, ExitList
  <2>2. LockUsable
    BY <1>2, <1>3 DEF LockUsable, Inside
  <2> QED BY <2>1, <2>2 DEF LockInv
<1>5. ASSUME NEW p \in Pids PROVE ChildrenOf(p)
  <2>1. ~New(p) /\ ~Leaving(p)
    BY <1>2, <1>3 DEF New, Leaving, Exiting
  <2>2. ASSUME NEW c \in Pids PROVE Balance(p, c)
    <3>1. Waiters(p, c) = {} /\ ~Forked(p, c) /\ Nodes(child_list[p], c) = {} /\ ~Child(c, p)
      BY <1>2, <1>3 DEF Waiters, Forked, Nodes, Child
    <3> QED BY <3>1, FS_EmptySet DEF Balance, One
  <2> QED BY <2>1, <2>2 DEF ChildrenOf
<1>6. NoOrphans
  BY <1>3 DEF NoOrphans
<1>7. BlocksCounted
  <2>1. \A p \in Pids : InFlight(p) = {}
    BY <1>2, <1>3 DEF InFlight
  <2>2. Cardinality({}) = 0
    BY FS_EmptySet
  <2>3. \A p \in Pids : Cardinality(InFlight(p)) = 0
    BY <2>1, <2>2
  <2> QED BY <1>3, <2>3 DEF BlocksCounted
<1> QED BY <1>1, <1>4, <1>5, <1>6, <1>7 DEF SysInv, TreeInv

LEMMA NextInv == SysInv /\ [Next]_vars => SysInv'
<1> SUFFICES ASSUME SysInv, [Next]_vars PROVE SysInv'
  OBVIOUS
<1> USE DEF SysInv
<1>1. BlocksCounted'
  BY NextKeepsCount
<1>2. ASSUME NEW p \in Pids, NEW t \in Threads, ForkStep(p, t) \/ WaitStep(p, t) PROVE SysInv'
  BY <1>1, <1>2, ChildTypes, ForkWaitKeepsLock, ForkWaitKeepsTree
<1>3. ASSUME NEW p \in Pids, NEW t \in AllThreads, ExitStep(p, t) PROVE SysInv'
  BY <1>1, <1>3, ExitTypes, ExitStepKeepsLock, ExitStepKeepsTree
<1>4. ASSUME NEW p \in Pids, NEW t \in Threads, UserStep(p, t) PROVE SysInv'
  <2>1. t \in AllThreads
    BY DEF AllThreads
  <2> QED BY <1>1, <1>4, <2>1, UserTypes, UserKeepsLock, UserKeepsTree
<1>5. ASSUME NEW p \in Pids, SigStep(p) \/ Interrupt(p) PROVE SysInv'
  BY <1>1, <1>5, SigTypes, SigKeepsLock, SigKeepsTree
<1>6. CASE UNCHANGED vars
  <2>1. UNCHANGED <<status, owner, child_list, pc, arg>> /\ UNCHANGED <<status, parent, child_list, arg>>
    BY <1>6 DEF vars, kernel, state
  <2>2. STypeOK'
    BY <1>6 DEF vars, kernel, state, STypeOK
  <2>3. TreeInv'
    <3>1. NoOrphans' /\ \A c, q \in Pids : Child(c, q)' <=> Child(c, q)
      BY <2>1, SameTree DEF TreeInv
    <3> QED BY <2>1, <3>1, SameChildren DEF TreeInv
  <2> QED BY <1>1, <2>1, <2>2, <2>3, StillKeepsLock
<1>7. Threads \subseteq AllThreads /\ Sig \in AllThreads
  BY DEF AllThreads
<1> QED BY <1>2, <1>3, <1>4, <1>5, <1>6, <1>7 DEF Next

LEMMA Invariance == Spec => []SysInv
  BY InitInv, NextInv, PTL DEF Spec

(* Every field keeps its type, and a pid that fork or waitpid returned is   *)
(* one of a process.                                                        *)
THEOREM TypeCorrect == Spec => []STypeOK
<1>1. SysInv => STypeOK
  BY DEF SysInv
<1> QED BY <1>1, Invariance, PTL

(* A thread has the system lock exactly while it is inside a section, in    *)
(* every process of the tree: safe_fork leaves no child with a mutex that   *)
(* nobody will release, and log_fatal_p(false) is reached with the lock.    *)
THEOREM LockAlwaysUsable == Spec => []LockUsable
<1>1. SysInv => LockUsable
  BY DEF SysInv, LockInv
<1> QED BY <1>1, Invariance, PTL

(* safe_fork and safe_waitpid keep the list of the children that are there, *)
(* however they interleave and however the kernel reuses pids.              *)
THEOREM ChildrenAlwaysListed == Spec => []ChildrenListed
<1>1. SysInv => ChildrenListed
  <2> SUFFICES ASSUME SysInv, NEW p \in Pids, NEW c \in Pids, status[p] = "running", owner[p] = None
               PROVE  Cardinality({i \in DOMAIN child_list[p] : child_list[p][i] = c})
                        = Cardinality({t \in Threads : pc[p][t] = "reaped" /\ arg[p][t] = c})
                            + IF Child(c, p) THEN 1 ELSE 0
    BY DEF ChildrenListed
  <2>1. \A t \in AllThreads : pc[p][t] \notin Inside
    BY SysInputs DEF SysInv, LockInv, LockUsable, AllThreads
  <2>2. Threads \subseteq AllThreads
    BY DEF AllThreads
  <2>3. ~New(p) /\ ~Leaving(p) /\ ~Forked(p, c)
    BY <2>1, <2>2 DEF New, Leaving, Forked, Inside, Exiting
  <2>4. Balance(p, c)
    BY <2>3 DEF SysInv, TreeInv, ChildrenOf
  <2>5. /\ Nodes(child_list[p], c) = {i \in DOMAIN child_list[p] : child_list[p][i] = c}
        /\ Waiters(p, c) = {t \in Threads : pc[p][t] = "reaped" /\ arg[p][t] = c}
    BY DEF Nodes, Waiters
  <2>6. Cardinality(Nodes(child_list[p], c)) \in Nat /\ Cardinality(Waiters(p, c)) \in Nat
    BY NodesFinite, WaitersFinite DEF SysInv, STypeOK
  <2> QED BY <2>3, <2>4, <2>5, <2>6 DEF Balance, One
<1> QED BY <1>1, Invariance, PTL

(* safe_exit leaves no child behind.                                        *)
THEOREM NeverOrphans == Spec => []NoOrphans
<1>1. SysInv => NoOrphans
  BY DEF SysInv, TreeInv
<1> QED BY <1>1, Invariance, PTL

(* malloc and its count are two steps, and so are the count and its free;   *)
(* whichever threads are between them when another one forks, the count of  *)
(* each process is that of the blocks its program can give to safe_free, so *)
(* safe_free never meets a count of zero.                                   *)
THEOREM BlocksAlwaysCounted ==
    Spec => [](BlocksCounted /\ \A p \in Pids : MayFree(p) => malloc_count[p] > 0)
<1>1. SysInv => (\A p \in Pids : MayFree(p) => malloc_count[p] > 0)
  <2> SUFFICES ASSUME SysInv, NEW p \in Pids, MayFree(p) PROVE malloc_count[p] > 0
    OBVIOUS
  <2>1. malloc_count[p] + Cardinality(InFlight(p)) + stray[p] = heap[p]
    BY DEF SysInv, BlocksCounted
  <2>2. malloc_count[p] \in Nat /\ Cardinality(InFlight(p)) \in Nat /\ stray[p] \in Nat
    BY InFlightFinite, SysInputs DEF SysInv, STypeOK
  <2> QED BY <2>1, <2>2 DEF MayFree
<1>2. SysInv => BlocksCounted
  BY DEF SysInv
<1> QED BY <1>1, <1>2, Invariance, PTL
=============================================================================
