-------------------------------- MODULE Sys --------------------------------
(***************************************************************************)
(* The process services of chsys: the system lock, the list of children,   *)
(* the count of allocations, exit, and the thread that waits for SIGINT    *)
(* (chsys/src/sys.c, mem.c, log.c), in a tree of processes.                *)
(*                                                                         *)
(* A pid is a number the kernel gives out again once its process was       *)
(* reaped.  Every variable is a function of the pid: fork copies the       *)
(* memory of a process, its mutex as it is then, and only one thread.      *)
(***************************************************************************)
EXTENDS Integers, Sequences, FiniteSets

CONSTANTS
    Pids, Root,        \* the process ids, and that of the first process
    Threads, First,    \* the threads of the program in a process
    Sig,               \* sig_thread
    CountMax,          \* SIZE_MAX
    MaxForks, MaxHeap, \* bounds on the calls of safe_fork and on blocks
    May,               \* what the program of a process does besides fork, wait, exit
    None

ASSUME SysInputs ==
    /\ Root \in Pids /\ First \in Threads /\ IsFiniteSet(Threads)
    /\ Sig \notin Threads /\ None \notin Threads \cup {Sig} /\ None \notin Pids
    /\ May \in [Pids -> SUBSET {"thread", "interrupt", "poll", "malloc"}]
    /\ CountMax \in Nat \ {0} /\ MaxForks \in Nat /\ MaxHeap \in Nat

AllThreads == Threads \cup {Sig}

VARIABLES
    status,     \* of a process: "none" (or reaped), "running", "zombie"
    parent,     \* who may wait for it
    pending,    \* a SIGINT is pending
    owner,      \* who holds sys_mut
    child_list, malloc_count,                   \* ss
    signal_exit_flag, signal_exit_requested,    \* ss
    heap,       \* blocks that are allocated for the program
    stray,      \* history: those of them that no thread has the address of
    pc,         \* where a thread is
    arg,        \* the pid that fork or waitpid returned to it
    forks

kernel == <<status, parent, pending>>
state == <<child_list, malloc_count, signal_exit_flag, signal_exit_requested, heap, stray>>
vars == <<kernel, owner, state, pc, arg, forks>>

At(p, t, l) == status[p] = "running" /\ pc[p][t] = l
Goto(p, t, l) == pc' = [pc EXCEPT ![p][t] = l]
Lock(p, t) == owner[p] = None /\ owner' = [owner EXCEPT ![p] = t]
Unlock(p) == owner' = [owner EXCEPT ![p] = None]
Child(c, p) == status[c] # "none" /\ parent[c] = p

(* sys_init: the first process, with its signal thread.                     *)
SysInit ==
    /\ status = [p \in Pids |-> IF p = Root THEN "running" ELSE "none"]
    /\ parent = [p \in Pids |-> None]
    /\ pending = [p \in Pids |-> FALSE]
    /\ owner = [p \in Pids |-> None]
    /\ child_list = [p \in Pids |-> <<>>]
    /\ malloc_count = [p \in Pids |-> 0]
    /\ signal_exit_flag = [p \in Pids |-> TRUE]
    /\ signal_exit_requested = [p \in Pids |-> FALSE]
    /\ heap = [p \in Pids |-> 0] /\ stray = [p \in Pids |-> 0]
    /\ pc = [p \in Pids |-> [t \in AllThreads |->
                IF p # Root THEN "none"
                ELSE IF t = Sig THEN "sigwait" ELSE IF t = First THEN "run" ELSE "none"]]
    /\ arg = [p \in Pids |-> [t \in AllThreads |-> None]]
    /\ forks = 0

-----------------------------------------------------------------------------
(* safe_fork: the lock is taken before fork and is held on both sides of it.*)
ForkBeginUnlocked(p, t) ==     \* variant: the lock is not taken
    /\ At(p, t, "run")
    /\ Goto(p, t, "forking")
    /\ UNCHANGED <<kernel, owner, state, arg, forks>>

ForkBegin(p, t) ==
    /\ At(p, t, "run")
    /\ Lock(p, t)
    /\ Goto(p, t, "forking")
    /\ UNCHANGED <<kernel, state, arg, forks>>

Copy(f, p, c) == f' = [f EXCEPT ![c] = f[p]]

(* A block that is not counted yet, or no longer, by the thread that has its*)
(* address: if it is another than the one that forks, the child has the     *)
(* block and nobody who knows of it.                                        *)
InFlight(p) == {t \in Threads : pc[p][t] \in {"counting", "freeing"}}

Fork(p, t, c) ==
    /\ At(p, t, "forking") /\ status[c] = "none" /\ forks < MaxForks
    /\ status' = [status EXCEPT ![c] = "running"]
    /\ parent' = [parent EXCEPT ![c] = p]
    /\ pending' = [pending EXCEPT ![c] = FALSE]
    /\ Copy(owner, p, c) /\ Copy(child_list, p, c) /\ Copy(malloc_count, p, c)
    /\ Copy(signal_exit_flag, p, c) /\ Copy(signal_exit_requested, p, c) /\ Copy(heap, p, c)
    /\ stray' = [stray EXCEPT ![c] = stray[p] + Cardinality(InFlight(p))]
    /\ pc' = [pc EXCEPT ![p][t] = "forked",
                        ![c] = [u \in AllThreads |-> IF u = t THEN "preparing" ELSE "none"]]
    /\ arg' = [arg EXCEPT ![p][t] = c, ![c] = [u \in AllThreads |-> None]]
    /\ forks' = forks + 1

(* fork fails: log_fatal_p(false), that is safe_exit_p(false).              *)
ForkFails(p, t) ==
    /\ At(p, t, "forking")
    /\ Goto(p, t, "killing")
    /\ UNCHANGED <<kernel, owner, state, arg, forks>>

PushAfterUnlock(p, t) ==       \* variant: the lock is released, then the node is pushed
    \/ /\ At(p, t, "forked") /\ owner[p] = t
       /\ Unlock(p)
       /\ UNCHANGED <<kernel, state, pc, arg, forks>>
    \/ /\ At(p, t, "forked") /\ owner[p] # t
       /\ child_list' = [child_list EXCEPT ![p] = <<arg[p][t]>> \o @]
       /\ Goto(p, t, "run")
       /\ arg' = [arg EXCEPT ![p][t] = None]
       /\ UNCHANGED <<kernel, owner, malloc_count, signal_exit_flag, signal_exit_requested,
                      heap, stray, forks>>

(* In the parent, the node of the new child is pushed.                      *)
Push(p, t) ==
    /\ At(p, t, "forked")
    /\ child_list' = [child_list EXCEPT ![p] = <<arg[p][t]>> \o @]
    /\ Unlock(p)
    /\ Goto(p, t, "run")
    /\ arg' = [arg EXCEPT ![p][t] = None]
    /\ UNCHANGED <<kernel, malloc_count, signal_exit_flag, signal_exit_requested, heap,
                   stray, forks>>

Sigint(c) == pending' = [pending EXCEPT ![c] = @ \/ status[c] = "running"]

(* No memory for the node: the child is killed and reaped here, then the    *)
(* process exits.                                                           *)
PushFails(p, t) ==
    /\ At(p, t, "forked")
    /\ Sigint(arg[p][t])
    /\ Goto(p, t, "undoing")
    /\ UNCHANGED <<status, parent, owner, state, arg, forks>>

Reaped(c) ==
    /\ status' = [status EXCEPT ![c] = "none"]
    /\ parent' = [parent EXCEPT ![c] = None]
    /\ pending' = [pending EXCEPT ![c] = FALSE]

(* waitpid returns: c is reaped, or it is no child of p.                    *)
WaitReturns(c, p) ==
    \/ Child(c, p) /\ status[c] = "zombie" /\ Reaped(c)
    \/ ~Child(c, p) /\ UNCHANGED kernel

Undo(p, t) ==
    /\ At(p, t, "undoing")
    /\ WaitReturns(arg[p][t], p)
    /\ Goto(p, t, "killing")
    /\ arg' = [arg EXCEPT ![p][t] = None]
    /\ UNCHANGED <<owner, state, forks>>

ForgetBlocks(p, t) ==          \* variant: the child starts with a count of zero
    /\ At(p, t, "preparing")
    /\ child_list' = [child_list EXCEPT ![p] = <<>>]
    /\ malloc_count' = [malloc_count EXCEPT ![p] = 0]
    /\ Unlock(p)
    /\ Goto(p, t, "spawning")
    /\ UNCHANGED <<kernel, signal_exit_flag, signal_exit_requested, heap, stray, arg,
                   forks>>

(* prepare_from_child: the copied list is freed and the lock released ...   *)
PrepareFromChild(p, t) ==
    /\ At(p, t, "preparing")
    /\ child_list' = [child_list EXCEPT ![p] = <<>>]
    /\ Unlock(p)
    /\ Goto(p, t, "spawning")
    /\ UNCHANGED <<kernel, malloc_count, signal_exit_flag, signal_exit_requested, heap,
                   stray, arg, forks>>

NoSigThread(p, t) ==           \* variant: the child runs without a signal thread
    /\ At(p, t, "spawning")
    /\ Goto(p, t, "run")
    /\ UNCHANGED <<kernel, owner, state, arg, forks>>

(* ... then the signal thread, which fork did not copy, is created again.   *)
SpawnSigThread(p, t) ==
    /\ At(p, t, "spawning")
    /\ pc' = [pc EXCEPT ![p][t] = "run", ![p][Sig] = "sigwait"]
    /\ UNCHANGED <<kernel, owner, state, arg, forks>>

(* If it cannot be created: log_fatal_p(true).                              *)
SpawnFails(p, t) ==
    /\ At(p, t, "spawning")
    /\ Lock(p, t)
    /\ Goto(p, t, "killing")
    /\ UNCHANGED <<kernel, state, arg, forks>>

-----------------------------------------------------------------------------
(* safe_waitpid reaps a child, for its pid or for any, without the lock.    *)
(* (With WNOHANG it may find none and return; an error is fatal: SafeExit.) *)
Waitpid(p, t, c) ==
    /\ At(p, t, "run") /\ Child(c, p) /\ status[c] = "zombie"
    /\ Reaped(c)
    /\ Goto(p, t, "reaped")
    /\ arg' = [arg EXCEPT ![p][t] = c]
    /\ UNCHANGED <<owner, state, forks>>

Listed(p, c) == \E i \in DOMAIN child_list[p] : child_list[p][i] = c

FirstOf(s, c) == CHOOSE i \in DOMAIN s : s[i] = c /\ \A j \in 1..(i - 1) : s[j] # c
Without(s, c) == [i \in 1..(Len(s) - 1) |-> IF i < FirstOf(s, c) THEN s[i] ELSE s[i + 1]]

(* Then the first node with its pid is taken out of the list; if there is   *)
(* none, log_fatal_p(false).                                                *)
Unlist(p, t) ==
    /\ At(p, t, "reaped") /\ owner[p] = None
    /\ IF Listed(p, arg[p][t])
       THEN /\ child_list' = [child_list EXCEPT ![p] = Without(@, arg[p][t])]
            /\ Goto(p, t, "run")
            /\ UNCHANGED owner
       ELSE /\ owner' = [owner EXCEPT ![p] = t]
            /\ Goto(p, t, "killing")
            /\ UNCHANGED child_list
    /\ arg' = [arg EXCEPT ![p][t] = None]
    /\ UNCHANGED <<kernel, malloc_count, signal_exit_flag, signal_exit_requested, heap,
                   stray, forks>>

-----------------------------------------------------------------------------
(* safe_exit, and log_fatal wherever the program meets an error.  The signal*)
(* thread calls it after the exit routine.                                  *)
SafeExit(p, t) ==
    /\ At(p, t, IF t = Sig THEN "routine" ELSE "run")
    /\ Lock(p, t)
    /\ Goto(p, t, "killing")
    /\ UNCHANGED <<kernel, state, arg, forks>>

(* The loop over the children: each gets a SIGINT, which says nothing if    *)
(* it ended before ...                                                      *)
Kill(p, t) ==
    /\ At(p, t, "killing") /\ child_list[p] # <<>>
    /\ Sigint(Head(child_list[p]))
    /\ Goto(p, t, "reaping")
    /\ UNCHANGED <<status, parent, owner, state, arg, forks>>

ReapNoWait(p, t) ==            \* variant: waitpid does not wait
    /\ At(p, t, "reaping")
    /\ LET c == Head(child_list[p])
       IN IF Child(c, p) /\ status[c] = "zombie" THEN Reaped(c) ELSE UNCHANGED kernel
    /\ child_list' = [child_list EXCEPT ![p] = Tail(@)]
    /\ Goto(p, t, "killing")
    /\ UNCHANGED <<owner, malloc_count, signal_exit_flag, signal_exit_requested, heap,
                   stray, arg, forks>>

(* ... and is waited for.                                                   *)
Reap(p, t) ==
    /\ At(p, t, "reaping")
    /\ WaitReturns(Head(child_list[p]), p)
    /\ child_list' = [child_list EXCEPT ![p] = Tail(@)]
    /\ Goto(p, t, "killing")
    /\ UNCHANGED <<owner, malloc_count, signal_exit_flag, signal_exit_requested, heap,
                   stray, arg, forks>>

(* free(ss), while the lock is held: it is never released again.            *)
FreeState(p, t) ==
    /\ At(p, t, "killing") /\ child_list[p] = <<>>
    /\ Goto(p, t, "freed")
    /\ UNCHANGED <<kernel, owner, state, arg, forks>>

(* exit: every thread ends.  A child left behind would go to init, which    *)
(* reaps it; so does the shell with a process that has no parent here.      *)
Exit(p, t) ==
    /\ At(p, t, "freed")
    /\ status' = [c \in Pids |->
          IF c = p THEN IF parent[p] = None THEN "none" ELSE "zombie"
          ELSE IF parent[c] = p /\ status[c] = "zombie" THEN "none" ELSE status[c]]
    /\ parent' = [c \in Pids |-> IF c # p /\ parent[c] = p THEN None ELSE parent[c]]
    /\ pending' = [pending EXCEPT ![p] = FALSE]
    /\ Unlock(p)
    /\ child_list' = [child_list EXCEPT ![p] = <<>>]
    /\ malloc_count' = [malloc_count EXCEPT ![p] = 0]
    /\ heap' = [heap EXCEPT ![p] = 0] /\ stray' = [stray EXCEPT ![p] = 0]
    /\ signal_exit_flag' = [signal_exit_flag EXCEPT ![p] = TRUE]
    /\ signal_exit_requested' = [signal_exit_requested EXCEPT ![p] = FALSE]
    /\ pc' = [pc EXCEPT ![p] = [u \in AllThreads |-> "none"]]
    /\ arg' = [arg EXCEPT ![p] = [u \in AllThreads |-> None]]
    /\ UNCHANGED forks

-----------------------------------------------------------------------------
(* A SIGINT from outside, the keyboard or kill; one that comes when the     *)
(* signal thread no longer waits stays pending.                             *)
Interrupt(p) ==
    /\ "interrupt" \in May[p] /\ At(p, Sig, "sigwait")
    /\ Sigint(p)
    /\ UNCHANGED <<status, parent, owner, state, pc, arg, forks>>

(* sig_thread: sigwait takes one SIGINT ...                                 *)
SigWait(p) ==
    /\ At(p, Sig, "sigwait") /\ pending[p]
    /\ pending' = [pending EXCEPT ![p] = FALSE]
    /\ Goto(p, Sig, "signalled")
    /\ UNCHANGED <<status, parent, owner, state, arg, forks>>

(* ... then, under the lock, the exit is requested; the thread ends if the  *)
(* program asked for that, and goes on to the exit routine if not.          *)
SigRequest(p) ==
    /\ At(p, Sig, "signalled") /\ owner[p] = None
    /\ signal_exit_requested' = [signal_exit_requested EXCEPT ![p] = TRUE]
    /\ Goto(p, Sig, IF signal_exit_flag[p] THEN "routine" ELSE "none")
    /\ UNCHANGED <<kernel, owner, child_list, malloc_count, signal_exit_flag, heap,
                   stray, arg, forks>>

(* sys_set_sig_exit: the program takes the exit upon itself, or gives it    *)
(* back to the signal thread.                                               *)
SetSigExit(p, t) ==
    /\ "poll" \in May[p] /\ At(p, t, "run") /\ owner[p] = None
    /\ \E e \in BOOLEAN : signal_exit_flag' = [signal_exit_flag EXCEPT ![p] = e]
    /\ UNCHANGED <<kernel, owner, child_list, malloc_count, signal_exit_requested, heap, stray,
                   pc, arg, forks>>

(* A program that took the exit upon itself polls sys_sig_exit_requested and*)
(* exits (examples/chatroom/server.c:261).                                  *)
ExitOnRequest(p, t) == signal_exit_requested[p] /\ t \in Threads /\ SafeExit(p, t)

-----------------------------------------------------------------------------
(* log_fatal_p(false): the process exits with the lock that t has.          *)
FatalInside(p, t) ==
    /\ owner' = [owner EXCEPT ![p] = t]
    /\ Goto(p, t, "killing")
    /\ UNCHANGED malloc_count

(* Whether there is a block that safe_malloc has returned and that was not  *)
(* given to safe_free.                                                      *)
MayFree(p) == heap[p] > Cardinality(InFlight(p)) + stray[p]

(* safe_malloc: malloc, without the lock ...                                *)
Malloc(p, t) ==
    /\ "malloc" \in May[p] /\ heap[p] < MaxHeap /\ At(p, t, "run")
    /\ heap' = [heap EXCEPT ![p] = @ + 1]
    /\ Goto(p, t, "counting")
    /\ UNCHANGED <<kernel, owner, child_list, malloc_count, stray, signal_exit_flag,
                   signal_exit_requested, arg, forks>>

CountUnchecked(p, t) ==        \* variant: the count may pass its maximum
    /\ At(p, t, "counting") /\ owner[p] = None
    /\ malloc_count' = [malloc_count EXCEPT ![p] = @ + 1]
    /\ Goto(p, t, "run")
    /\ UNCHANGED <<kernel, owner, child_list, heap, stray, signal_exit_flag,
                   signal_exit_requested, arg, forks>>

(* ... then, under the lock, the block is counted; an overflow is fatal, and*)
(* nobody gets the block.                                                   *)
Count(p, t) ==
    /\ At(p, t, "counting") /\ owner[p] = None
    /\ IF malloc_count[p] = CountMax
       THEN FatalInside(p, t) /\ stray' = [stray EXCEPT ![p] = @ + 1]
       ELSE /\ malloc_count' = [malloc_count EXCEPT ![p] = @ + 1]
            /\ Goto(p, t, "run")
            /\ UNCHANGED <<owner, stray>>
    /\ UNCHANGED <<kernel, child_list, heap, signal_exit_flag, signal_exit_requested,
                   arg, forks>>

(* safe_free, and safe_realloc of size 0: the count goes down under the     *)
(* lock, where an underflow is fatal ...                                    *)
Uncount(p, t) ==
    /\ At(p, t, "run") /\ owner[p] = None /\ MayFree(p)
    /\ IF malloc_count[p] = 0
       THEN FatalInside(p, t)
       ELSE /\ malloc_count' = [malloc_count EXCEPT ![p] = @ - 1]
            /\ Goto(p, t, "freeing")
            /\ UNCHANGED owner
    /\ UNCHANGED <<kernel, child_list, heap, stray, signal_exit_flag, signal_exit_requested,
                   arg, forks>>

(* ... then free, without it.                                               *)
Free(p, t) ==
    /\ At(p, t, "freeing")
    /\ heap' = [heap EXCEPT ![p] = @ - 1]
    /\ Goto(p, t, "run")
    /\ UNCHANGED <<kernel, owner, child_list, malloc_count, stray, signal_exit_flag,
                   signal_exit_requested, arg, forks>>

(* safe_pthread_create.                                                     *)
StartThread(p, t) ==
    /\ "thread" \in May[p] /\ At(p, t, "none")
    /\ \E u \in Threads : pc[p][u] = "run"
    /\ Goto(p, t, "run")
    /\ UNCHANGED <<kernel, owner, state, arg, forks>>

-----------------------------------------------------------------------------
ForkStep(p, t) ==
    \/ ForkBegin(p, t) \/ ForkFails(p, t) \/ Push(p, t) \/ PushFails(p, t) \/ Undo(p, t)
    \/ PrepareFromChild(p, t) \/ SpawnSigThread(p, t) \/ SpawnFails(p, t)
    \/ \E c \in Pids : Fork(p, t, c)

WaitStep(p, t) == Unlist(p, t) \/ \E c \in Pids : Waitpid(p, t, c)

ExitStep(p, t) == Kill(p, t) \/ Reap(p, t) \/ FreeState(p, t) \/ Exit(p, t)

UserStep(p, t) ==
    \/ SafeExit(p, t) \/ StartThread(p, t) \/ SetSigExit(p, t)
    \/ Malloc(p, t) \/ Count(p, t) \/ Uncount(p, t) \/ Free(p, t)

SigStep(p) == SigWait(p) \/ SigRequest(p) \/ SafeExit(p, Sig)

Next == \E p \in Pids :
    \/ \E t \in Threads : ForkStep(p, t) \/ WaitStep(p, t) \/ ExitStep(p, t) \/ UserStep(p, t)
    \/ ExitStep(p, Sig) \/ SigStep(p) \/ Interrupt(p)

Spec == SysInit /\ [][Next]_vars

(* The thread that has the lock, and the one of a new child, go on: at most *)
(* one of a process is in such a place.                                     *)
Progress(p) == \E t \in AllThreads :
    \/ Push(p, t) \/ Undo(p, t) \/ PrepareFromChild(p, t) \/ SpawnSigThread(p, t)
    \/ ForkFails(p, t) \/ ExitStep(p, t)

(* What a thread does next once it gets the lock, or needs none.  A program *)
(* that takes the exit upon itself polls; no other has to exit by itself,   *)
(* not even one that inherited the flag from the process that forked it.    *)
GoesOn(p, t) ==
    \/ Unlist(p, t) \/ Count(p, t) \/ Free(p, t)
    \/ "poll" \in May[p] /\ ExitOnRequest(p, t)

(* No thread is kept from the lock forever.                                 *)
FairSpec ==
    /\ Spec
    /\ \A p \in Pids :
        /\ WF_vars(Progress(p))
        /\ SF_vars(SigStep(p))
        /\ \A t \in Threads : SF_vars(GoesOn(p, t))

-----------------------------------------------------------------------------
Inside == {"forking", "forked", "undoing", "preparing", "killing", "reaping", "freed"}
Exiting == {"killing", "reaping", "freed"}
Labels == Inside \cup {"none", "run", "spawning", "reaped", "counting", "freeing",
                         "sigwait", "signalled", "routine"}

(* Fields keep their types; what fork and waitpid returned is a pid.        *)
STypeOK ==
    /\ status \in [Pids -> {"none", "running", "zombie"}]
    /\ parent \in [Pids -> Pids \cup {None}]
    /\ pending \in [Pids -> BOOLEAN]
    /\ owner \in [Pids -> AllThreads \cup {None}]
    /\ child_list \in [Pids -> Seq(Pids)]
    /\ malloc_count \in [Pids -> 0..CountMax]
    /\ signal_exit_flag \in [Pids -> BOOLEAN]
    /\ signal_exit_requested \in [Pids -> BOOLEAN]
    /\ heap \in [Pids -> Nat] /\ stray \in [Pids -> Nat]
    /\ pc \in [Pids -> [AllThreads -> Labels]]
    /\ arg \in [Pids -> [AllThreads -> Pids \cup {None}]]
    /\ forks \in Nat

(* The lock is taken exactly while a thread that exists is inside a section,*)
(* in a child too, whose mutex is a copy: no section runs beside another,   *)
(* and after free(ss) no thread is inside one.                              *)
LockUsable == \A p \in Pids, t \in AllThreads : owner[p] = t <=> pc[p][t] \in Inside

(* Between two sections the list has one node for every child that was not  *)
(* reaped and one for every child whose safe_waitpid has yet to remove it,  *)
(* so "Reaped child not found in child list" is never reached, not even when*)
(* a pid comes again.                                                       *)
ChildrenListed == \A p, c \in Pids :
    status[p] = "running" /\ owner[p] = None
    => Cardinality({i \in DOMAIN child_list[p] : child_list[p][i] = c})
        = Cardinality({t \in Threads : pc[p][t] = "reaped" /\ arg[p][t] = c})
            + IF Child(c, p) THEN 1 ELSE 0

(* No process is left behind: the parent of a process is running, and only  *)
(* the first has none.                                                      *)
NoOrphans == \A c \in Pids :
    status[c] # "none" => IF parent[c] = None THEN c = Root ELSE status[parent[c]] = "running"

(* The count is that of the blocks the program can free.  Not counted are   *)
(* those on their way into or out of a call, and those fork caught there:   *)
(* a child can neither free nor report them.  So an exit reports a leak just*)
(* if the program forgot a block, and the count never underflows, whichever *)
(* thread forks between malloc and its count, or the count and its free.    *)
BlocksCounted == \A p \in Pids :
    malloc_count[p] + Cardinality(InFlight(p)) + stray[p] = heap[p]

(* safe_exit, which waits for the children while it has the lock, ends.     *)
ExitEnds == \A p \in Pids :
    (\E t \in AllThreads : pc[p][t] \in Exiting) ~> \A t \in AllThreads : pc[p][t] \notin Exiting
=============================================================================
