------------------------------ MODULE RWMutex -------------------------------
(***************************************************************************)
(* Goroutines that run straight-line code over read-write mutexes, with    *)
(* the semantics of Go's sync.RWMutex:                                     *)
(*   - a writer first announces itself, which keeps new readers out, and   *)
(*     gets the lock when the readers inside have left;                    *)
(*   - a reader that finds a writer queues up; all queued readers enter    *)
(*     together when the writer unlocks;                                   *)
(*   - nothing is recursive, and a mutex does not know who locked it: to   *)
(*     unlock one which is not locked is a fatal error of the process.     *)
(*                                                                         *)
(* Code is a sequence of steps <<operation, object>>: the four operations  *)
(* on a lock, "read" and "write" of an object two goroutines may share,    *)
(* and "send", a write to a socket, which waits for the peer to read.      *)
(***************************************************************************)
EXTENDS Naturals, Sequences, FiniteSets

CONSTANTS
  Goroutine, \* the goroutines
  Lock,      \* the mutexes
  Object,    \* what the steps "read" and "write" are about
  Peer,      \* the far ends of the sockets
  Calls,     \* Calls[g]: the codes g may run, over and over
  Stalled,   \* peers that have stopped reading
  Level,     \* Level[l]: where a lock stands in the order locks are taken in
  Nobody     \* no goroutine

LockOperation == {"RLock", "RUnlock", "Lock", "Unlock"}
CodeStep == (LockOperation \X Lock) \cup ({"read", "write"} \X Object) \cup ({"send"} \X Peer)

ASSUME CallsAssumption == Calls \in [Goroutine -> SUBSET Seq(CodeStep)]
ASSUME LevelAssumption == Level \in [Lock -> Nat]
ASSUME NobodyAssumption == Nobody \notin Goroutine

VARIABLES
  code,    \* what each goroutine has left to run, empty between two calls
  writer,  \* the writer that has announced itself or has the lock
  writing, \* the writer has the lock
  readers, \* how many times each goroutine has the lock for reading
  queue,   \* the readers that wait for the writer to unlock
  fatal    \* the process has died of a fatal error

vars == <<code, writer, writing, readers, queue, fatal>>

TypeOK ==
  /\ code \in [Goroutine -> Seq(CodeStep)]
  /\ writer \in [Lock -> Goroutine \cup {Nobody}]
  /\ writing \in [Lock -> BOOLEAN]
  /\ readers \in [Lock -> [Goroutine -> Nat]]
  /\ queue \in [Lock -> SUBSET Goroutine]
  /\ fatal \in BOOLEAN

Init ==
  /\ code = [g \in Goroutine |-> <<>>]
  /\ writer = [l \in Lock |-> Nobody]
  /\ writing = [l \in Lock |-> FALSE]
  /\ readers = [l \in Lock |-> [g \in Goroutine |-> 0]]
  /\ queue = [l \in Lock |-> {}]
  /\ fatal = FALSE

-----------------------------------------------------------------------------
\* g is about to perform op on x.
At(g, op, x) == code[g] # <<>> /\ Head(code[g]) = <<op, x>>

\* The goroutines of G go past their next step.
Advance(G) == code' = [g \in Goroutine |-> IF g \in G THEN Tail(code[g]) ELSE code[g]]

Call(g) ==
  /\ code[g] = <<>>
  /\ \E c \in Calls[g] : code' = [code EXCEPT ![g] = c]
  /\ UNCHANGED <<writer, writing, readers, queue, fatal>>

RLock(g, l) ==
  /\ At(g, "RLock", l)
  /\ \/ /\ writer[l] = Nobody
        /\ readers' = [readers EXCEPT ![l][g] = @ + 1]
        /\ Advance({g})
        /\ UNCHANGED queue
     \/ /\ writer[l] # Nobody
        /\ g \notin queue[l]
        /\ queue' = [queue EXCEPT ![l] = @ \cup {g}]
        /\ UNCHANGED <<code, readers>>
  /\ UNCHANGED <<writer, writing, fatal>>

RUnlock(g, l) ==
  /\ At(g, "RUnlock", l)
  /\ readers[l][g] > 0
  /\ readers' = [readers EXCEPT ![l][g] = @ - 1]
  /\ Advance({g})
  /\ UNCHANGED <<writer, writing, queue, fatal>>

\* The first half of Lock.
Announce(g, l) ==
  /\ At(g, "Lock", l)
  /\ writer[l] = Nobody
  /\ writer' = [writer EXCEPT ![l] = g]
  /\ UNCHANGED <<code, writing, readers, queue, fatal>>

\* The second half.
Acquire(g, l) ==
  /\ At(g, "Lock", l)
  /\ writer[l] = g /\ ~writing[l]
  /\ \A h \in Goroutine : readers[l][h] = 0
  /\ writing' = [writing EXCEPT ![l] = TRUE]
  /\ Advance({g})
  /\ UNCHANGED <<writer, readers, queue, fatal>>

Unlock(g, l) ==
  /\ At(g, "Unlock", l)
  /\ writing[l]
  /\ writer' = [writer EXCEPT ![l] = Nobody]
  /\ writing' = [writing EXCEPT ![l] = FALSE]
  /\ readers' = [readers EXCEPT ![l] =
                   [h \in Goroutine |-> IF h \in queue[l] THEN @[h] + 1 ELSE @[h]]]
  /\ queue' = [queue EXCEPT ![l] = {}]
  /\ Advance({g} \cup queue[l])
  /\ UNCHANGED fatal

\* "sync: Unlock of unlocked RWMutex" and its RUnlock counterpart.  Go notices
\* the latter only if nobody at all reads; here it is noticed at once.
Misuse(g, l) ==
  /\ \/ At(g, "Unlock", l) /\ ~writing[l]
     \/ At(g, "RUnlock", l) /\ readers[l][g] = 0
  /\ fatal' = TRUE
  /\ UNCHANGED <<code, writer, writing, readers, queue>>

Access(g) ==
  /\ \E op \in {"read", "write"}, x \in Object : At(g, op, x)
  /\ Advance({g})
  /\ UNCHANGED <<writer, writing, readers, queue, fatal>>

Send(g) ==
  /\ \E p \in Peer \ Stalled : At(g, "send", p)
  /\ Advance({g})
  /\ UNCHANGED <<writer, writing, readers, queue, fatal>>

\* A step of g inside a call, but for announcing itself as a writer.
Run(g) ==
  \/ Access(g) \/ Send(g)
  \/ \E l \in Lock : RLock(g, l) \/ RUnlock(g, l) \/ Acquire(g, l) \/ Unlock(g, l) \/ Misuse(g, l)

StepOf(g) == Call(g) \/ Run(g) \/ \E l \in Lock : Announce(g, l)

Next == ~fatal /\ \E g \in Goroutine : StepOf(g)

Spec == Init /\ [][Next]_vars

\* Goroutines are scheduled, and the mutex inside an RWMutex which writers
\* queue for is granted in turn.  Nobody has to make a call.
Fairness ==
  \A g \in Goroutine :
    /\ WF_vars(~fatal /\ Run(g))
    /\ SF_vars(~fatal /\ \E l \in Lock : Announce(g, l))

FairSpec == Spec /\ Fairness

-----------------------------------------------------------------------------
(* What one can ask of a code by looking at it. *)

\* From position n of s on, op is the first operation on l.
NextOn(s, n, l, op) ==
  \E i \in n..Len(s) :
    /\ s[i] = <<op, l>>
    /\ \A j \in n..(i - 1) : s[j] \notin LockOperation \X {l}

\* What s has left to release at position n.
HoldsAt(s, n, l) == NextOn(s, n, l, "RUnlock") \/ NextOn(s, n, l, "Unlock")

\* What is locked is unlocked, in the same mode and once, before it is locked
\* again.
Paired(s) ==
  \A n \in 1..Len(s), l \in Lock :
    /\ s[n] = <<"RLock", l>> => NextOn(s, n + 1, l, "RUnlock")
    /\ s[n] = <<"Lock", l>> => NextOn(s, n + 1, l, "Unlock")
    /\ s[n] \in {"RUnlock", "Unlock"} \X {l} => ~HoldsAt(s, n + 1, l)

Balanced(s) == Paired(s) /\ \A l \in Lock : ~HoldsAt(s, 1, l)

\* A lock is only asked for while holding locks of higher levels.
Ordered(s) ==
  \A n \in 1..Len(s), k, l \in Lock :
    s[n] \in {"RLock", "Lock"} \X {l} /\ HoldsAt(s, n, k) => Level[k] > Level[l]

\* x is used under l, and changed under l locked for writing.
Guarded(s, x, l) ==
  \A n \in 1..Len(s) :
    /\ s[n] = <<"read", x>> => HoldsAt(s, n, l)
    /\ s[n] = <<"write", x>> => NextOn(s, n, l, "Unlock")

-----------------------------------------------------------------------------
\* The goroutines without which g cannot take its next step.
WaitsFor(g) ==
  UNION {
    {h \in Goroutine : g \in queue[l] /\ h = writer[l]} \cup
    {h \in Goroutine : At(g, "Lock", l) /\ h = writer[l] /\ (h # g \/ writing[l])} \cup
    {h \in Goroutine : At(g, "Lock", l) /\ g = writer[l] /\ readers[l][h] > 0} : l \in Lock}

\* No goroutines wait for each other in a circle, themselves included.
NoDeadlock ==
  \A G \in SUBSET Goroutine : G # {} => \E g \in G : WaitsFor(g) \cap G = {}

\* A writer is alone inside.
Exclusion == \A l \in Lock : writing[l] => \A g \in Goroutine : readers[l][g] = 0

\* No mutex is unlocked that is not locked.
NoMisuse == ~fatal

\* Two goroutines are about to use x at once, one of them to change it.
Race(x) ==
  \E g, h \in Goroutine : g # h /\ At(g, "write", x) /\ (At(h, "read", x) \/ At(h, "write", x))

\* A call that sends nothing to a stalled peer returns.
CallsReturn ==
  \A g \in Goroutine :
    (code[g] # <<>> /\ \A i \in DOMAIN code[g] : code[g][i] \notin {"send"} \X Stalled)
      ~> code[g] = <<>>
=============================================================================
