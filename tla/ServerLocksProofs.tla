------------------------- MODULE ServerLocksProofs --------------------------
(***************************************************************************)
(* First, of RWMutex alone, for any number of goroutines and mutexes and   *)
(* any codes: when every code is balanced no mutex is misused and a writer *)
(* is alone inside; when every code is ordered too nobody waits in a       *)
(* circle; when every code guards a variable nobody races on it.  All      *)
(* three are questions about one code at a time.                           *)
(*                                                                         *)
(* LockInv is the inductive invariant.  It reads off what a goroutine has  *)
(* left to run which locks it holds, and in which mode.                    *)
(*                                                                         *)
(* Then, what that says of the game server.  A code is disciplined if it   *)
(* is balanced, takes locks in the order of Level and uses the maps under  *)
(* the server's mutex.  While goroutines run disciplined codes the         *)
(* discipline is kept in every state, there is no deadlock and no map is   *)
(* used while it changes.                                                  *)
(*                                                                         *)
(* That the handlers are disciplined is proved from what they are made of: *)
(* steps, critical sections, one code after another, and loops over any    *)
(* listing of any number of connections.                                   *)
(***************************************************************************)
EXTENDS ServerLocks, SequenceTheorems, NaturalsInduction, WellFoundedInduction, TLAPS

-----------------------------------------------------------------------------
(* What a code has left to release. *)

\* Nothing is left in a code that has been run.
LEMMA NothingLeft ==
  ASSUME NEW l, NEW op
  PROVE  ~NextOn(<<>>, 1, l, op)
  BY DEF NextOn

\* There is one next operation on a lock.
LEMMA OneNext ==
  ASSUME NEW s \in Seq(CodeStep), NEW n \in Nat, NEW l,
         NEW op \in LockOperation, NEW oq \in LockOperation,
         NextOn(s, n, l, op), NextOn(s, n, l, oq)
  PROVE  op = oq
<1>1. PICK i \in n..Len(s) : s[i] = <<op, l>> /\ \A j \in n..(i - 1) : s[j] \notin LockOperation \X {l}
  BY DEF NextOn
<1>2. PICK k \in n..Len(s) : s[k] = <<oq, l>> /\ \A j \in n..(k - 1) : s[j] \notin LockOperation \X {l}
  BY DEF NextOn
<1>3. Len(s) \in Nat /\ s[i] \in LockOperation \X {l} /\ s[k] \in LockOperation \X {l}
  BY <1>1, <1>2
<1>4. ~(i < k)
  <2>1. i < k => i \in n..(k - 1)
    BY <1>3
  <2> QED
    BY <1>2, <1>3, <2>1
<1>5. ~(k < i)
  <2>1. k < i => k \in n..(i - 1)
    BY <1>3
  <2> QED
    BY <1>1, <1>3, <2>1
<1>6. i = k
  BY <1>3, <1>4, <1>5
<1> QED
  BY <1>1, <1>2, <1>6

\* An operation on the lock is the next one on it.
LEMMA HeadOn ==
  ASSUME NEW s \in Seq(CodeStep), NEW n \in 1..Len(s), NEW l, NEW op \in LockOperation,
         s[n] = <<op, l>>
  PROVE  NextOn(s, n, l, op)
<1>1. n \in n..Len(s) /\ n..(n - 1) = {}
  OBVIOUS
<1> QED
  BY <1>1 DEF NextOn

\* Any other step can be skipped.
LEMMA HeadOff ==
  ASSUME NEW s \in Seq(CodeStep), NEW n \in 1..Len(s), NEW l, NEW op \in LockOperation,
         s[n] \notin LockOperation \X {l}
  PROVE  NextOn(s, n, l, op) <=> NextOn(s, n + 1, l, op)
<1>0. Len(s) \in Nat /\ n \in Nat
  OBVIOUS
<1>1. ASSUME NextOn(s, n, l, op)
      PROVE  NextOn(s, n + 1, l, op)
  <2>1. PICK i \in n..Len(s) : s[i] = <<op, l>> /\ \A j \in n..(i - 1) : s[j] \notin LockOperation \X {l}
    BY <1>1 DEF NextOn
  <2>2. i # n
    <3>1. s[i] \in LockOperation \X {l}
      BY <2>1
    <3> QED
      BY <3>1
  <2>3. i \in (n + 1)..Len(s) /\ \A j \in (n + 1)..(i - 1) : j \in n..(i - 1)
    BY <1>0, <2>2
  <2> QED
    BY <2>1, <2>3 DEF NextOn
<1>2. ASSUME NextOn(s, n + 1, l, op)
      PROVE  NextOn(s, n, l, op)
  <2>1. PICK i \in (n + 1)..Len(s) :
          s[i] = <<op, l>> /\ \A j \in (n + 1)..(i - 1) : s[j] \notin LockOperation \X {l}
    BY <1>2 DEF NextOn
  <2>2. i \in n..Len(s) /\ \A j \in n..(i - 1) : j = n \/ j \in (n + 1)..(i - 1)
    BY <1>0
  <2> QED
    BY <2>1, <2>2 DEF NextOn
<1> QED
  BY <1>1, <1>2

\* The rest of a code, one position earlier.
LEMMA NextOnTail ==
  ASSUME NEW s \in Seq(CodeStep), s # <<>>, NEW n \in Nat \ {0}, NEW l, NEW op
  PROVE  NextOn(Tail(s), n, l, op) <=> NextOn(s, n + 1, l, op)
<1>0. /\ Len(s) \in Nat \ {0}
      /\ Len(Tail(s)) = Len(s) - 1
      /\ \A i \in 1..(Len(s) - 1) : Tail(s)[i] = s[i + 1]
  OBVIOUS
<1>1. ASSUME NextOn(Tail(s), n, l, op)
      PROVE  NextOn(s, n + 1, l, op)
  <2>1. PICK i \in n..(Len(s) - 1) :
          Tail(s)[i] = <<op, l>> /\ \A j \in n..(i - 1) : Tail(s)[j] \notin LockOperation \X {l}
    BY <1>0, <1>1 DEF NextOn
  <2>2. i + 1 \in (n + 1)..Len(s) /\ s[i + 1] = <<op, l>>
    BY <1>0, <2>1
  <2>3. ASSUME NEW j \in (n + 1)..((i + 1) - 1)
        PROVE  s[j] \notin LockOperation \X {l}
    <3>1. j - 1 \in n..(i - 1) /\ j - 1 \in 1..(Len(s) - 1) /\ (j - 1) + 1 = j
      BY <1>0
    <3> QED
      BY <1>0, <2>1, <3>1
  <2> QED
    BY <2>2, <2>3 DEF NextOn
<1>2. ASSUME NextOn(s, n + 1, l, op)
      PROVE  NextOn(Tail(s), n, l, op)
  <2>1. PICK i \in (n + 1)..Len(s) :
          s[i] = <<op, l>> /\ \A j \in (n + 1)..(i - 1) : s[j] \notin LockOperation \X {l}
    BY <1>2 DEF NextOn
  <2>2. i - 1 \in n..Len(Tail(s)) /\ Tail(s)[i - 1] = <<op, l>>
    <3>1. i - 1 \in 1..(Len(s) - 1) /\ (i - 1) + 1 = i
      BY <1>0
    <3> QED
      BY <1>0, <2>1, <3>1
  <2>3. ASSUME NEW j \in n..((i - 1) - 1)
        PROVE  Tail(s)[j] \notin LockOperation \X {l}
    <3>1. j + 1 \in (n + 1)..(i - 1) /\ j \in 1..(Len(s) - 1)
      BY <1>0
    <3> QED
      BY <1>0, <2>1, <3>1
  <2> QED
    BY <2>2, <2>3 DEF NextOn
<1> QED
  BY <1>1, <1>2

LEMMA HoldsAtTail ==
  ASSUME NEW s \in Seq(CodeStep), s # <<>>, NEW n \in Nat \ {0}, NEW l
  PROVE  HoldsAt(Tail(s), n, l) <=> HoldsAt(s, n + 1, l)
  BY NextOnTail DEF HoldsAt

\* The positions of the rest of a code are positions of the code.
LEMMA TailPosition ==
  ASSUME NEW s \in Seq(CodeStep), s # <<>>, NEW n \in 1..Len(Tail(s))
  PROVE  /\ Tail(s) \in Seq(CodeStep)
         /\ n \in Nat \ {0} /\ n + 1 \in Nat \ {0}
         /\ n + 1 \in 1..Len(s)
         /\ Tail(s)[n] = s[n + 1]
  OBVIOUS

\* The rest of a paired, ordered or guarding code is paired, ordered, guarding.
LEMMA PairedTail ==
  ASSUME NEW s \in Seq(CodeStep), s # <<>>, Paired(s)
  PROVE  Paired(Tail(s))
<1> SUFFICES ASSUME NEW n \in 1..Len(Tail(s)), NEW l \in Lock
             PROVE  /\ Tail(s)[n] = <<"RLock", l>> => NextOn(Tail(s), n + 1, l, "RUnlock")
                    /\ Tail(s)[n] = <<"Lock", l>> => NextOn(Tail(s), n + 1, l, "Unlock")
                    /\ Tail(s)[n] \in {"RUnlock", "Unlock"} \X {l} => ~HoldsAt(Tail(s), n + 1, l)
  BY DEF Paired
<1>1. n + 1 \in Nat \ {0} /\ n + 1 \in 1..Len(s) /\ Tail(s)[n] = s[n + 1]
  BY TailPosition
<1>2. /\ s[n + 1] = <<"RLock", l>> => NextOn(s, (n + 1) + 1, l, "RUnlock")
      /\ s[n + 1] = <<"Lock", l>> => NextOn(s, (n + 1) + 1, l, "Unlock")
      /\ s[n + 1] \in {"RUnlock", "Unlock"} \X {l} => ~HoldsAt(s, (n + 1) + 1, l)
  BY <1>1 DEF Paired
<1>3. /\ NextOn(Tail(s), n + 1, l, "RUnlock") <=> NextOn(s, (n + 1) + 1, l, "RUnlock")
      /\ NextOn(Tail(s), n + 1, l, "Unlock") <=> NextOn(s, (n + 1) + 1, l, "Unlock")
      /\ HoldsAt(Tail(s), n + 1, l) <=> HoldsAt(s, (n + 1) + 1, l)
  BY <1>1, NextOnTail, HoldsAtTail
<1> QED
  BY <1>1, <1>2, <1>3

LEMMA OrderedTail ==
  ASSUME NEW s \in Seq(CodeStep), s # <<>>, Ordered(s)
  PROVE  Ordered(Tail(s))
<1> SUFFICES ASSUME NEW n \in 1..Len(Tail(s)), NEW k \in Lock, NEW l \in Lock,
                    Tail(s)[n] \in {"RLock", "Lock"} \X {l}, HoldsAt(Tail(s), n, k)
             PROVE  Level[k] > Level[l]
  BY DEF Ordered
<1>1. n \in Nat \ {0} /\ n + 1 \in 1..Len(s) /\ Tail(s)[n] = s[n + 1]
  BY TailPosition
<1>2. s[n + 1] \in {"RLock", "Lock"} \X {l} /\ HoldsAt(s, n + 1, k)
  BY <1>1, HoldsAtTail
<1> QED
  BY <1>1, <1>2 DEF Ordered

LEMMA GuardedTail ==
  ASSUME NEW s \in Seq(CodeStep), s # <<>>, NEW x, NEW l, Guarded(s, x, l)
  PROVE  Guarded(Tail(s), x, l)
<1> SUFFICES ASSUME NEW n \in 1..Len(Tail(s))
             PROVE  /\ Tail(s)[n] = <<"read", x>> => HoldsAt(Tail(s), n, l)
                    /\ Tail(s)[n] = <<"write", x>> => NextOn(Tail(s), n, l, "Unlock")
  BY DEF Guarded
<1>1. n \in Nat \ {0} /\ n + 1 \in 1..Len(s) /\ Tail(s)[n] = s[n + 1]
  BY TailPosition
<1>2. /\ s[n + 1] = <<"read", x>> => HoldsAt(s, n + 1, l)
      /\ s[n + 1] = <<"write", x>> => NextOn(s, n + 1, l, "Unlock")
  BY <1>1 DEF Guarded
<1> QED
  BY <1>1, <1>2, NextOnTail, HoldsAtTail

\* What is held before and after a step on the lock l.
LEMMA StepOn ==
  ASSUME NEW s \in Seq(CodeStep), s # <<>>, Paired(s),
         NEW l \in Lock, NEW op \in LockOperation, Head(s) = <<op, l>>
  PROVE  /\ \A oq \in LockOperation : NextOn(s, 1, l, oq) <=> oq = op
         /\ NextOn(Tail(s), 1, l, "RUnlock") <=> op = "RLock"
         /\ NextOn(Tail(s), 1, l, "Unlock") <=> op = "Lock"
<1>1. 1 \in 1..Len(s) /\ s[1] = <<op, l>> /\ 1 \in Nat \ {0} /\ Tail(s) \in Seq(CodeStep)
  OBVIOUS
<1>2. NextOn(s, 1, l, op)
  BY <1>1, HeadOn
<1>3. \A oq \in LockOperation : NextOn(s, 1, l, oq) <=> oq = op
  BY <1>1, <1>2, OneNext
<1>4. \A oq : NextOn(Tail(s), 1, l, oq) <=> NextOn(s, 1 + 1, l, oq)
  BY <1>1, NextOnTail
<1>5. /\ op = "RLock" => NextOn(s, 1 + 1, l, "RUnlock")
      /\ op = "Lock" => NextOn(s, 1 + 1, l, "Unlock")
  BY <1>1 DEF Paired
<1>6. op \in {"RUnlock", "Unlock"} =>
        ~NextOn(s, 1 + 1, l, "RUnlock") /\ ~NextOn(s, 1 + 1, l, "Unlock")
  <2>1. op \in {"RUnlock", "Unlock"} => s[1] \in {"RUnlock", "Unlock"} \X {l}
    BY <1>1
  <2> QED
    BY <1>1, <2>1 DEF Paired, HoldsAt
<1>7. ~(NextOn(Tail(s), 1, l, "RUnlock") /\ NextOn(Tail(s), 1, l, "Unlock"))
  <2>1. "RUnlock" \in LockOperation /\ "Unlock" \in LockOperation /\ "RUnlock" # "Unlock"
    BY DEF LockOperation
  <2> QED
    BY <1>1, <2>1, OneNext
<1>8. op \in {"RLock", "Lock", "RUnlock", "Unlock"}
  BY DEF LockOperation
<1> QED
  BY <1>3, <1>4, <1>5, <1>6, <1>7, <1>8

\* A step which is not on the lock l changes nothing about it.
LEMMA StepOff ==
  ASSUME NEW s \in Seq(CodeStep), s # <<>>, NEW l, Head(s) \notin LockOperation \X {l},
         NEW op \in LockOperation
  PROVE  NextOn(Tail(s), 1, l, op) <=> NextOn(s, 1, l, op)
<1>1. 1 \in 1..Len(s) /\ s[1] = Head(s) /\ 1 \in Nat \ {0}
  OBVIOUS
<1>2. NextOn(s, 1, l, op) <=> NextOn(s, 1 + 1, l, op)
  BY <1>1, HeadOff
<1>3. NextOn(Tail(s), 1, l, op) <=> NextOn(s, 1 + 1, l, op)
  BY <1>1, NextOnTail
<1> QED
  BY <1>2, <1>3

-----------------------------------------------------------------------------
(* The inductive invariant. *)

\* What the theorems assume of the codes.
BalancedCalls == \A g \in Goroutine : \A c \in Calls[g] : Balanced(c)

Pairing == \A g \in Goroutine : Paired(code[g])

\* A goroutine has a lock for reading exactly when it still has to release it
\* so, and then once.
ReadersHold ==
  \A l \in Lock, g \in Goroutine :
    readers[l][g] = IF NextOn(code[g], 1, l, "RUnlock") THEN 1 ELSE 0

\* The same for writing.
WriterHolds ==
  \A l \in Lock, g \in Goroutine :
    NextOn(code[g], 1, l, "Unlock") <=> writer[l] = g /\ writing[l]

\* Who waits for a lock is about to take it, and not for nothing.
Waiting ==
  \A l \in Lock :
    /\ writing[l] => writer[l] # Nobody
    /\ \A g \in Goroutine : writer[l] = g /\ ~writing[l] => At(g, "Lock", l)
    /\ \A g \in queue[l] : At(g, "RLock", l) /\ writer[l] # Nobody

LockInv == TypeOK /\ Pairing /\ ReadersHold /\ WriterHolds /\ Waiting /\ Exclusion /\ NoMisuse

\* All mutexes are free at the start.
LEMMA InitLockInv == Init => LockInv
<1> SUFFICES ASSUME Init PROVE LockInv
  OBVIOUS
<1> USE DEF Init
<1>1. TypeOK
  <2>1. code \in [Goroutine -> Seq(CodeStep)]
    OBVIOUS
  <2>2. readers \in [Lock -> [Goroutine -> Nat]]
    OBVIOUS
  <2> QED
    BY <2>1, <2>2 DEF TypeOK
<1>2. Pairing
  <2>1. Paired(<<>>)
    BY DEF Paired
  <2> QED
    BY <2>1 DEF Pairing
<1>3. ReadersHold
  BY NothingLeft DEF ReadersHold
<1>4. WriterHolds
  BY NothingLeft DEF WriterHolds
<1>5. Waiting
  BY NobodyAssumption DEF Waiting
<1>6. Exclusion /\ NoMisuse
  BY DEF Exclusion, NoMisuse
<1> QED
  BY <1>1, <1>2, <1>3, <1>4, <1>5, <1>6 DEF LockInv

-----------------------------------------------------------------------------
(* The steps. *)

\* What goes past a step was in front of it, and the others stay put.
LEMMA Advanced ==
  ASSUME TypeOK, Pairing, NEW G \in SUBSET Goroutine, \A g \in G : code[g] # <<>>, Advance(G)
  PROVE  /\ code' \in [Goroutine -> Seq(CodeStep)]
         /\ Pairing'
         /\ \A g \in G : code'[g] = Tail(code[g])
         /\ \A g \in Goroutine \ G : code'[g] = code[g]
<1>1. /\ \A g \in G : code'[g] = Tail(code[g])
      /\ \A g \in Goroutine \ G : code'[g] = code[g]
  BY DEF Advance
<1>2. \A g \in Goroutine : code[g] \in Seq(CodeStep)
  BY DEF TypeOK
<1>3. \A g \in G : Tail(code[g]) \in Seq(CodeStep)
  BY <1>2
<1>4. code' \in [Goroutine -> Seq(CodeStep)]
  BY <1>2, <1>3 DEF Advance
<1>5. ASSUME NEW g \in Goroutine
      PROVE  Paired(code'[g])
  <2>1. CASE g \in G
    BY <1>1, <1>2, <2>1, PairedTail DEF Pairing
  <2>2. CASE g \notin G
    BY <1>1, <2>2 DEF Pairing
  <2> QED
    BY <2>1, <2>2
<1> QED
  BY <1>1, <1>4, <1>5 DEF Pairing

\* A step on a lock: what the goroutine has left to release of it before and
\* after, and that nothing changes about the other locks.
LEMMA LockStep ==
  ASSUME TypeOK, Pairing, NEW g \in Goroutine, NEW l \in Lock, NEW op \in LockOperation, At(g, op, l)
  PROVE  /\ code[g] # <<>> /\ code[g] \in Seq(CodeStep)
         /\ NextOn(code[g], 1, l, "RUnlock") <=> op = "RUnlock"
         /\ NextOn(code[g], 1, l, "Unlock") <=> op = "Unlock"
         /\ NextOn(Tail(code[g]), 1, l, "RUnlock") <=> op = "RLock"
         /\ NextOn(Tail(code[g]), 1, l, "Unlock") <=> op = "Lock"
         /\ \A k \in Lock \ {l} :
              /\ NextOn(Tail(code[g]), 1, k, "RUnlock") <=> NextOn(code[g], 1, k, "RUnlock")
              /\ NextOn(Tail(code[g]), 1, k, "Unlock") <=> NextOn(code[g], 1, k, "Unlock")
<1>1. code[g] # <<>> /\ code[g] \in Seq(CodeStep) /\ Head(code[g]) = <<op, l>> /\ Paired(code[g])
  BY DEF At, TypeOK, Pairing
<1>2. "RUnlock" \in LockOperation /\ "Unlock" \in LockOperation
  BY DEF LockOperation
<1>3. \A k \in Lock \ {l} : Head(code[g]) \notin LockOperation \X {k}
  BY <1>1
<1>4. \A k \in Lock \ {l} :
        /\ NextOn(Tail(code[g]), 1, k, "RUnlock") <=> NextOn(code[g], 1, k, "RUnlock")
        /\ NextOn(Tail(code[g]), 1, k, "Unlock") <=> NextOn(code[g], 1, k, "Unlock")
  BY <1>1, <1>2, <1>3, StepOff
<1> QED
  BY <1>1, <1>2, <1>4, StepOn

\* One is in front of one step at a time.
LEMMA OneStep ==
  ASSUME NEW g, NEW op, NEW x, NEW oq, NEW y, At(g, op, x), At(g, oq, y)
  PROVE  op = oq /\ x = y
  BY DEF At

\* A call is made with nothing held and nothing waited for.
LEMMA CallInv ==
  ASSUME BalancedCalls, LockInv, NEW g \in Goroutine, Call(g)
  PROVE  LockInv'
<1>1. PICK c \in Calls[g] : code' = [code EXCEPT ![g] = c]
  BY DEF Call
<1>2. /\ code[g] = <<>>
      /\ UNCHANGED <<writer, writing, readers, queue, fatal>>
  BY DEF Call
<1>3. c \in Seq(CodeStep) /\ Paired(c) /\ \A l \in Lock : ~HoldsAt(c, 1, l)
  BY CallsAssumption DEF BalancedCalls, Balanced
<1>4. TypeOK /\ Pairing /\ ReadersHold /\ WriterHolds /\ Waiting /\ Exclusion /\ NoMisuse
  BY DEF LockInv
<1>5. code'[g] = c /\ \A h \in Goroutine \ {g} : code'[h] = code[h]
  BY <1>1, <1>4 DEF TypeOK
<1>6. \A l \in Lock : \A op : ~NextOn(code[g], 1, l, op)
  BY <1>2, NothingLeft
<1>7. \A l \in Lock : ~NextOn(c, 1, l, "RUnlock") /\ ~NextOn(c, 1, l, "Unlock")
  BY <1>3 DEF HoldsAt
<1>8. TypeOK'
  BY <1>1, <1>2, <1>3, <1>4 DEF TypeOK
<1>9. Pairing'
  BY <1>3, <1>4, <1>5 DEF Pairing
<1>10. ReadersHold'
  <2> SUFFICES ASSUME NEW l \in Lock, NEW h \in Goroutine
               PROVE  readers'[l][h] = IF NextOn(code'[h], 1, l, "RUnlock") THEN 1 ELSE 0
    BY DEF ReadersHold
  <2>1. readers[l][h] = IF NextOn(code[h], 1, l, "RUnlock") THEN 1 ELSE 0
    BY <1>4 DEF ReadersHold
  <2>2. NextOn(code'[h], 1, l, "RUnlock") <=> NextOn(code[h], 1, l, "RUnlock")
    BY <1>5, <1>6, <1>7
  <2> QED
    BY <1>2, <2>1, <2>2
<1>11. WriterHolds'
  <2> SUFFICES ASSUME NEW l \in Lock, NEW h \in Goroutine
               PROVE  NextOn(code'[h], 1, l, "Unlock") <=> writer'[l] = h /\ writing'[l]
    BY DEF WriterHolds
  <2>1. NextOn(code[h], 1, l, "Unlock") <=> writer[l] = h /\ writing[l]
    BY <1>4 DEF WriterHolds
  <2>2. NextOn(code'[h], 1, l, "Unlock") <=> NextOn(code[h], 1, l, "Unlock")
    BY <1>5, <1>6, <1>7
  <2> QED
    BY <1>2, <2>1, <2>2
<1>12. Waiting'
  <2> SUFFICES ASSUME NEW l \in Lock
               PROVE  /\ writing'[l] => writer'[l] # Nobody
                      /\ \A h \in Goroutine : writer'[l] = h /\ ~writing'[l] => At(h, "Lock", l)'
                      /\ \A h \in queue'[l] : At(h, "RLock", l)' /\ writer'[l] # Nobody
    BY DEF Waiting
  <2>1. /\ writing[l] => writer[l] # Nobody
        /\ \A h \in Goroutine : writer[l] = h /\ ~writing[l] => At(h, "Lock", l)
        /\ \A h \in queue[l] : At(h, "RLock", l) /\ writer[l] # Nobody
    BY <1>4 DEF Waiting
  <2>2. \A h \in Goroutine : \A op : At(h, op, l) => At(h, op, l)'
    BY <1>2, <1>5 DEF At
  <2>3. queue[l] \subseteq Goroutine
    BY <1>4 DEF TypeOK
  <2> QED
    BY <1>2, <2>1, <2>2, <2>3
<1>13. Exclusion' /\ NoMisuse'
  BY <1>2, <1>4 DEF Exclusion, NoMisuse
<1> QED
  BY <1>8, <1>9, <1>10, <1>11, <1>12, <1>13 DEF LockInv

\* A step on no lock.
LEMMA PlainStep ==
  ASSUME LockInv, NEW g \in Goroutine, Access(g) \/ Send(g)
  PROVE  LockInv'
<1>1. /\ Advance({g})
      /\ UNCHANGED <<writer, writing, readers, queue, fatal>>
  BY DEF Access, Send
<1>2. TypeOK /\ Pairing /\ ReadersHold /\ WriterHolds /\ Waiting /\ Exclusion /\ NoMisuse
  BY DEF LockInv
<1>3. code[g] # <<>> /\ \A l : Head(code[g]) \notin LockOperation \X {l}
  BY DEF Access, Send, At, LockOperation
<1>4. /\ code' \in [Goroutine -> Seq(CodeStep)]
      /\ Pairing'
      /\ code'[g] = Tail(code[g])
      /\ \A h \in Goroutine \ {g} : code'[h] = code[h]
  BY <1>1, <1>2, <1>3, Advanced
<1>5. ASSUME NEW l \in Lock, NEW h \in Goroutine, NEW op \in LockOperation
      PROVE  NextOn(code'[h], 1, l, op) <=> NextOn(code[h], 1, l, op)
  <2>1. CASE h = g
    <3>1. code[g] \in Seq(CodeStep)
      BY <1>2 DEF TypeOK
    <3>2. NextOn(Tail(code[g]), 1, l, op) <=> NextOn(code[g], 1, l, op)
      BY <1>3, <3>1, StepOff
    <3> QED
      BY <1>4, <2>1, <3>2
  <2>2. CASE h # g
    BY <1>4, <2>2
  <2> QED
    BY <2>1, <2>2
<1>6. "RUnlock" \in LockOperation /\ "Unlock" \in LockOperation
  BY DEF LockOperation
<1>7. TypeOK'
  BY <1>1, <1>2, <1>4 DEF TypeOK
<1>8. ReadersHold'
  BY <1>1, <1>2, <1>5, <1>6 DEF ReadersHold
<1>9. WriterHolds'
  BY <1>1, <1>2, <1>5, <1>6 DEF WriterHolds
<1>10. Waiting'
  <2>1. ASSUME NEW l \in Lock, NEW h \in Goroutine, NEW op \in LockOperation, At(h, op, l)
        PROVE  At(h, op, l)'
    <3>1. <<op, l>> \in LockOperation \X {l} /\ Head(code[h]) = <<op, l>>
      BY <2>1 DEF At
    <3>2. h # g
      BY <1>3, <3>1
    <3> QED
      BY <1>4, <2>1, <3>2 DEF At
  <2>2. "RLock" \in LockOperation /\ "Lock" \in LockOperation
    BY DEF LockOperation
  <2>3. \A l \in Lock : queue[l] \subseteq Goroutine
    BY <1>2 DEF TypeOK
  <2> SUFFICES ASSUME NEW l \in Lock
               PROVE  /\ writing'[l] => writer'[l] # Nobody
                      /\ \A h \in Goroutine : writer'[l] = h /\ ~writing'[l] => At(h, "Lock", l)'
                      /\ \A h \in queue'[l] : At(h, "RLock", l)' /\ writer'[l] # Nobody
    BY DEF Waiting
  <2>4. /\ writing[l] => writer[l] # Nobody
        /\ \A h \in Goroutine : writer[l] = h /\ ~writing[l] => At(h, "Lock", l)
        /\ \A h \in queue[l] : At(h, "RLock", l) /\ writer[l] # Nobody
    BY <1>2 DEF Waiting
  <2> QED
    BY <1>1, <2>1, <2>2, <2>3, <2>4
<1>11. Exclusion' /\ NoMisuse'
  BY <1>1, <1>2 DEF Exclusion, NoMisuse
<1> QED
  BY <1>4, <1>7, <1>8, <1>9, <1>10, <1>11 DEF LockInv

\* A reader enters, or queues up behind a writer.
LEMMA RLockInv ==
  ASSUME LockInv, NEW g \in Goroutine, NEW l \in Lock, RLock(g, l)
  PROVE  LockInv'
<1>1. TypeOK /\ Pairing /\ ReadersHold /\ WriterHolds /\ Waiting /\ Exclusion /\ NoMisuse
  BY DEF LockInv
<1>2. At(g, "RLock", l) /\ UNCHANGED <<writer, writing, fatal>>
  BY DEF RLock
<1>3. CASE writer[l] = Nobody /\ readers' = [readers EXCEPT ![l][g] = @ + 1] /\ Advance({g}) /\ UNCHANGED queue
  <2>1. "RLock" \in LockOperation
    BY DEF LockOperation
  <2>2. /\ code[g] # <<>>
        /\ ~NextOn(code[g], 1, l, "RUnlock") /\ ~NextOn(code[g], 1, l, "Unlock")
        /\ NextOn(Tail(code[g]), 1, l, "RUnlock") /\ ~NextOn(Tail(code[g]), 1, l, "Unlock")
        /\ \A k \in Lock \ {l} :
             /\ NextOn(Tail(code[g]), 1, k, "RUnlock") <=> NextOn(code[g], 1, k, "RUnlock")
             /\ NextOn(Tail(code[g]), 1, k, "Unlock") <=> NextOn(code[g], 1, k, "Unlock")
    BY <1>1, <1>2, <2>1, LockStep
  <2>3. /\ code' \in [Goroutine -> Seq(CodeStep)]
        /\ Pairing'
        /\ code'[g] = Tail(code[g])
        /\ \A h \in Goroutine \ {g} : code'[h] = code[h]
    BY <1>1, <1>3, <2>2, Advanced
  <2>4. TypeOK'
    BY <1>1, <1>2, <1>3, <2>3 DEF TypeOK
  <2>5. /\ readers'[l][g] = readers[l][g] + 1
        /\ \A k \in Lock, h \in Goroutine : k # l \/ h # g => readers'[k][h] = readers[k][h]
    BY <1>1, <1>3 DEF TypeOK
  <2>6. ReadersHold'
    <3> SUFFICES ASSUME NEW k \in Lock, NEW h \in Goroutine
                 PROVE  readers'[k][h] = IF NextOn(code'[h], 1, k, "RUnlock") THEN 1 ELSE 0
      BY DEF ReadersHold
    <3>1. readers[k][h] = IF NextOn(code[h], 1, k, "RUnlock") THEN 1 ELSE 0
      BY <1>1 DEF ReadersHold
    <3>2. CASE k = l /\ h = g
      <4>1. readers[l][g] = 0
        BY <2>2, <3>1, <3>2
      <4>2. readers'[l][g] = 1
        BY <2>5, <4>1
      <4> QED
        BY <2>2, <2>3, <3>2, <4>2
    <3>3. CASE k # l \/ h # g
      BY <2>2, <2>3, <2>5, <3>1, <3>3
    <3> QED
      BY <3>2, <3>3
  <2>7. WriterHolds'
    <3> SUFFICES ASSUME NEW k \in Lock, NEW h \in Goroutine
                 PROVE  NextOn(code'[h], 1, k, "Unlock") <=> writer'[k] = h /\ writing'[k]
      BY DEF WriterHolds
    <3>1. NextOn(code[h], 1, k, "Unlock") <=> writer[k] = h /\ writing[k]
      BY <1>1 DEF WriterHolds
    <3>2. NextOn(code'[h], 1, k, "Unlock") <=> NextOn(code[h], 1, k, "Unlock")
      BY <2>2, <2>3
    <3> QED
      BY <1>2, <3>1, <3>2
  <2>8. Waiting'
    <3> SUFFICES ASSUME NEW k \in Lock
                 PROVE  /\ writing'[k] => writer'[k] # Nobody
                        /\ \A h \in Goroutine : writer'[k] = h /\ ~writing'[k] => At(h, "Lock", k)'
                        /\ \A h \in queue'[k] : At(h, "RLock", k)' /\ writer'[k] # Nobody
      BY DEF Waiting
    <3>1. /\ writing[k] => writer[k] # Nobody
          /\ \A h \in Goroutine : writer[k] = h /\ ~writing[k] => At(h, "Lock", k)
          /\ \A h \in queue[k] : At(h, "RLock", k) /\ writer[k] # Nobody
      BY <1>1 DEF Waiting
    <3>2. \A h \in Goroutine \ {g} : \A op : At(h, op, k) => At(h, op, k)'
      BY <2>3 DEF At
    <3>3. ~At(g, "Lock", k)
      BY <1>2, OneStep
    <3>4. g \notin queue[k] /\ queue[k] \subseteq Goroutine
      BY <1>1, <1>2, <1>3, <3>1, OneStep DEF TypeOK
    <3> QED
      BY <1>2, <1>3, <3>1, <3>2, <3>3, <3>4
  <2>9. Exclusion'
    <3> SUFFICES ASSUME NEW k \in Lock, writing'[k], NEW h \in Goroutine
                 PROVE  readers'[k][h] = 0
      BY DEF Exclusion
    <3>1. k # l
      BY <1>1, <1>2, <1>3 DEF Waiting
    <3> QED
      BY <1>1, <1>2, <2>5, <3>1 DEF Exclusion
  <2> QED
    BY <1>1, <1>2, <2>3, <2>4, <2>6, <2>7, <2>8, <2>9 DEF LockInv, NoMisuse
<1>4. CASE writer[l] # Nobody /\ queue' = [queue EXCEPT ![l] = @ \cup {g}] /\ UNCHANGED <<code, readers>>
  <2>1. TypeOK'
    BY <1>1, <1>2, <1>4 DEF TypeOK
  <2>2. Pairing' /\ ReadersHold' /\ WriterHolds' /\ Exclusion' /\ NoMisuse'
    BY <1>1, <1>2, <1>4 DEF Pairing, ReadersHold, WriterHolds, Exclusion, NoMisuse
  <2>3. Waiting'
    <3> SUFFICES ASSUME NEW k \in Lock
                 PROVE  /\ writing[k] => writer[k] # Nobody
                        /\ \A h \in Goroutine : writer[k] = h /\ ~writing[k] => At(h, "Lock", k)
                        /\ \A h \in queue'[k] : At(h, "RLock", k) /\ writer[k] # Nobody
      BY <1>2, <1>4 DEF Waiting, At
    <3>1. \A h \in queue'[k] : h \in queue[k] \/ (k = l /\ h = g)
      <4>1. queue'[k] = IF k = l THEN queue[k] \cup {g} ELSE queue[k]
        BY <1>1, <1>4 DEF TypeOK
      <4> QED
        BY <4>1
    <3>2. /\ writing[k] => writer[k] # Nobody
          /\ \A h \in Goroutine : writer[k] = h /\ ~writing[k] => At(h, "Lock", k)
          /\ \A h \in queue[k] : At(h, "RLock", k) /\ writer[k] # Nobody
      BY <1>1 DEF Waiting
    <3> QED
      BY <1>2, <1>4, <3>1, <3>2
  <2> QED
    BY <2>1, <2>2, <2>3 DEF LockInv
<1> QED
  BY <1>3, <1>4 DEF RLock

\* A reader leaves.
LEMMA RUnlockInv ==
  ASSUME LockInv, NEW g \in Goroutine, NEW l \in Lock, RUnlock(g, l)
  PROVE  LockInv'
<1>1. TypeOK /\ Pairing /\ ReadersHold /\ WriterHolds /\ Waiting /\ Exclusion /\ NoMisuse
  BY DEF LockInv
<1>2. /\ At(g, "RUnlock", l)
      /\ readers' = [readers EXCEPT ![l][g] = @ - 1] /\ Advance({g})
      /\ UNCHANGED <<writer, writing, queue, fatal>>
  BY DEF RUnlock
<1>3. "RUnlock" \in LockOperation
  BY DEF LockOperation
<1>4. /\ code[g] # <<>>
      /\ NextOn(code[g], 1, l, "RUnlock") /\ ~NextOn(code[g], 1, l, "Unlock")
      /\ ~NextOn(Tail(code[g]), 1, l, "RUnlock") /\ ~NextOn(Tail(code[g]), 1, l, "Unlock")
      /\ \A k \in Lock \ {l} :
           /\ NextOn(Tail(code[g]), 1, k, "RUnlock") <=> NextOn(code[g], 1, k, "RUnlock")
           /\ NextOn(Tail(code[g]), 1, k, "Unlock") <=> NextOn(code[g], 1, k, "Unlock")
  BY <1>1, <1>2, <1>3, LockStep
<1>5. /\ code' \in [Goroutine -> Seq(CodeStep)]
      /\ Pairing'
      /\ code'[g] = Tail(code[g])
      /\ \A h \in Goroutine \ {g} : code'[h] = code[h]
  BY <1>1, <1>2, <1>4, Advanced
<1>6. readers[l][g] = 1
  BY <1>1, <1>4 DEF ReadersHold
<1>7. /\ readers' \in [Lock -> [Goroutine -> Nat]]
      /\ readers'[l][g] = 0
      /\ \A k \in Lock, h \in Goroutine : k # l \/ h # g => readers'[k][h] = readers[k][h]
  BY <1>1, <1>2, <1>6 DEF TypeOK
<1>8. TypeOK'
  BY <1>1, <1>2, <1>5, <1>7 DEF TypeOK
<1>9. ReadersHold'
  <2> SUFFICES ASSUME NEW k \in Lock, NEW h \in Goroutine
               PROVE  readers'[k][h] = IF NextOn(code'[h], 1, k, "RUnlock") THEN 1 ELSE 0
    BY DEF ReadersHold
  <2>1. readers[k][h] = IF NextOn(code[h], 1, k, "RUnlock") THEN 1 ELSE 0
    BY <1>1 DEF ReadersHold
  <2>2. CASE k = l /\ h = g
    BY <1>4, <1>5, <1>7, <2>2
  <2>3. CASE k # l \/ h # g
    BY <1>4, <1>5, <1>7, <2>1, <2>3, ZenonT(30)
  <2> QED
    BY <2>2, <2>3
<1>10. WriterHolds'
  <2> SUFFICES ASSUME NEW k \in Lock, NEW h \in Goroutine
               PROVE  NextOn(code'[h], 1, k, "Unlock") <=> writer'[k] = h /\ writing'[k]
    BY DEF WriterHolds
  <2>1. NextOn(code[h], 1, k, "Unlock") <=> writer[k] = h /\ writing[k]
    BY <1>1 DEF WriterHolds
  <2>2. NextOn(code'[h], 1, k, "Unlock") <=> NextOn(code[h], 1, k, "Unlock")
    BY <1>4, <1>5
  <2> QED
    BY <1>2, <2>1, <2>2
<1>11. Waiting'
  <2> SUFFICES ASSUME NEW k \in Lock
               PROVE  /\ writing'[k] => writer'[k] # Nobody
                      /\ \A h \in Goroutine : writer'[k] = h /\ ~writing'[k] => At(h, "Lock", k)'
                      /\ \A h \in queue'[k] : At(h, "RLock", k)' /\ writer'[k] # Nobody
    BY DEF Waiting
  <2>1. /\ writing[k] => writer[k] # Nobody
        /\ \A h \in Goroutine : writer[k] = h /\ ~writing[k] => At(h, "Lock", k)
        /\ \A h \in queue[k] : At(h, "RLock", k) /\ writer[k] # Nobody
    BY <1>1 DEF Waiting
  <2>2. \A h \in Goroutine \ {g} : \A op : At(h, op, k) => At(h, op, k)'
    BY <1>5 DEF At
  <2>3. ~At(g, "Lock", k) /\ ~At(g, "RLock", k)
    BY <1>2, OneStep
  <2>4. g \notin queue[k] /\ queue[k] \subseteq Goroutine
    BY <1>1, <2>1, <2>3 DEF TypeOK
  <2> QED
    BY <1>2, <2>1, <2>2, <2>3, <2>4
<1>12. Exclusion'
  <2> SUFFICES ASSUME NEW k \in Lock, writing'[k], NEW h \in Goroutine
               PROVE  readers'[k][h] = 0
    BY DEF Exclusion
  <2>1. readers[k][h] = 0
    BY <1>1, <1>2 DEF Exclusion
  <2> QED
    BY <1>7, <2>1
<1> QED
  BY <1>1, <1>2, <1>5, <1>8, <1>9, <1>10, <1>11, <1>12 DEF LockInv, NoMisuse

\* A writer announces itself.
LEMMA AnnounceInv ==
  ASSUME LockInv, NEW g \in Goroutine, NEW l \in Lock, Announce(g, l)
  PROVE  LockInv'
<1>1. TypeOK /\ Pairing /\ ReadersHold /\ WriterHolds /\ Waiting /\ Exclusion /\ NoMisuse
  BY DEF LockInv
<1>2. /\ At(g, "Lock", l) /\ writer[l] = Nobody
      /\ writer' = [writer EXCEPT ![l] = g]
      /\ UNCHANGED <<code, writing, readers, queue, fatal>>
  BY DEF Announce
<1>3. ~writing[l]
  BY <1>1, <1>2 DEF Waiting
<1>4. writer'[l] = g /\ \A k \in Lock \ {l} : writer'[k] = writer[k]
  BY <1>1, <1>2 DEF TypeOK
<1>5. TypeOK' /\ Pairing' /\ ReadersHold' /\ Exclusion' /\ NoMisuse'
  BY <1>1, <1>2 DEF TypeOK, Pairing, ReadersHold, Exclusion, NoMisuse
<1>6. WriterHolds'
  <2> SUFFICES ASSUME NEW k \in Lock, NEW h \in Goroutine
               PROVE  NextOn(code[h], 1, k, "Unlock") <=> writer'[k] = h /\ writing[k]
    BY <1>2 DEF WriterHolds
  <2>1. NextOn(code[h], 1, k, "Unlock") <=> writer[k] = h /\ writing[k]
    BY <1>1 DEF WriterHolds
  <2> QED
    BY <1>3, <1>4, <2>1
<1>7. Waiting'
  <2> SUFFICES ASSUME NEW k \in Lock
               PROVE  /\ writing[k] => writer'[k] # Nobody
                      /\ \A h \in Goroutine : writer'[k] = h /\ ~writing[k] => At(h, "Lock", k)
                      /\ \A h \in queue[k] : At(h, "RLock", k) /\ writer'[k] # Nobody
    BY <1>2 DEF Waiting, At
  <2>1. /\ writing[k] => writer[k] # Nobody
        /\ \A h \in Goroutine : writer[k] = h /\ ~writing[k] => At(h, "Lock", k)
        /\ \A h \in queue[k] : At(h, "RLock", k) /\ writer[k] # Nobody
    BY <1>1 DEF Waiting
  <2> QED
    BY <1>2, <1>4, <2>1, NobodyAssumption
<1> QED
  BY <1>5, <1>6, <1>7 DEF LockInv

\* A writer enters when the last reader has left.
LEMMA AcquireInv ==
  ASSUME LockInv, NEW g \in Goroutine, NEW l \in Lock, Acquire(g, l)
  PROVE  LockInv'
<1>1. TypeOK /\ Pairing /\ ReadersHold /\ WriterHolds /\ Waiting /\ Exclusion /\ NoMisuse
  BY DEF LockInv
<1>2. /\ At(g, "Lock", l) /\ writer[l] = g /\ ~writing[l]
      /\ \A h \in Goroutine : readers[l][h] = 0
      /\ writing' = [writing EXCEPT ![l] = TRUE] /\ Advance({g})
      /\ UNCHANGED <<writer, readers, queue, fatal>>
  BY DEF Acquire
<1>3. "Lock" \in LockOperation
  BY DEF LockOperation
<1>4. /\ code[g] # <<>>
      /\ ~NextOn(code[g], 1, l, "RUnlock")
      /\ ~NextOn(Tail(code[g]), 1, l, "RUnlock") /\ NextOn(Tail(code[g]), 1, l, "Unlock")
      /\ \A k \in Lock \ {l} :
           /\ NextOn(Tail(code[g]), 1, k, "RUnlock") <=> NextOn(code[g], 1, k, "RUnlock")
           /\ NextOn(Tail(code[g]), 1, k, "Unlock") <=> NextOn(code[g], 1, k, "Unlock")
  BY <1>1, <1>2, <1>3, LockStep
<1>5. /\ code' \in [Goroutine -> Seq(CodeStep)]
      /\ Pairing'
      /\ code'[g] = Tail(code[g])
      /\ \A h \in Goroutine \ {g} : code'[h] = code[h]
  BY <1>1, <1>2, <1>4, Advanced
<1>6. writing'[l] /\ \A k \in Lock \ {l} : writing'[k] = writing[k]
  BY <1>1, <1>2 DEF TypeOK
<1>7. TypeOK'
  BY <1>1, <1>2, <1>5 DEF TypeOK
<1>8. ReadersHold'
  <2> SUFFICES ASSUME NEW k \in Lock, NEW h \in Goroutine
               PROVE  readers'[k][h] = IF NextOn(code'[h], 1, k, "RUnlock") THEN 1 ELSE 0
    BY DEF ReadersHold
  <2>1. readers[k][h] = IF NextOn(code[h], 1, k, "RUnlock") THEN 1 ELSE 0
    BY <1>1 DEF ReadersHold
  <2>2. NextOn(code'[h], 1, k, "RUnlock") <=> NextOn(code[h], 1, k, "RUnlock")
    BY <1>4, <1>5
  <2> QED
    BY <1>2, <2>1, <2>2
<1>9. WriterHolds'
  <2> SUFFICES ASSUME NEW k \in Lock, NEW h \in Goroutine
               PROVE  NextOn(code'[h], 1, k, "Unlock") <=> writer'[k] = h /\ writing'[k]
    BY DEF WriterHolds
  <2>1. NextOn(code[h], 1, k, "Unlock") <=> writer[k] = h /\ writing[k]
    BY <1>1 DEF WriterHolds
  <2>2. CASE k = l /\ h = g
    BY <1>2, <1>4, <1>5, <1>6, <2>2
  <2>3. CASE k = l /\ h # g
    BY <1>2, <1>5, <2>1, <2>3
  <2>4. CASE k # l
    <3>1. NextOn(code'[h], 1, k, "Unlock") <=> NextOn(code[h], 1, k, "Unlock")
      BY <1>4, <1>5, <2>4
    <3> QED
      BY <1>2, <1>6, <2>1, <2>4, <3>1
  <2> QED
    BY <2>2, <2>3, <2>4
<1>10. Waiting'
  <2> SUFFICES ASSUME NEW k \in Lock
               PROVE  /\ writing'[k] => writer'[k] # Nobody
                      /\ \A h \in Goroutine : writer'[k] = h /\ ~writing'[k] => At(h, "Lock", k)'
                      /\ \A h \in queue'[k] : At(h, "RLock", k)' /\ writer'[k] # Nobody
    BY DEF Waiting
  <2>1. /\ writing[k] => writer[k] # Nobody
        /\ \A h \in Goroutine : writer[k] = h /\ ~writing[k] => At(h, "Lock", k)
        /\ \A h \in queue[k] : At(h, "RLock", k) /\ writer[k] # Nobody
    BY <1>1 DEF Waiting
  <2>2. \A h \in Goroutine \ {g} : \A op : At(h, op, k) => At(h, op, k)'
    BY <1>5 DEF At
  <2>3. ~At(g, "RLock", k) /\ (k # l => ~At(g, "Lock", k))
    BY <1>2, OneStep
  <2>4. g \notin queue[k] /\ queue[k] \subseteq Goroutine
    BY <1>1, <2>1, <2>3 DEF TypeOK
  <2>5. writing'[k] => writer'[k] # Nobody
    BY <1>2, <1>6, <2>1, NobodyAssumption
  <2>6. ASSUME NEW h \in Goroutine, writer'[k] = h, ~writing'[k]
        PROVE  At(h, "Lock", k)'
    BY <1>2, <1>6, <2>1, <2>2, <2>3, <2>6
  <2>7. \A h \in queue'[k] : At(h, "RLock", k)' /\ writer'[k] # Nobody
    BY <1>2, <2>1, <2>2, <2>4
  <2> QED
    BY <2>5, <2>6, <2>7
<1>11. Exclusion'
  <2> SUFFICES ASSUME NEW k \in Lock, writing'[k], NEW h \in Goroutine
               PROVE  readers[k][h] = 0
    BY <1>2 DEF Exclusion
  <2> QED
    BY <1>1, <1>2, <1>6 DEF Exclusion
<1> QED
  BY <1>1, <1>2, <1>5, <1>7, <1>8, <1>9, <1>10, <1>11 DEF LockInv, NoMisuse

\* A writer leaves, and the queued readers enter.
LEMMA UnlockInv ==
  ASSUME LockInv, NEW g \in Goroutine, NEW l \in Lock, Unlock(g, l)
  PROVE  LockInv'
<1>1. TypeOK /\ Pairing /\ ReadersHold /\ WriterHolds /\ Waiting /\ Exclusion /\ NoMisuse
  BY DEF LockInv
<1>2. /\ At(g, "Unlock", l) /\ writing[l]
      /\ writer' = [writer EXCEPT ![l] = Nobody]
      /\ writing' = [writing EXCEPT ![l] = FALSE]
      /\ readers' = [readers EXCEPT ![l] =
                       [h \in Goroutine |-> IF h \in queue[l] THEN @[h] + 1 ELSE @[h]]]
      /\ queue' = [queue EXCEPT ![l] = {}]
      /\ Advance({g} \cup queue[l])
      /\ UNCHANGED fatal
  BY DEF Unlock
<1>3. "Unlock" \in LockOperation /\ "RLock" \in LockOperation
  BY DEF LockOperation
<1>4. queue[l] \subseteq Goroutine /\ \A h \in queue[l] : At(h, "RLock", l)
  BY <1>1 DEF TypeOK, Waiting
<1>5. /\ code[g] # <<>>
      /\ ~NextOn(code[g], 1, l, "RUnlock") /\ NextOn(code[g], 1, l, "Unlock")
      /\ ~NextOn(Tail(code[g]), 1, l, "RUnlock") /\ ~NextOn(Tail(code[g]), 1, l, "Unlock")
      /\ \A k \in Lock \ {l} :
           /\ NextOn(Tail(code[g]), 1, k, "RUnlock") <=> NextOn(code[g], 1, k, "RUnlock")
           /\ NextOn(Tail(code[g]), 1, k, "Unlock") <=> NextOn(code[g], 1, k, "Unlock")
  BY <1>1, <1>2, <1>3, LockStep
<1>6. ASSUME NEW h \in queue[l]
      PROVE  /\ code[h] # <<>>
             /\ ~NextOn(code[h], 1, l, "RUnlock") /\ ~NextOn(code[h], 1, l, "Unlock")
             /\ NextOn(Tail(code[h]), 1, l, "RUnlock") /\ ~NextOn(Tail(code[h]), 1, l, "Unlock")
             /\ \A k \in Lock \ {l} :
                  /\ NextOn(Tail(code[h]), 1, k, "RUnlock") <=> NextOn(code[h], 1, k, "RUnlock")
                  /\ NextOn(Tail(code[h]), 1, k, "Unlock") <=> NextOn(code[h], 1, k, "Unlock")
  BY <1>1, <1>3, <1>4, LockStep
<1>7. g \notin queue[l]
  BY <1>2, <1>4, OneStep
<1>8. {g} \cup queue[l] \in SUBSET Goroutine /\ \A h \in {g} \cup queue[l] : code[h] # <<>>
  BY <1>4, <1>5, <1>6
<1>9. /\ code' \in [Goroutine -> Seq(CodeStep)]
      /\ Pairing'
      /\ code'[g] = Tail(code[g])
      /\ \A h \in queue[l] : code'[h] = Tail(code[h])
      /\ \A h \in Goroutine : h # g /\ h \notin queue[l] => code'[h] = code[h]
  BY <1>1, <1>2, <1>8, Advanced
<1>10. /\ writer'[l] = Nobody /\ ~writing'[l] /\ queue'[l] = {}
       /\ \A k \in Lock \ {l} :
            /\ writer'[k] = writer[k] /\ writing'[k] = writing[k] /\ queue'[k] = queue[k]
            /\ readers'[k] = readers[k]
       /\ \A h \in Goroutine :
            readers'[l][h] = IF h \in queue[l] THEN readers[l][h] + 1 ELSE readers[l][h]
  BY <1>1, <1>2 DEF TypeOK
<1>11. \A h \in Goroutine : readers[l][h] = 0
  BY <1>1, <1>2 DEF Exclusion
<1>12. writer[l] = g
  BY <1>1, <1>5 DEF WriterHolds
<1>13. ASSUME NEW k \in Lock \ {l}, NEW h \in Goroutine
       PROVE  /\ NextOn(code'[h], 1, k, "RUnlock") <=> NextOn(code[h], 1, k, "RUnlock")
              /\ NextOn(code'[h], 1, k, "Unlock") <=> NextOn(code[h], 1, k, "Unlock")
  BY <1>5, <1>6, <1>9
<1>14. TypeOK'
  <2>1. readers' \in [Lock -> [Goroutine -> Nat]]
    BY <1>1, <1>2 DEF TypeOK
  <2> QED
    BY <1>1, <1>2, <1>9, <2>1 DEF TypeOK
<1>15. ReadersHold'
  <2> SUFFICES ASSUME NEW k \in Lock, NEW h \in Goroutine
               PROVE  readers'[k][h] = IF NextOn(code'[h], 1, k, "RUnlock") THEN 1 ELSE 0
    BY DEF ReadersHold
  <2>1. readers[k][h] = IF NextOn(code[h], 1, k, "RUnlock") THEN 1 ELSE 0
    BY <1>1 DEF ReadersHold
  <2>2. CASE k # l
    BY <1>10, <1>13, <2>1, <2>2
  <2>3. CASE k = l /\ h \in queue[l]
    <3>1. readers'[l][h] = 1
      BY <1>10, <1>11, <2>3
    <3>2. NextOn(code'[h], 1, l, "RUnlock")
      BY <1>6, <1>9, <2>3
    <3> QED
      BY <2>3, <3>1, <3>2
  <2>4. CASE k = l /\ h \notin queue[l]
    <3>1. readers'[l][h] = 0
      BY <1>10, <1>11, <2>4
    <3>2. ~NextOn(code'[h], 1, l, "RUnlock")
      <4>1. ~NextOn(code[h], 1, l, "RUnlock")
        BY <1>11, <2>1, <2>4
      <4> QED
        BY <1>5, <1>9, <2>4, <4>1
    <3> QED
      BY <2>4, <3>1, <3>2
  <2> QED
    BY <2>2, <2>3, <2>4
<1>16. WriterHolds'
  <2> SUFFICES ASSUME NEW k \in Lock, NEW h \in Goroutine
               PROVE  NextOn(code'[h], 1, k, "Unlock") <=> writer'[k] = h /\ writing'[k]
    BY DEF WriterHolds
  <2>1. NextOn(code[h], 1, k, "Unlock") <=> writer[k] = h /\ writing[k]
    BY <1>1 DEF WriterHolds
  <2>2. CASE k # l
    BY <1>10, <1>13, <2>1, <2>2
  <2>3. CASE k = l
    <3>1. ~NextOn(code'[h], 1, l, "Unlock")
      BY <1>5, <1>6, <1>9, <1>12, <2>1, <2>3
    <3> QED
      BY <1>10, <2>3, <3>1
  <2> QED
    BY <2>2, <2>3
<1>17. Waiting'
  <2> SUFFICES ASSUME NEW k \in Lock
               PROVE  /\ writing'[k] => writer'[k] # Nobody
                      /\ \A h \in Goroutine : writer'[k] = h /\ ~writing'[k] => At(h, "Lock", k)'
                      /\ \A h \in queue'[k] : At(h, "RLock", k)' /\ writer'[k] # Nobody
    BY DEF Waiting
  <2>1. CASE k = l
    BY <1>10, <2>1, NobodyAssumption
  <2>2. CASE k # l
    <3>1. /\ writing[k] => writer[k] # Nobody
          /\ \A h \in Goroutine : writer[k] = h /\ ~writing[k] => At(h, "Lock", k)
          /\ \A h \in queue[k] : At(h, "RLock", k) /\ writer[k] # Nobody
      BY <1>1 DEF Waiting
    <3>2. ASSUME NEW h \in Goroutine, NEW op, At(h, op, k), op # "Unlock"
          PROVE  At(h, op, k)'
      <4>1. h # g /\ h \notin queue[l]
        BY <1>2, <1>4, <2>2, <3>2, OneStep
      <4> QED
        BY <1>9, <3>2, <4>1 DEF At
    <3>3. queue[k] \subseteq Goroutine
      BY <1>1 DEF TypeOK
    <3> QED
      BY <1>10, <2>2, <3>1, <3>2, <3>3
  <2> QED
    BY <2>1, <2>2
<1>18. Exclusion'
  <2> SUFFICES ASSUME NEW k \in Lock, writing'[k], NEW h \in Goroutine
               PROVE  readers'[k][h] = 0
    BY DEF Exclusion
  <2>1. k # l
    BY <1>10
  <2> QED
    BY <1>1, <1>10, <2>1 DEF Exclusion
<1> QED
  BY <1>1, <1>2, <1>9, <1>14, <1>15, <1>16, <1>17, <1>18 DEF LockInv, NoMisuse

\* What is about to be unlocked is locked.
LEMMA NeverMisused ==
  ASSUME LockInv, NEW g \in Goroutine, NEW l \in Lock
  PROVE  ~Misuse(g, l)
<1>1. TypeOK /\ Pairing /\ ReadersHold /\ WriterHolds
  BY DEF LockInv
<1>2. "RUnlock" \in LockOperation /\ "Unlock" \in LockOperation
  BY DEF LockOperation
<1>3. ASSUME At(g, "Unlock", l)
      PROVE  writing[l]
  <2>1. NextOn(code[g], 1, l, "Unlock")
    BY <1>1, <1>2, <1>3, LockStep
  <2> QED
    BY <1>1, <2>1 DEF WriterHolds
<1>4. ASSUME At(g, "RUnlock", l)
      PROVE  readers[l][g] = 1
  <2>1. NextOn(code[g], 1, l, "RUnlock")
    BY <1>1, <1>2, <1>4, LockStep
  <2> QED
    BY <1>1, <2>1 DEF ReadersHold
<1> QED
  BY <1>3, <1>4 DEF Misuse

\* The invariant depends on the variables alone.
LEMMA StutterInv ==
  ASSUME LockInv, UNCHANGED vars
  PROVE  LockInv'
  BY DEF LockInv, TypeOK, Pairing, ReadersHold, WriterHolds, Waiting, Exclusion, NoMisuse, At, vars

LEMMA StepLockInv ==
  ASSUME BalancedCalls, LockInv, [Next]_vars
  PROVE  LockInv'
<1>1. ASSUME NEW g \in Goroutine, StepOf(g)
      PROVE  LockInv'
  <2>1. CASE Call(g)
    BY <2>1, CallInv
  <2>2. CASE Access(g) \/ Send(g)
    BY <2>2, PlainStep
  <2>3. ASSUME NEW l \in Lock, RLock(g, l)
        PROVE  LockInv'
    BY <2>3, RLockInv
  <2>4. ASSUME NEW l \in Lock, RUnlock(g, l)
        PROVE  LockInv'
    BY <2>4, RUnlockInv
  <2>5. ASSUME NEW l \in Lock, Announce(g, l)
        PROVE  LockInv'
    BY <2>5, AnnounceInv
  <2>6. ASSUME NEW l \in Lock, Acquire(g, l)
        PROVE  LockInv'
    BY <2>6, AcquireInv
  <2>7. ASSUME NEW l \in Lock, Unlock(g, l)
        PROVE  LockInv'
    BY <2>7, UnlockInv
  <2>8. ASSUME NEW l \in Lock, Misuse(g, l)
        PROVE  LockInv'
    BY <2>8, NeverMisused
  <2> QED
    BY <1>1, <2>1, <2>2, <2>3, <2>4, <2>5, <2>6, <2>7, <2>8 DEF StepOf, Run
<1>2. CASE UNCHANGED vars
  BY <1>2, StutterInv
<1> QED
  BY <1>1, <1>2 DEF Next

-----------------------------------------------------------------------------
(* Balanced codes. *)

\* What a goroutine has left to run says which locks it holds.
THEOREM LockInvariance ==
  ASSUME BalancedCalls
  PROVE  Spec => []LockInv
  BY InitLockInv, StepLockInv, PTL DEF Spec

\* If every code unlocks what it locks, once and in the mode it was locked in,
\* no mutex is ever unlocked that is not locked.
THEOREM NoMisuseIfBalanced ==
  ASSUME BalancedCalls
  PROVE  Spec => []NoMisuse
<1>1. LockInv => NoMisuse
  BY DEF LockInv
<1> QED
  BY <1>1, LockInvariance, PTL

\* Then a writer is alone inside, and readers are counted once.
THEOREM ExclusionIfBalanced ==
  ASSUME BalancedCalls
  PROVE  Spec => []Exclusion
<1>1. LockInv => Exclusion
  BY DEF LockInv
<1> QED
  BY <1>1, LockInvariance, PTL

-----------------------------------------------------------------------------
(* Guarded variables. *)

GuardedCalls(x, l) == \A g \in Goroutine : \A c \in Calls[g] : Guarded(c, x, l)
Guarding(x, l) == \A g \in Goroutine : Guarded(code[g], x, l)

\* A code or the rest of one is run, or nobody moves.
LEMMA CodeSteps ==
  ASSUME LockInv, [Next]_vars, NEW g \in Goroutine
  PROVE  \/ code'[g] = code[g]
         \/ code[g] # <<>> /\ code[g] \in Seq(CodeStep) /\ code'[g] = Tail(code[g])
         \/ code'[g] \in Calls[g]
<1>1. code[g] \in Seq(CodeStep) /\ Waiting
  BY DEF LockInv, TypeOK
<1>2. CASE UNCHANGED vars
  BY <1>2 DEF vars
<1>3. ASSUME NEW G, Advance(G), \A h \in G : code[h] # <<>>, code'[g] # code[g]
      PROVE  code[g] # <<>> /\ code'[g] = Tail(code[g])
  BY <1>3 DEF Advance
<1>4. ASSUME NEW h \in Goroutine, StepOf(h), code'[g] # code[g]
      PROVE  \/ code[g] # <<>> /\ code'[g] = Tail(code[g])
             \/ code'[g] \in Calls[g]
  <2>1. CASE Call(h)
    BY <1>4, <2>1 DEF Call, LockInv, TypeOK
  <2>2. ASSUME NEW l \in Lock, Announce(h, l)
        PROVE  FALSE
    BY <1>4, <2>2 DEF Announce
  <2>3. CASE Run(h)
    <3>1. CASE Advance({h}) /\ code[h] # <<>>
      BY <1>3, <1>4, <3>1
    <3>2. ASSUME NEW l \in Lock, Unlock(h, l)
          PROVE  code[g] # <<>> /\ code'[g] = Tail(code[g])
      <4>1. \A k \in {h} \cup queue[l] : code[k] # <<>>
        BY <1>1, <3>2 DEF Waiting, At, Unlock
      <4> QED
        BY <1>3, <1>4, <3>2, <4>1 DEF Unlock
    <3>3. \/ Advance({h}) /\ code[h] # <<>>
          \/ UNCHANGED code
          \/ \E l \in Lock : Unlock(h, l)
      BY <2>3 DEF Run, Access, Send, RLock, RUnlock, Acquire, Misuse, At
    <3> QED
      BY <1>4, <3>1, <3>2, <3>3
  <2> QED
    BY <1>4, <2>1, <2>2, <2>3 DEF StepOf
<1> QED
  BY <1>1, <1>2, <1>4 DEF Next

\* Guarding codes stay guarding.
LEMMA GuardingStep ==
  ASSUME NEW x, NEW l, GuardedCalls(x, l), LockInv, Guarding(x, l), [Next]_vars
  PROVE  Guarding(x, l)'
<1> SUFFICES ASSUME NEW g \in Goroutine
             PROVE  Guarded(code'[g], x, l)
  BY DEF Guarding
<1>1. CASE code'[g] = code[g]
  BY <1>1 DEF Guarding
<1>2. CASE code[g] # <<>> /\ code[g] \in Seq(CodeStep) /\ code'[g] = Tail(code[g])
  BY <1>2, GuardedTail DEF Guarding
<1>3. CASE code'[g] \in Calls[g]
  BY <1>3 DEF GuardedCalls
<1> QED
  BY <1>1, <1>2, <1>3, CodeSteps

\* One goroutine at a time is inside to change x, and none to use it then.
LEMMA GuardingExcludes ==
  ASSUME NEW x, NEW l \in Lock, LockInv, Guarding(x, l)
  PROVE  ~Race(x)
<1> SUFFICES ASSUME NEW g \in Goroutine, NEW h \in Goroutine, g # h,
                    At(g, "write", x), At(h, "read", x) \/ At(h, "write", x)
             PROVE  FALSE
  BY DEF Race
<1>1. TypeOK /\ ReadersHold /\ WriterHolds /\ Exclusion
  BY DEF LockInv
<1>2. \A k \in Goroutine : code[k] # <<>> =>
        /\ 1 \in 1..Len(code[k]) /\ code[k][1] = Head(code[k])
  BY <1>1 DEF TypeOK
<1>3. NextOn(code[g], 1, l, "Unlock")
  BY <1>2 DEF Guarding, Guarded, At
<1>4. writer[l] = g /\ writing[l]
  BY <1>1, <1>3 DEF WriterHolds
<1>5. NextOn(code[h], 1, l, "RUnlock") \/ NextOn(code[h], 1, l, "Unlock")
  BY <1>2 DEF Guarding, Guarded, At, HoldsAt
<1>6. ~NextOn(code[h], 1, l, "Unlock")
  BY <1>1, <1>4 DEF WriterHolds
<1>7. readers[l][h] = 1
  BY <1>1, <1>5, <1>6 DEF ReadersHold
<1> QED
  BY <1>1, <1>4, <1>7 DEF Exclusion

\* What every code uses under one mutex, and changes under it locked for
\* writing, is never used by two goroutines at once while one changes it.
THEOREM NoRaceIfGuarded ==
  ASSUME NEW x, NEW l \in Lock, BalancedCalls, GuardedCalls(x, l)
  PROVE  Spec => []~Race(x)
<1>1. Init => Guarding(x, l)
  <2>1. Guarded(<<>>, x, l)
    BY DEF Guarded
  <2> QED
    BY <2>1 DEF Init, Guarding
<1>2. LockInv /\ Guarding(x, l) /\ [Next]_vars => Guarding(x, l)'
  BY GuardingStep
<1>3. LockInv /\ Guarding(x, l) => ~Race(x)
  BY GuardingExcludes
<1> QED
  BY <1>1, <1>2, <1>3, LockInvariance, PTL DEF Spec

-----------------------------------------------------------------------------
(* Ordered codes. *)

OrderedCalls == \A g \in Goroutine : \A c \in Calls[g] : Ordered(c)
Ordering == \A g \in Goroutine : Ordered(code[g])

\* Ordered codes stay ordered.
LEMMA OrderingStep ==
  ASSUME OrderedCalls, LockInv, Ordering, [Next]_vars
  PROVE  Ordering'
<1> SUFFICES ASSUME NEW g \in Goroutine
             PROVE  Ordered(code'[g])
  BY DEF Ordering
<1>1. CASE code'[g] = code[g]
  BY <1>1 DEF Ordering
<1>2. CASE code[g] # <<>> /\ code[g] \in Seq(CodeStep) /\ code'[g] = Tail(code[g])
  BY <1>2, OrderedTail DEF Ordering
<1>3. CASE code'[g] \in Calls[g]
  BY <1>3 DEF OrderedCalls
<1> QED
  BY <1>1, <1>2, <1>3, CodeSteps

\* g is about to take l; g has l.
Wants(g, l) == At(g, "RLock", l) \/ At(g, "Lock", l)
Has(g, l) == readers[l][g] > 0 \/ (writer[l] = g /\ writing[l])

\* An ordered goroutine has only locks of a higher level than the one it wants.
LEMMA WantsLower ==
  ASSUME LockInv, Ordering, NEW g \in Goroutine, NEW k \in Lock, NEW l \in Lock, Wants(g, l), Has(g, k)
  PROVE  Level[k] > Level[l]
<1>1. TypeOK /\ ReadersHold /\ WriterHolds
  BY DEF LockInv
<1>2. code[g] # <<>> /\ code[g] \in Seq(CodeStep) /\ Head(code[g]) \in {"RLock", "Lock"} \X {l}
  <2>1. code[g] # <<>> /\ (Head(code[g]) = <<"RLock", l>> \/ Head(code[g]) = <<"Lock", l>>)
    BY DEF Wants, At
  <2>2. code[g] \in Seq(CodeStep)
    BY <1>1 DEF TypeOK
  <2>3. <<"RLock", l>> \in {"RLock", "Lock"} \X {l} /\ <<"Lock", l>> \in {"RLock", "Lock"} \X {l}
    OBVIOUS
  <2>4. Head(code[g]) \in {"RLock", "Lock"} \X {l}
    BY <2>1, <2>3
  <2> QED
    BY <2>1, <2>2, <2>4
<1>3. 1 \in 1..Len(code[g]) /\ code[g][1] \in {"RLock", "Lock"} \X {l}
  BY <1>2
<1>4. HoldsAt(code[g], 1, k)
  BY <1>1 DEF Has, HoldsAt, ReadersHold, WriterHolds
<1> QED
  BY <1>3, <1>4 DEF Ordering, Ordered

\* A goroutine waits for one that has the lock it wants, or for a writer that
\* has announced itself.
LEMMA WaitsForWhom ==
  ASSUME LockInv, NEW g \in Goroutine, NEW h \in WaitsFor(g)
  PROVE  \E l \in Lock : Wants(g, l) /\ (Has(h, l) \/ (writer[l] = h /\ At(h, "Lock", l)))
<1>1. TypeOK /\ Waiting
  BY DEF LockInv
<1>2. PICK l \in Lock :
        /\ h \in Goroutine
        /\ \/ g \in queue[l] /\ h = writer[l]
           \/ At(g, "Lock", l) /\ h = writer[l]
           \/ At(g, "Lock", l) /\ readers[l][h] > 0
  BY DEF WaitsFor
<1>3. Wants(g, l)
  BY <1>1, <1>2 DEF Waiting, Wants
<1>4. Has(h, l) \/ (writer[l] = h /\ At(h, "Lock", l))
  BY <1>1, <1>2 DEF Waiting, Has
<1> QED
  BY <1>3, <1>4

\* Such a writer waits for readers of that lock.
LEMMA WritersWaitForReaders ==
  ASSUME LockInv, NEW h \in Goroutine, NEW l \in Lock, writer[l] = h, At(h, "Lock", l),
         NEW k \in WaitsFor(h)
  PROVE  Has(k, l)
<1>1. TypeOK /\ Pairing /\ WriterHolds /\ Waiting
  BY DEF LockInv
<1>2. ~writing[l]
  <2>1. "Lock" \in LockOperation
    BY DEF LockOperation
  <2>2. ~NextOn(code[h], 1, l, "Unlock")
    BY <1>1, <2>1, LockStep
  <2> QED
    BY <1>1, <2>2 DEF WriterHolds
<1>3. PICK m \in Lock :
        \/ h \in queue[m]
        \/ At(h, "Lock", m) /\ k = writer[m] /\ (k # h \/ writing[m])
        \/ At(h, "Lock", m) /\ readers[m][k] > 0
  BY DEF WaitsFor
<1>4. h \notin queue[m]
  <2>1. h \in queue[m] => At(h, "RLock", m)
    BY <1>1 DEF Waiting
  <2> QED
    BY <2>1, OneStep
<1>5. m = l
  BY <1>3, <1>4, OneStep
<1> QED
  BY <1>2, <1>3, <1>4, <1>5 DEF Has

LessThan == {ss \in Nat \X Nat : ss[1] < ss[2]}

\* The order of the natural numbers is well-founded.
LEMMA LessThanWellFounded == IsWellFoundedOn(LessThan, Nat)
  BY NatLessThanWellFounded DEF OpToRel, LessThan

\* In a circle every goroutine wants a lock that one of the circle has.  Take
\* the lock of the lowest level that is both wanted and had: who has it wants
\* one of a lower level still, which is wanted and had too.
LEMMA OrderExcludesCircles ==
  ASSUME LockInv, Ordering
  PROVE  NoDeadlock
<1> SUFFICES ASSUME NEW G \in SUBSET Goroutine, G # {}, \A g \in G : WaitsFor(g) \cap G # {}
             PROVE  FALSE
  BY DEF NoDeadlock
<1> DEFINE Contended(l) == (\E g \in G : Wants(g, l)) /\ (\E h \in G : Has(h, l))
           Levels == {Level[l] : l \in {k \in Lock : Contended(k)}}
<1>1. ASSUME NEW g \in G
      PROVE  \E l \in Lock : Wants(g, l) /\ Contended(l)
  <2>1. PICK h \in G : h \in WaitsFor(g)
    OBVIOUS
  <2>2. PICK l \in Lock : Wants(g, l) /\ (Has(h, l) \/ (writer[l] = h /\ At(h, "Lock", l)))
    BY <2>1, WaitsForWhom
  <2>3. CASE Has(h, l)
    BY <2>2, <2>3
  <2>4. CASE writer[l] = h /\ At(h, "Lock", l)
    <3>1. PICK k \in G : k \in WaitsFor(h)
      OBVIOUS
    <3>2. Has(k, l)
      BY <2>4, <3>1, WritersWaitForReaders
    <3> QED
      BY <2>2, <3>2
  <2> QED
    BY <2>2, <2>3, <2>4
<1>2. Levels \subseteq Nat /\ Levels # {}
  BY <1>1, LevelAssumption
<1>3. PICK n \in Levels : \A m \in Levels : <<m, n>> \notin LessThan
  BY <1>2, LessThanWellFounded, WFMin
<1>4. PICK l \in Lock : Contended(l) /\ Level[l] = n
  BY <1>3
<1>5. PICK h \in G : Has(h, l)
  BY <1>4
<1>6. PICK k \in Lock : Wants(h, k) /\ Contended(k)
  BY <1>1
<1>7. Level[l] > Level[k]
  BY <1>5, <1>6, WantsLower
<1>8. Level[k] \in Levels /\ Level[k] \in Nat /\ Level[l] \in Nat
  BY <1>6, LevelAssumption
<1>9. <<Level[k], Level[l]>> \in LessThan
  BY <1>7, <1>8 DEF LessThan
<1> QED
  BY <1>3, <1>4, <1>8, <1>9

\* If every code takes locks in one order, besides, no goroutines ever wait
\* for each other in a circle - however many there are, and whatever codes of
\* these they run.
THEOREM NoDeadlockIfOrdered ==
  ASSUME BalancedCalls, OrderedCalls
  PROVE  Spec => []NoDeadlock
<1>1. Init => Ordering
  <2>1. Ordered(<<>>)
    BY DEF Ordered
  <2> QED
    BY <2>1 DEF Init, Ordering
<1>2. LockInv /\ Ordering /\ [Next]_vars => Ordering'
  BY OrderingStep
<1>3. LockInv /\ Ordering => NoDeadlock
  BY OrderExcludesCircles
<1> QED
  BY <1>1, <1>2, <1>3, LockInvariance, PTL DEF Spec

-----------------------------------------------------------------------------
(* Disciplined codes. *)

Disciplined(s) == Balanced(s) /\ Ordered(s) /\ \A m \in Maps : Guarded(s, m, Server)

DisciplinedCalls == \A g \in Goroutine : \A c \in Calls[g] : Disciplined(c)

\* The hypotheses of the theorems on RWMutex.
LEMMA DisciplinedMeans ==
  ASSUME DisciplinedCalls
  PROVE  BalancedCalls /\ OrderedCalls /\ \A m \in Maps : GuardedCalls(m, Server)
  BY DEF DisciplinedCalls, Disciplined, BalancedCalls, OrderedCalls, GuardedCalls

MapsGuarded == \A m \in Maps : Guarding(m, Server)

\* The inductive invariant: that of the mutexes, and disciplined rests of code.
LEMMA DisciplineInvariance ==
  ASSUME DisciplinedCalls
  PROVE  Spec => [](LockInv /\ Ordering /\ MapsGuarded)
<1>1. Init => Ordering /\ MapsGuarded
  <2>1. Ordered(<<>>) /\ \A m \in Maps : Guarded(<<>>, m, Server)
    BY DEF Ordered, Guarded
  <2> QED
    BY <2>1 DEF Init, Ordering, MapsGuarded, Guarding
<1>2. LockInv /\ Ordering /\ MapsGuarded /\ [Next]_vars => Ordering' /\ MapsGuarded'
  BY DisciplinedMeans, OrderingStep, GuardingStep DEF MapsGuarded
<1>3. Spec => []LockInv
  BY DisciplinedMeans, LockInvariance
<1> QED
  BY <1>1, <1>2, <1>3, PTL DEF Spec

\* What a goroutine has left to run keeps to the discipline, and says which
\* mutexes it holds.
THEOREM DisciplineKept ==
  ASSUME DisciplinedCalls
  PROVE  Spec => []Discipline
<1>1. LockInv /\ Ordering /\ MapsGuarded => Discipline
  <2> SUFFICES ASSUME LockInv, Ordering, MapsGuarded, NEW g \in Goroutine
               PROVE  /\ Paired(code[g]) /\ Ordered(code[g])
                      /\ \A m \in Maps : Guarded(code[g], m, Server)
                      /\ \A l \in Lock :
                           /\ NextOn(code[g], 1, l, "RUnlock") <=> readers[l][g] = 1
                           /\ NextOn(code[g], 1, l, "Unlock") <=> writer[l] = g /\ writing[l]
    BY DEF Discipline
  <2>1. Pairing /\ ReadersHold /\ WriterHolds
    BY DEF LockInv
  <2> QED
    BY <2>1 DEF Pairing, Ordering, MapsGuarded, Guarding, ReadersHold, WriterHolds
<1> QED
  BY <1>1, DisciplineInvariance, PTL

\* Disciplined handlers never wait for each other in a circle.
THEOREM NoDeadlockIfDisciplined ==
  ASSUME DisciplinedCalls
  PROVE  Spec => []NoDeadlock
  BY DisciplinedMeans, NoDeadlockIfOrdered

\* Disciplined handlers never use a map of the server while another one
\* changes it.
THEOREM NoMapRaceIfDisciplined ==
  ASSUME DisciplinedCalls
  PROVE  Spec => []NoMapRace
<1>1. LockInv /\ MapsGuarded => NoMapRace
  <2>1. Server \in Lock
    BY LocksAssumption
  <2> QED
    BY <2>1, GuardingExcludes DEF MapsGuarded, NoMapRace
<1> QED
  BY <1>1, DisciplineInvariance, PTL

-----------------------------------------------------------------------------
(* Concatenations. *)

\* Induction over a set of numbers.
LEMMA Induction ==
  ASSUME NEW S, 0 \in S, \A n \in Nat : n \in S => n + 1 \in S
  PROVE  Nat \subseteq S
<1> DEFINE Smaller == {ss \in Nat \X Nat : ss[1] < ss[2]}
<1>1. IsWellFoundedOn(Smaller, Nat)
  BY NatLessThanWellFounded DEF OpToRel
<1>2. SUFFICES ASSUME NEW m \in Nat \ S PROVE FALSE
  OBVIOUS
<1>3. PICK k \in Nat \ S : \A j \in Nat \ S : <<j, k>> \notin Smaller
  <2> HIDE DEF Smaller
  <2> QED BY <1>1, WFMin
<1>4. k - 1 \in Nat /\ k # 0
  BY <1>3
<1>5. k - 1 \in S
  <2>1. <<k - 1, k>> \in Smaller
    BY <1>4
  <2> QED BY <1>3, <1>4, <2>1
<1> QED
  BY <1>3, <1>4, <1>5

\* f is the recursive function of FlattenSeq for the first m parts of ss.
Flattens(f, ss, m) == f = [i \in 1..m |-> IF i = 1 THEN ss[i] ELSE f[i - 1] \o ss[i]]

\* There is such a function for any number of parts.
LEMMA FlattenExists ==
  ASSUME NEW ss, NEW n \in Nat
  PROVE  \E f : Flattens(f, ss, n)
<1> DEFINE S == {m \in Nat : \E f : Flattens(f, ss, m)}
<1>1. 0 \in S
  <2>1. Flattens([i \in 1..0 |-> <<>>], ss, 0)
    BY DEF Flattens
  <2> QED BY <2>1
<1>2. ASSUME NEW m \in Nat, m \in S
      PROVE  m + 1 \in S
  <2>1. PICK f : Flattens(f, ss, m)
    BY <1>2
  <2> DEFINE last == IF m = 0 THEN ss[m + 1] ELSE f[m] \o ss[m + 1]
             g == [i \in 1..m + 1 |-> IF i = m + 1 THEN last ELSE f[i]]
  <2>2. ASSUME NEW i \in 1..m + 1
        PROVE  g[i] = IF i = 1 THEN ss[i] ELSE g[i - 1] \o ss[i]
    <3>1. CASE i = m + 1
      <4>1. i # 1 => g[i - 1] = f[m] /\ m # 0
        BY <3>1
      <4> QED
        BY <3>1, <4>1
    <3>2. CASE i # m + 1
      <4>1. i \in 1..m /\ g[i] = f[i] /\ (i # 1 => g[i - 1] = f[i - 1])
        BY <3>2
      <4> QED
        BY <2>1, <4>1 DEF Flattens
    <3> QED
      BY <3>1, <3>2
  <2>3. Flattens(g, ss, m + 1)
    <3>1. g = [i \in 1..m + 1 |-> g[i]]
      OBVIOUS
    <3> HIDE DEF g
    <3> QED BY <2>2, <3>1 DEF Flattens
  <2> HIDE DEF g
  <2>4. \E h : Flattens(h, ss, m + 1)
    BY <2>3
  <2> QED BY <2>4
<1>3. \A m \in Nat : m \in S => m + 1 \in S
  BY <1>2
<1> HIDE DEF S
<1>4. Nat \subseteq S
  BY <1>1, <1>3, Induction
<1> QED
  BY <1>4 DEF S

\* What is closed under concatenation contains the concatenation of any number
\* of its elements.
LEMMA FlattenClosed ==
  ASSUME NEW C, <<>> \in C, \A s, t \in C : s \o t \in C, NEW ss \in Seq(C)
  PROVE  FlattenSeq(ss) \in C
<1>0. Len(ss) \in Nat /\ \A i \in 1..Len(ss) : ss[i] \in C
  OBVIOUS
<1>1. CASE Len(ss) = 0
  <2>1. ss = <<>>
    BY <1>1
  <2> QED
    BY <1>1, <2>1 DEF FlattenSeq
<1>2. CASE Len(ss) # 0
  <2> DEFINE fl[i \in 1..Len(ss)] == IF i = 1 THEN ss[i] ELSE fl[i - 1] \o ss[i]
  <2>1. Flattens(fl, ss, Len(ss))
    <3>1. \E f : Flattens(f, ss, Len(ss))
      BY <1>0, FlattenExists
    <3> QED
      BY <3>1 DEF Flattens
  <2>2. FlattenSeq(ss) = fl[Len(ss)]
    BY <1>2 DEF FlattenSeq
  <2> HIDE DEF fl
  <2> DEFINE S == {m \in Nat : m + 1 \in 1..Len(ss) => fl[m + 1] \in C}
  <2>3. 0 \in S
    BY <1>0, <2>1 DEF Flattens
  <2>4. ASSUME NEW m \in Nat, m \in S
        PROVE  m + 1 \in S
    <3>1. SUFFICES ASSUME m + 2 \in 1..Len(ss)
                   PROVE  fl[m + 2] \in C
      OBVIOUS
    <3>2. fl[m + 1] \in C
      BY <1>0, <2>4, <3>1
    <3>3. fl[m + 2] = fl[m + 1] \o ss[m + 2]
      <4>1. \A k \in 1..Len(ss) : k # 1 => fl[k] = fl[k - 1] \o ss[k]
        BY <2>1 DEF Flattens
      <4>2. m + 2 # 1 /\ (m + 2) - 1 = m + 1
        OBVIOUS
      <4> QED
        BY <3>1, <4>1, <4>2
    <3> QED
      BY <1>0, <3>1, <3>2, <3>3
  <2>5. \A m \in Nat : m \in S => m + 1 \in S
    BY <2>4
  <2> HIDE DEF S
  <2>6. Len(ss) - 1 \in S
    BY <1>0, <1>2, <2>3, <2>5, Induction
  <2> QED
    BY <1>0, <1>2, <2>2, <2>6 DEF S
<1> QED BY <1>1, <1>2

\* The next operation on a lock in a concatenation: that of the first part, or
\* of the second one if the first has none left.
LEMMA NextOnConcat ==
  ASSUME NEW s \in Seq(CodeStep), NEW t \in Seq(CodeStep), NEW n \in 1..Len(s) + 1, NEW l, NEW op
  PROVE  NextOn(s \o t, n, l, op) <=>
           \/ NextOn(s, n, l, op)
           \/ NextOn(t, 1, l, op) /\ \A j \in n..Len(s) : s[j] \notin LockOperation \X {l}
<1> DEFINE w == s \o t
<1>0. /\ Len(s) \in Nat /\ Len(t) \in Nat /\ Len(w) = Len(s) + Len(t)
      /\ \A i \in 1..Len(s) : w[i] = s[i]
      /\ \A i \in 1..Len(t) : w[i + Len(s)] = t[i]
  OBVIOUS
<1> HIDE DEF w
<1>1. ASSUME NextOn(s, n, l, op)
      PROVE  NextOn(w, n, l, op)
  <2>1. PICK i \in n..Len(s) : s[i] = <<op, l>> /\ \A j \in n..(i - 1) : s[j] \notin LockOperation \X {l}
    BY <1>1 DEF NextOn
  <2>2. i \in n..Len(w) /\ i \in 1..Len(s)
    BY <1>0
  <2>3. \A j \in n..(i - 1) : j \in 1..Len(s)
    BY <1>0
  <2>4. w[i] = s[i] /\ \A j \in n..(i - 1) : w[j] = s[j]
    BY <1>0, <2>2, <2>3
  <2> QED
    BY <2>1, <2>2, <2>4 DEF NextOn
<1>2. ASSUME NextOn(t, 1, l, op), \A j \in n..Len(s) : s[j] \notin LockOperation \X {l}
      PROVE  NextOn(w, n, l, op)
  <2>1. PICK i \in 1..Len(t) : t[i] = <<op, l>> /\ \A j \in 1..(i - 1) : t[j] \notin LockOperation \X {l}
    BY <1>2 DEF NextOn
  <2>2. i + Len(s) \in n..Len(w) /\ w[i + Len(s)] = <<op, l>>
    BY <1>0, <2>1
  <2>3. ASSUME NEW j \in n..(i + Len(s) - 1)
        PROVE  w[j] \notin LockOperation \X {l}
    <3>1. CASE j \in n..Len(s)
      BY <1>0, <1>2, <3>1
    <3>2. CASE j \notin n..Len(s)
      <4>1. j - Len(s) \in 1..(i - 1) /\ j - Len(s) \in 1..Len(t) /\ (j - Len(s)) + Len(s) = j
        BY <1>0, <3>2
      <4>2. w[j] = t[j - Len(s)]
        BY <1>0, <4>1
      <4> QED
        BY <2>1, <4>1, <4>2
    <3> QED
      BY <3>1, <3>2
  <2> QED
    BY <2>2, <2>3 DEF NextOn
<1>3. ASSUME NextOn(w, n, l, op), ~NextOn(s, n, l, op)
      PROVE  NextOn(t, 1, l, op) /\ \A j \in n..Len(s) : s[j] \notin LockOperation \X {l}
  <2>1. PICK i \in n..Len(w) : w[i] = <<op, l>> /\ \A j \in n..(i - 1) : w[j] \notin LockOperation \X {l}
    BY <1>3 DEF NextOn
  <2>2. i > Len(s)
    <3> SUFFICES ASSUME i <= Len(s) PROVE NextOn(s, n, l, op)
      BY <1>0, <1>3
    <3>1. i \in n..Len(s) /\ i \in 1..Len(s)
      BY <1>0
    <3>2. \A j \in n..(i - 1) : j \in 1..Len(s)
      BY <1>0
    <3>3. s[i] = w[i] /\ \A j \in n..(i - 1) : s[j] = w[j]
      BY <1>0, <3>1, <3>2
    <3> QED
      BY <2>1, <3>1, <3>3 DEF NextOn
  <2>3. \A j \in n..Len(s) : s[j] \notin LockOperation \X {l}
    <3>1. \A j \in n..Len(s) : j \in n..(i - 1) /\ w[j] = s[j]
      BY <1>0, <2>2
    <3> QED
      BY <2>1, <3>1
  <2>4. i - Len(s) \in 1..Len(t) /\ (i - Len(s)) + Len(s) = i
    BY <1>0, <2>1, <2>2
  <2>5. t[i - Len(s)] = <<op, l>>
    BY <1>0, <2>1, <2>4
  <2>6. ASSUME NEW j \in 1..(i - Len(s) - 1)
        PROVE  t[j] \notin LockOperation \X {l}
    <3>1. j + Len(s) \in n..(i - 1) /\ j \in 1..Len(t)
      BY <1>0, <2>4
    <3>2. w[j + Len(s)] = t[j]
      BY <1>0, <3>1
    <3> QED
      BY <2>1, <3>1, <3>2
  <2>7. NextOn(t, 1, l, op)
    BY <2>4, <2>5, <2>6 DEF NextOn
  <2> QED
    BY <2>3, <2>7
<1> QED
  BY <1>1, <1>2, <1>3 DEF w

\* Inside the second part of a concatenation the first one does not matter.
LEMMA NextOnRight ==
  ASSUME NEW s \in Seq(CodeStep), NEW t \in Seq(CodeStep), NEW n \in 1..Len(t) + 1, NEW l, NEW op
  PROVE  NextOn(s \o t, n + Len(s), l, op) <=> NextOn(t, n, l, op)
<1> DEFINE w == s \o t
<1>0. /\ Len(s) \in Nat /\ Len(t) \in Nat /\ Len(w) = Len(s) + Len(t)
      /\ \A i \in 1..Len(t) : w[i + Len(s)] = t[i]
  OBVIOUS
<1> HIDE DEF w
<1>1. ASSUME NextOn(t, n, l, op)
      PROVE  NextOn(w, n + Len(s), l, op)
  <2>1. PICK i \in n..Len(t) : t[i] = <<op, l>> /\ \A j \in n..(i - 1) : t[j] \notin LockOperation \X {l}
    BY <1>1 DEF NextOn
  <2>2. i + Len(s) \in (n + Len(s))..Len(w) /\ w[i + Len(s)] = <<op, l>>
    BY <1>0, <2>1
  <2>3. ASSUME NEW j \in (n + Len(s))..(i + Len(s) - 1)
        PROVE  w[j] \notin LockOperation \X {l}
    <3>1. j - Len(s) \in n..(i - 1) /\ j - Len(s) \in 1..Len(t) /\ (j - Len(s)) + Len(s) = j
      BY <1>0
    <3>2. w[j] = t[j - Len(s)]
      BY <1>0, <3>1
    <3> QED
      BY <2>1, <3>1, <3>2
  <2> QED
    BY <2>2, <2>3, SMTT(30) DEF NextOn
<1>2. ASSUME NextOn(w, n + Len(s), l, op)
      PROVE  NextOn(t, n, l, op)
  <2>1. PICK i \in (n + Len(s))..Len(w) :
          w[i] = <<op, l>> /\ \A j \in (n + Len(s))..(i - 1) : w[j] \notin LockOperation \X {l}
    BY <1>2 DEF NextOn
  <2>2. i - Len(s) \in n..Len(t) /\ i - Len(s) \in 1..Len(t) /\ (i - Len(s)) + Len(s) = i
    BY <1>0, <2>1
  <2>3. t[i - Len(s)] = <<op, l>>
    BY <1>0, <2>1, <2>2
  <2>4. ASSUME NEW j \in n..(i - Len(s) - 1)
        PROVE  t[j] \notin LockOperation \X {l}
    <3>1. j + Len(s) \in (n + Len(s))..(i - 1) /\ j \in 1..Len(t)
      BY <1>0, <2>2
    <3>2. w[j + Len(s)] = t[j]
      BY <1>0, <3>1
    <3> QED
      BY <2>1, <3>1, <3>2
  <2> QED
    BY <2>2, <2>3, <2>4 DEF NextOn
<1> QED
  BY <1>1, <1>2 DEF w

-----------------------------------------------------------------------------
(* Kinds of codes. *)

\* Every lock s takes or releases is one of K.
Touches(s, K) == \A n \in 1..Len(s), op \in LockOperation, l \in Lock : s[n] = <<op, l>> => l \in K

\* What s does with the maps: it guards them itself (free), does not change
\* them (shared), or may do anything (alone).
Keeps(s, mode) ==
  \A m \in Maps :
    \/ mode = "free" /\ Guarded(s, m, Server)
    \/ mode = "shared" /\ \A n \in 1..Len(s) : s[n] # <<"write", m>>
    \/ mode = "alone"

Mode == {"free", "shared", "alone"}

\* The balanced codes about the locks K, taken in the order of Level if that
\* is asked for, to be run under the locks that mode says.
Code(K, mode, ordered) ==
  {s \in Seq(CodeStep) : Balanced(s) /\ Touches(s, K) /\ (ordered => Ordered(s)) /\ Keeps(s, mode)}

\* To do nothing is a code of any kind.
LEMMA EmptyCode ==
  ASSUME NEW K, NEW mode \in Mode, NEW ordered \in BOOLEAN
  PROVE  <<>> \in Code(K, mode, ordered)
<1>1. <<>> \in Seq(CodeStep) /\ Len(<<>>) = 0
  OBVIOUS
<1>2. \A n, l, op : ~NextOn(<<>>, 1, l, op)
  BY NothingLeft
<1>3. Balanced(<<>>)
  BY <1>1, <1>2 DEF Balanced, Paired, HoldsAt
<1>4. Touches(<<>>, K) /\ Ordered(<<>>) /\ Keeps(<<>>, mode)
  BY <1>1 DEF Touches, Ordered, Keeps, Guarded, Mode
<1> QED
  BY <1>1, <1>3, <1>4 DEF Code

\* A step which is not about a lock.
LEMMA PlainCode ==
  ASSUME NEW K, NEW mode \in Mode, NEW ordered \in BOOLEAN,
         NEW op \in {"read", "write", "send"}, NEW x, <<op, x>> \in CodeStep,
         \/ op = "send" \/ x \notin Maps
         \/ op = "read" /\ mode # "free"
         \/ mode = "alone"
  PROVE  <<<<op, x>>>> \in Code(K, mode, ordered)
<1> DEFINE s == <<<<op, x>>>>
<1>1. s \in Seq(CodeStep) /\ Len(s) = 1 /\ s[1] = <<op, x>>
  OBVIOUS
<1>2. \A n \in 1..Len(s) : \A oq \in LockOperation : \A l : s[n] # <<oq, l>>
  BY <1>1 DEF LockOperation
<1> HIDE DEF s
<1>3. \A oq \in LockOperation : \A l : ~NextOn(s, 1, l, oq)
  BY <1>2 DEF NextOn
<1>4. Balanced(s)
  <2>1. \A l : ~HoldsAt(s, 1, l)
    BY <1>3 DEF HoldsAt, LockOperation
  <2>2. Paired(s)
    BY <1>2 DEF Paired, LockOperation
  <2> QED
    BY <2>1, <2>2 DEF Balanced
<1>5. Touches(s, K) /\ Ordered(s)
  BY <1>2 DEF Touches, Ordered, LockOperation
<1>6. Keeps(s, mode)
  BY <1>1 DEF Keeps, Guarded, Mode
<1> QED
  BY <1>1, <1>4, <1>5, <1>6 DEF Code, s

\* What is left to release at a position of a concatenation.
LEMMA HoldsConcat ==
  ASSUME NEW s \in Seq(CodeStep), NEW t \in Seq(CodeStep), Balanced(t), NEW l \in Lock
  PROVE  \A n \in 1..Len(s) + 1 :
            /\ NextOn(s \o t, n, l, "RUnlock") <=> NextOn(s, n, l, "RUnlock")
            /\ NextOn(s \o t, n, l, "Unlock") <=> NextOn(s, n, l, "Unlock")
            /\ HoldsAt(s \o t, n, l) <=> HoldsAt(s, n, l)
<1>1. ~NextOn(t, 1, l, "RUnlock") /\ ~NextOn(t, 1, l, "Unlock")
  BY DEF Balanced, HoldsAt
<1> QED
  BY <1>1, NextOnConcat DEF HoldsAt

\* Inside the second part what is left to release is what it has left.
LEMMA HoldsRight ==
  ASSUME NEW s \in Seq(CodeStep), NEW t \in Seq(CodeStep), NEW l \in Lock
  PROVE  \A n \in 1..Len(t) + 1 :
            /\ NextOn(s \o t, n + Len(s), l, "RUnlock") <=> NextOn(t, n, l, "RUnlock")
            /\ NextOn(s \o t, n + Len(s), l, "Unlock") <=> NextOn(t, n, l, "Unlock")
            /\ HoldsAt(s \o t, n + Len(s), l) <=> HoldsAt(t, n, l)
  BY NextOnRight DEF HoldsAt

\* A code after a code of the same kind is one.
LEMMA ConcatCode ==
  ASSUME NEW K, NEW mode, NEW ordered,
         NEW s \in Code(K, mode, ordered), NEW t \in Code(K, mode, ordered)
  PROVE  s \o t \in Code(K, mode, ordered)
<1> DEFINE w == s \o t
<1>1. /\ s \in Seq(CodeStep) /\ Balanced(s) /\ Paired(s) /\ Touches(s, K)
      /\ (ordered => Ordered(s)) /\ Keeps(s, mode)
      /\ t \in Seq(CodeStep) /\ Balanced(t) /\ Paired(t) /\ Touches(t, K)
      /\ (ordered => Ordered(t)) /\ Keeps(t, mode)
  BY DEF Code, Balanced
<1>2. w \in Seq(CodeStep) /\ Len(s) \in Nat /\ Len(t) \in Nat /\ Len(w) = Len(s) + Len(t)
  BY <1>1
<1>3. ASSUME NEW n \in 1..Len(w)
      PROVE  \/ n \in 1..Len(s) /\ n + 1 \in 1..Len(s) + 1 /\ w[n] = s[n]
             \/ \E i \in 1..Len(t) : /\ n = i + Len(s) /\ n + 1 = (i + 1) + Len(s)
                                     /\ i + 1 \in 1..Len(t) + 1 /\ w[n] = t[i]
  <2>1. CASE n \in 1..Len(s)
    BY <1>1, <2>1
  <2>2. CASE n \notin 1..Len(s)
    <3> DEFINE i == n - Len(s)
    <3>1. i \in 1..Len(t) /\ n = i + Len(s) /\ n + 1 = (i + 1) + Len(s) /\ i + 1 \in 1..Len(t) + 1
      BY <1>2, <2>2
    <3>2. w[n] = t[i]
      BY <1>1, <1>2, <2>2
    <3> QED
      BY <3>1, <3>2
  <2> QED
    BY <2>1, <2>2
<1>4. \A l \in Lock : \A n \in 1..Len(s) + 1 :
        /\ NextOn(w, n, l, "RUnlock") <=> NextOn(s, n, l, "RUnlock")
        /\ NextOn(w, n, l, "Unlock") <=> NextOn(s, n, l, "Unlock")
        /\ HoldsAt(w, n, l) <=> HoldsAt(s, n, l)
  BY <1>1, HoldsConcat
<1>5. \A l \in Lock : \A n \in 1..Len(t) + 1 :
        /\ NextOn(w, n + Len(s), l, "RUnlock") <=> NextOn(t, n, l, "RUnlock")
        /\ NextOn(w, n + Len(s), l, "Unlock") <=> NextOn(t, n, l, "Unlock")
        /\ HoldsAt(w, n + Len(s), l) <=> HoldsAt(t, n, l)
  BY <1>1, HoldsRight
<1> HIDE DEF w
<1>6. Paired(w)
  <2> SUFFICES ASSUME NEW n \in 1..Len(w), NEW l \in Lock
               PROVE  /\ w[n] = <<"RLock", l>> => NextOn(w, n + 1, l, "RUnlock")
                      /\ w[n] = <<"Lock", l>> => NextOn(w, n + 1, l, "Unlock")
                      /\ w[n] \in {"RUnlock", "Unlock"} \X {l} => ~HoldsAt(w, n + 1, l)
    BY DEF Paired
  <2>1. CASE n \in 1..Len(s) /\ n + 1 \in 1..Len(s) + 1 /\ w[n] = s[n]
    BY <1>1, <1>4, <2>1 DEF Paired
  <2>2. CASE \E i \in 1..Len(t) : /\ n = i + Len(s) /\ n + 1 = (i + 1) + Len(s)
                                  /\ i + 1 \in 1..Len(t) + 1 /\ w[n] = t[i]
    <3>1. PICK i \in 1..Len(t) : /\ n = i + Len(s) /\ n + 1 = (i + 1) + Len(s)
                                 /\ i + 1 \in 1..Len(t) + 1 /\ w[n] = t[i]
      BY <2>2
    <3>2. /\ t[i] = <<"RLock", l>> => NextOn(t, i + 1, l, "RUnlock")
          /\ t[i] = <<"Lock", l>> => NextOn(t, i + 1, l, "Unlock")
          /\ t[i] \in {"RUnlock", "Unlock"} \X {l} => ~HoldsAt(t, i + 1, l)
      BY <1>1 DEF Paired
    <3> QED
      BY <1>5, <3>1, <3>2
  <2> QED
    BY <1>3, <2>1, <2>2
<1>7. Balanced(w)
  <2>1. 1 \in 1..Len(s) + 1
    BY <1>2
  <2> QED
    BY <1>1, <1>4, <1>6, <2>1 DEF Balanced
<1>8. Touches(w, K)
  BY <1>1, <1>3, ZenonT(30) DEF Touches
<1>9. ASSUME ordered PROVE Ordered(w)
  <2> SUFFICES ASSUME NEW n \in 1..Len(w), NEW k \in Lock, NEW l \in Lock,
                      w[n] \in {"RLock", "Lock"} \X {l}, HoldsAt(w, n, k)
               PROVE  Level[k] > Level[l]
    BY DEF Ordered
  <2>1. CASE n \in 1..Len(s) /\ n + 1 \in 1..Len(s) + 1 /\ w[n] = s[n]
    <3>1. n \in 1..Len(s) + 1
      BY <1>2, <2>1
    <3> QED
      BY <1>1, <1>4, <1>9, <2>1, <3>1 DEF Ordered
  <2>2. CASE \E i \in 1..Len(t) : /\ n = i + Len(s) /\ n + 1 = (i + 1) + Len(s)
                                  /\ i + 1 \in 1..Len(t) + 1 /\ w[n] = t[i]
    <3>1. PICK i \in 1..Len(t) : n = i + Len(s) /\ w[n] = t[i]
      BY <2>2
    <3>2. i \in 1..Len(t) + 1
      BY <1>2
    <3>3. HoldsAt(t, i, k) /\ t[i] \in {"RLock", "Lock"} \X {l}
      BY <1>5, <3>1, <3>2
    <3> QED
      BY <1>1, <1>9, <3>3 DEF Ordered
  <2> QED
    BY <1>3, <2>1, <2>2
<1>10. Keeps(w, mode)
  <2> SUFFICES ASSUME NEW m \in Maps
               PROVE  \/ mode = "free" /\ Guarded(w, m, Server)
                      \/ mode = "shared" /\ \A n \in 1..Len(w) : w[n] # <<"write", m>>
                      \/ mode = "alone"
    BY DEF Keeps
  <2>1. CASE mode = "free"
    <3>1. Guarded(s, m, Server) /\ Guarded(t, m, Server) /\ Server \in Lock
      BY <1>1, <2>1, LocksAssumption DEF Keeps
    <3> SUFFICES ASSUME NEW n \in 1..Len(w)
                 PROVE  /\ w[n] = <<"read", m>> => HoldsAt(w, n, Server)
                        /\ w[n] = <<"write", m>> => NextOn(w, n, Server, "Unlock")
      BY <2>1 DEF Guarded
    <3>2. CASE n \in 1..Len(s) /\ n + 1 \in 1..Len(s) + 1 /\ w[n] = s[n]
      <4>1. n \in 1..Len(s) + 1
        BY <1>2, <3>2
      <4> QED
        BY <1>4, <3>1, <3>2, <4>1 DEF Guarded
    <3>3. CASE \E i \in 1..Len(t) : /\ n = i + Len(s) /\ n + 1 = (i + 1) + Len(s)
                                    /\ i + 1 \in 1..Len(t) + 1 /\ w[n] = t[i]
      <4>1. PICK i \in 1..Len(t) : n = i + Len(s) /\ w[n] = t[i]
        BY <3>3
      <4>2. i \in 1..Len(t) + 1
        BY <1>2
      <4>3. /\ t[i] = <<"read", m>> => HoldsAt(t, i, Server)
            /\ t[i] = <<"write", m>> => NextOn(t, i, Server, "Unlock")
        BY <3>1 DEF Guarded
      <4> QED
        BY <1>5, <3>1, <4>1, <4>2, <4>3
    <3> QED
      BY <1>3, <3>2, <3>3
  <2>2. CASE mode # "free"
    BY <1>1, <1>3, <2>2, ZenonT(30) DEF Keeps
  <2> QED
    BY <2>1, <2>2
<1> QED
  BY <1>2, <1>7, <1>8, <1>9, <1>10 DEF Code, w

\* The positions of a critical section around s.
Shape(w, s, a, z) ==
  /\ w \in Seq(CodeStep) /\ w # <<>>
  /\ Len(s) \in Nat /\ Len(w) = Len(s) + 2
  /\ w[1] = a /\ w[Len(s) + 2] = z
  /\ \A n \in 1..Len(s) : n + 1 \in 1..Len(w) /\ w[n + 1] = s[n]
  /\ \A n \in 1..Len(w) : n = 1 \/ n = Len(s) + 2 \/ \E i \in 1..Len(s) : n = i + 1
  /\ w = <<a>> \o (s \o <<z>>)

\* Every critical section has them.
LEMMA SectionShape ==
  ASSUME NEW s \in Seq(CodeStep), NEW a \in CodeStep, NEW z \in CodeStep,
         NEW w, w = <<a>> \o s \o <<z>>
  PROVE  Shape(w, s, a, z)
<1>1. <<a>> \in Seq(CodeStep) /\ <<z>> \in Seq(CodeStep)
  OBVIOUS
<1>2. w = <<a>> \o (s \o <<z>>)
  BY <1>1, ConcatAssociative
<1>3. /\ w \in Seq(CodeStep) /\ w # <<>> /\ Len(s) \in Nat /\ Len(w) = Len(s) + 2
      /\ w[1] = a /\ w[Len(s) + 2] = z
      /\ \A n \in 1..Len(s) : n + 1 \in 1..Len(w) /\ w[n + 1] = s[n]
  BY <1>1
<1>4. ASSUME NEW n \in 1..Len(w), n # 1, n # Len(s) + 2
      PROVE  \E i \in 1..Len(s) : n = i + 1
  <2>1. n - 1 \in 1..Len(s) /\ n = (n - 1) + 1
    BY <1>3, <1>4
  <2> QED
    BY <2>1
<1> QED
  BY <1>2, <1>3, <1>4 DEF Shape

\* The two ways to lock and to unlock.
Pairs == {<<"RLock", "RUnlock">>, <<"Lock", "Unlock">>}

\* What w, the body s between two operations on l, has left to release.
Section(w, s, l, release) ==
  /\ \A n \in 1..Len(s) + 1 :
       /\ \A op \in LockOperation : NextOn(w, n + 1, l, op) <=> op = release
       /\ \A k \in Lock \ {l}, op \in LockOperation : NextOn(w, n + 1, k, op) <=> NextOn(s, n, k, op)
  /\ \A k \in Lock : ~HoldsAt(w, Len(w) + 1, k)
  /\ \A k \in Lock : ~HoldsAt(w, 1, k)

\* Inside a critical section its lock is what is left to release, and
\* otherwise what the body has left.
LEMMA SectionHolds ==
  ASSUME NEW K, NEW s \in Seq(CodeStep), Balanced(s), Touches(s, K),
         NEW l \in Lock, l \notin K, NEW pair \in Pairs,
         NEW w, w = <<<<pair[1], l>>>> \o s \o <<<<pair[2], l>>>>
  PROVE  Section(w, s, l, pair[2])
<1> DEFINE a == <<pair[1], l>>
           z == <<pair[2], l>>
           v == s \o <<z>>
<1>0. pair[1] \in LockOperation /\ pair[2] \in LockOperation /\ pair[1] \notin {"RUnlock", "Unlock"}
  BY DEF Pairs, LockOperation
<1>1. a \in CodeStep /\ z \in CodeStep /\ <<a>> \in Seq(CodeStep) /\ <<z>> \in Seq(CodeStep)
  BY <1>0 DEF CodeStep
<1>2. /\ w \in Seq(CodeStep) /\ w # <<>> /\ Len(s) \in Nat /\ Len(w) = Len(s) + 2 /\ w[1] = a
      /\ w = <<a>> \o v /\ v \in Seq(CodeStep) /\ Len(v) = Len(s) + 1
  <2>1. v \in Seq(CodeStep) /\ Len(v) = Len(s) + 1
    BY <1>1
  <2>2. w = <<a>> \o s \o <<z>>
    OBVIOUS
  <2>3. /\ w \in Seq(CodeStep) /\ w # <<>> /\ Len(s) \in Nat /\ Len(w) = Len(s) + 2 /\ w[1] = a
        /\ w = <<a>> \o v
    <3>1. Shape(w, s, a, z)
      <4> HIDE DEF a, z
      <4> QED
        BY <1>1, <2>2, SectionShape
    <3> QED
      BY <3>1 DEF Shape
  <2> HIDE DEF a, v
  <2> QED
    BY <2>1, <2>3
<1>3. \A j \in 1..Len(s) : s[j] \notin LockOperation \X {l}
  <2> SUFFICES ASSUME NEW j \in 1..Len(s), s[j] \in LockOperation \X {l}
               PROVE  FALSE
    OBVIOUS
  <2>1. PICK op \in LockOperation : s[j] = <<op, l>>
    OBVIOUS
  <2> QED
    BY <2>1 DEF Touches
<1>4. /\ NextOn(<<z>>, 1, l, pair[2])
      /\ \A k \in Lock \ {l}, op \in LockOperation : ~NextOn(<<z>>, 1, k, op)
  <2>1. Len(<<z>>) = 1 /\ <<z>>[1] = z /\ 1 \in 1..1 /\ 1..(1 - 1) = {} /\ \A i \in 1..1 : i = 1
    OBVIOUS
  <2> QED
    BY <2>1 DEF NextOn
<1>5. ASSUME NEW n \in 1..Len(s) + 1, NEW k \in Lock, NEW op \in LockOperation
      PROVE  NextOn(w, n + 1, k, op) <=> NextOn(v, n, k, op)
  <2>1. n \in 1..Len(v) + 1 /\ Len(<<a>>) = 1
    BY <1>2
  <2> HIDE DEF v, a
  <2> QED
    BY <1>1, <1>2, <2>1, NextOnRight
<1>6. ASSUME NEW n \in 1..Len(s) + 1
      PROVE  NextOn(w, n + 1, l, pair[2])
  <2>1. \A j \in n..Len(s) : s[j] \notin LockOperation \X {l}
    <3>1. \A j \in n..Len(s) : j \in 1..Len(s)
      BY <1>2
    <3> QED
      BY <1>3, <3>1
  <2>2. NextOn(v, n, l, pair[2])
    <3> DEFINE last == <<z>>
    <3>1. last \in Seq(CodeStep) /\ NextOn(last, 1, l, pair[2]) /\ v = s \o last
      BY <1>1, <1>4
    <3> HIDE DEF last, v, z
    <3> QED
      BY <2>1, <3>1, NextOnConcat
  <2> QED
    BY <1>0, <1>5, <2>2
<1>7. ASSUME NEW n \in 1..Len(s) + 1, NEW op \in LockOperation, NextOn(w, n + 1, l, op)
      PROVE  op = pair[2]
  <2>1. n + 1 \in Nat
    BY <1>2
  <2> QED
    BY <1>0, <1>2, <1>6, <1>7, <2>1, OneNext
<1>8. ASSUME NEW n \in 1..Len(s) + 1, NEW k \in Lock \ {l}, NEW op \in LockOperation
      PROVE  NextOn(w, n + 1, k, op) <=> NextOn(s, n, k, op)
  <2>1. NextOn(v, n, k, op) <=> NextOn(s, n, k, op)
    <3> HIDE DEF z
    <3> QED
      BY <1>1, <1>4, NextOnConcat
  <2> QED
    BY <1>5, <2>1
<1>9. ASSUME NEW k \in Lock
      PROVE  ~HoldsAt(w, Len(w) + 1, k)
  <2>1. (Len(w) + 1)..Len(w) = {}
    BY <1>2
  <2> QED
    BY <2>1 DEF HoldsAt, NextOn
<1>10. ASSUME NEW k \in Lock
       PROVE  ~HoldsAt(w, 1, k)
  <2>1. 1 \in 1..Len(w) /\ 1 \in 1..Len(s) + 1 /\ 1 \in Nat
    BY <1>2
  <2>2. CASE k = l
    <3>1. NextOn(w, 1, l, pair[1])
      BY <1>0, <1>2, <2>1, HeadOn
    <3> QED
      BY <1>0, <1>2, <2>1, <2>2, <3>1, OneNext DEF HoldsAt, LockOperation
  <2>3. CASE k # l
    <3>1. w[1] \notin LockOperation \X {k}
      BY <1>2, <2>3
    <3>2. \A op \in LockOperation : NextOn(w, 1, k, op) <=> NextOn(w, 1 + 1, k, op)
      BY <1>2, <2>1, <3>1, HeadOff
    <3>3. \A op \in LockOperation : NextOn(w, 1 + 1, k, op) <=> NextOn(s, 1, k, op)
      BY <1>8, <2>1, <2>3
    <3> QED
      BY <3>2, <3>3 DEF HoldsAt, LockOperation, Balanced
  <2> QED
    BY <2>2, <2>3
<1> QED
  BY <1>6, <1>7, <1>8, <1>9, <1>10 DEF Section

\* A body under a lock.  The server's mutex lets a code that uses its maps in
\* the mode it is taken in be one which uses them under it.
LEMMA SectionCode ==
  ASSUME NEW K, NEW inner \in Mode, NEW mode \in Mode, NEW ordered \in BOOLEAN,
         NEW s \in Code(K, inner, ordered), NEW l \in Lock, l \notin K, NEW pair \in Pairs,
         ordered => \A k \in Lock : k \in K => Level[l] > Level[k],
         \/ l # Server /\ inner = mode
         \/ l = Server /\ mode = "free" /\ inner = "shared"
         \/ l = Server /\ mode = "free" /\ inner = "alone" /\ pair[1] = "Lock"
  PROVE  <<<<pair[1], l>>>> \o s \o <<<<pair[2], l>>>> \in Code(K \cup {l}, mode, ordered)
<1> DEFINE a == <<pair[1], l>>
           z == <<pair[2], l>>
           w == <<a>> \o s \o <<z>>
<1>0. /\ pair = <<"RLock", "RUnlock">> \/ pair = <<"Lock", "Unlock">>
      /\ pair[1] \in LockOperation /\ pair[2] \in LockOperation
  BY DEF Pairs, LockOperation
<1>1. a \in CodeStep /\ z \in CodeStep
  BY <1>0 DEF CodeStep
<1>2. /\ s \in Seq(CodeStep) /\ Balanced(s) /\ Paired(s) /\ Touches(s, K)
      /\ (ordered => Ordered(s)) /\ Keeps(s, inner)
  BY DEF Code, Balanced
<1>3. /\ w \in Seq(CodeStep) /\ Len(s) \in Nat /\ Len(w) = Len(s) + 2
      /\ w[1] = a /\ w[Len(s) + 2] = z
      /\ \A n \in 1..Len(s) : n + 1 \in 1..Len(w) /\ w[n + 1] = s[n]
      /\ \A n \in 1..Len(w) : n = 1 \/ n = Len(s) + 2 \/ \E i \in 1..Len(s) : n = i + 1
  <2>1. Shape(w, s, a, z)
    BY <1>1, <1>2, SectionShape
  <2> QED
    BY <2>1 DEF Shape
<1>14. w = <<<<pair[1], l>>>> \o s \o <<<<pair[2], l>>>>
  OBVIOUS
<1> HIDE DEF w
<1>4. /\ \A n \in 1..Len(s) + 1 :
           /\ \A op \in LockOperation : NextOn(w, n + 1, l, op) <=> op = pair[2]
           /\ \A k \in Lock \ {l}, op \in LockOperation : NextOn(w, n + 1, k, op) <=> NextOn(s, n, k, op)
      /\ \A k \in Lock : ~HoldsAt(w, Len(w) + 1, k)
      /\ \A k \in Lock : ~HoldsAt(w, 1, k)
  <2>1. s \in Seq(CodeStep) /\ Balanced(s) /\ Touches(s, K)
    BY <1>2
  <2> HIDE DEF a, z
  <2>2. Section(w, s, l, pair[2])
    BY <2>1, <1>14, SectionHolds
  <2> QED
    BY <2>2 DEF Section
<1>5. \A n \in 1..Len(s) : n \in 1..Len(s) + 1 /\ n + 1 \in 1..Len(s) + 1
  BY <1>3
<1>6. \A n \in 1..Len(s) : \A op \in LockOperation : s[n] # <<op, l>>
  BY <1>2 DEF Touches
<1>7. /\ \A n \in 1..Len(s) + 1 : \A k \in Lock \ {l} : HoldsAt(w, n + 1, k) <=> HoldsAt(s, n, k)
      /\ \A n \in 1..Len(s) + 1 : HoldsAt(w, n + 1, l)
  BY <1>0, <1>4 DEF HoldsAt, LockOperation
<1>8. Paired(w)
  <2> SUFFICES ASSUME NEW n \in 1..Len(w), NEW k \in Lock
               PROVE  /\ w[n] = <<"RLock", k>> => NextOn(w, n + 1, k, "RUnlock")
                      /\ w[n] = <<"Lock", k>> => NextOn(w, n + 1, k, "Unlock")
                      /\ w[n] \in {"RUnlock", "Unlock"} \X {k} => ~HoldsAt(w, n + 1, k)
    BY DEF Paired
  <2>1. CASE n = 1
    <3>1. 1 \in 1..Len(s) + 1
      BY <1>3
    <3> QED
      BY <1>0, <1>3, <1>4, <2>1, <3>1
  <2>2. CASE n = Len(s) + 2
    BY <1>0, <1>3, <1>4, <2>2
  <2>3. CASE \E i \in 1..Len(s) : n = i + 1
    <3>1. PICK i \in 1..Len(s) : n = i + 1
      BY <2>3
    <3>2. w[n] = s[i] /\ i + 1 \in 1..Len(s) + 1
      BY <1>3, <1>5, <3>1
    <3>3. CASE k = l
      <4>1. \A op \in LockOperation : w[n] # <<op, k>>
        BY <1>6, <3>2, <3>3
      <4> QED
        BY <4>1 DEF LockOperation
    <3>4. CASE k # l
      <4>1. /\ s[i] = <<"RLock", k>> => NextOn(s, i + 1, k, "RUnlock")
            /\ s[i] = <<"Lock", k>> => NextOn(s, i + 1, k, "Unlock")
            /\ s[i] \in {"RUnlock", "Unlock"} \X {k} => ~HoldsAt(s, i + 1, k)
        BY <1>2 DEF Paired
      <4>2. /\ NextOn(w, n + 1, k, "RUnlock") <=> NextOn(s, i + 1, k, "RUnlock")
            /\ NextOn(w, n + 1, k, "Unlock") <=> NextOn(s, i + 1, k, "Unlock")
            /\ HoldsAt(w, n + 1, k) <=> HoldsAt(s, i + 1, k)
        BY <1>4, <1>7, <3>1, <3>2, <3>4 DEF LockOperation
      <4> QED
        BY <3>2, <4>1, <4>2
    <3> QED
      BY <3>3, <3>4
  <2> QED
    BY <1>3, <2>1, <2>2, <2>3
<1>9. Balanced(w)
  BY <1>4, <1>8 DEF Balanced
<1>10. Touches(w, K \cup {l})
  <2> SUFFICES ASSUME NEW n \in 1..Len(w), NEW op \in LockOperation, NEW k \in Lock, w[n] = <<op, k>>
               PROVE  k \in K \cup {l}
    BY DEF Touches
  <2>1. CASE n = 1 \/ n = Len(s) + 2
    BY <1>3, <2>1
  <2>2. CASE \E i \in 1..Len(s) : n = i + 1
    BY <1>2, <1>3, <2>2 DEF Touches
  <2> QED
    BY <1>3, <2>1, <2>2
<1>11. ASSUME ordered PROVE Ordered(w)
  <2> SUFFICES ASSUME NEW n \in 1..Len(w), NEW k \in Lock, NEW m \in Lock,
                      w[n] \in {"RLock", "Lock"} \X {m}, HoldsAt(w, n, k)
               PROVE  Level[k] > Level[m]
    BY DEF Ordered
  <2>1. n # 1
    BY <1>4
  <2>2. n # Len(s) + 2
    BY <1>0, <1>3
  <2>3. PICK i \in 1..Len(s) : n = i + 1
    BY <1>3, <2>1, <2>2
  <2>4. w[n] = s[i] /\ i \in 1..Len(s) + 1
    BY <1>3, <1>5, <2>3
  <2>5. m \in K
    BY <1>2, <2>4 DEF Touches, LockOperation
  <2>6. CASE k = l
    BY <1>11, <2>5, <2>6
  <2>7. CASE k # l
    <3>1. HoldsAt(s, i, k)
      BY <1>7, <2>3, <2>4, <2>7
    <3> QED
      BY <1>2, <1>11, <2>4, <3>1 DEF Ordered
  <2> QED
    BY <2>6, <2>7
<1>12. ASSUME NEW n \in 1..Len(w), NEW op \in {"read", "write"}, NEW x, w[n] = <<op, x>>
       PROVE  \E i \in 1..Len(s) : n = i + 1 /\ i \in 1..Len(s) + 1 /\ s[i] = <<op, x>>
  <2>1. n # 1 /\ n # Len(s) + 2
    BY <1>0, <1>3, <1>12
  <2>2. PICK i \in 1..Len(s) : n = i + 1
    BY <1>3, <2>1
  <2> QED
    BY <1>3, <1>5, <1>12, <2>2
<1>13. Keeps(w, mode)
  <2> SUFFICES ASSUME NEW m \in Maps, mode # "alone"
               PROVE  \/ mode = "free" /\ Guarded(w, m, Server)
                      \/ mode = "shared" /\ \A n \in 1..Len(w) : w[n] # <<"write", m>>
    BY DEF Keeps
  <2>0. Server \in Lock
    BY LocksAssumption
  <2>1. CASE l # Server /\ inner = mode
    <3>1. CASE mode = "free"
      <4>1. Guarded(s, m, Server)
        BY <1>2, <2>1, <3>1 DEF Keeps
      <4> SUFFICES ASSUME NEW n \in 1..Len(w)
                   PROVE  /\ w[n] = <<"read", m>> => HoldsAt(w, n, Server)
                          /\ w[n] = <<"write", m>> => NextOn(w, n, Server, "Unlock")
        BY <3>1 DEF Guarded
      <4>2. w[n] = <<"read", m>> => HoldsAt(w, n, Server)
        BY <1>7, <1>12, <2>0, <2>1, <4>1 DEF Guarded
      <4>3. w[n] = <<"write", m>> => NextOn(w, n, Server, "Unlock")
        BY <1>4, <1>12, <2>0, <2>1, <4>1 DEF Guarded, LockOperation
      <4> QED
        BY <4>2, <4>3
    <3>2. CASE mode = "shared"
      BY <1>2, <1>12, <2>1, <3>2 DEF Keeps
    <3> QED
      BY <3>1, <3>2 DEF Mode
  <2>2. CASE ~(l # Server /\ inner = mode)
    <3>0. /\ l = Server /\ mode = "free"
          /\ inner = "shared" \/ (inner = "alone" /\ pair[1] = "Lock")
      BY <2>2
    <3> SUFFICES ASSUME NEW n \in 1..Len(w)
                 PROVE  /\ w[n] = <<"read", m>> => HoldsAt(w, n, Server)
                        /\ w[n] = <<"write", m>> => NextOn(w, n, Server, "Unlock")
      BY <3>0 DEF Guarded
    <3>1. w[n] = <<"read", m>> => HoldsAt(w, n, Server)
      BY <1>7, <1>12, <3>0
    <3>2. ASSUME w[n] = <<"write", m>>
          PROVE  NextOn(w, n, Server, "Unlock")
      <4>1. PICK i \in 1..Len(s) : n = i + 1 /\ i \in 1..Len(s) + 1 /\ s[i] = <<"write", m>>
        BY <1>12, <3>2
      <4>2. inner = "alone"
        BY <1>2, <3>0, <4>1 DEF Keeps
      <4>3. pair[2] = "Unlock"
        BY <1>0, <3>0, <4>2
      <4> QED
        BY <1>4, <3>0, <4>1, <4>3 DEF LockOperation
    <3> QED
      BY <3>1, <3>2
  <2> QED
    BY <2>1, <2>2
<1> QED
  BY <1>3, <1>9, <1>10, <1>11, <1>13, <1>14 DEF Code

\* A loop over connections whose turns are codes of one kind is a code of that
\* kind.
LEMMA FlattenCode ==
  ASSUME NEW K, NEW mode \in Mode, NEW ordered \in BOOLEAN, NEW o \in Seq(Conn),
         NEW f, f = [i \in DOMAIN o |-> f[i]],
         \A i \in DOMAIN o : f[i] \in Code(K, mode, ordered)
  PROVE  FlattenSeq(f) \in Code(K, mode, ordered)
<1>1. f \in Seq(Code(K, mode, ordered))
  <2>1. Len(o) \in Nat /\ DOMAIN o = 1..Len(o)
    OBVIOUS
  <2> HIDE DEF Code
  <2> QED
    BY <2>1, IsASeq
<1>2. \A s, t \in Code(K, mode, ordered) : s \o t \in Code(K, mode, ordered)
  BY ConcatCode
<1>3. <<>> \in Code(K, mode, ordered)
  BY EmptyCode
<1> HIDE DEF Code
<1> QED
  BY <1>1, <1>2, <1>3, FlattenClosed

\* A code that touches few locks touches no others.
LEMMA Widen ==
  ASSUME NEW K, NEW L, K \subseteq L, NEW mode, NEW ordered
  PROVE  Code(K, mode, ordered) \subseteq Code(L, mode, ordered)
  BY DEF Code, Touches

-----------------------------------------------------------------------------
\* A step about the player, the row or the address of a connection, or a
\* write to its socket, is a code under any locks.
LEMMA ConnectionSteps ==
  ASSUME NEW mode \in Mode, NEW ordered \in BOOLEAN, NEW c \in Conn, NEW K
  PROVE  /\ Read(PlayerOf(c)) \in Code(K, mode, ordered)
         /\ Write(PlayerOf(c)) \in Code(K, mode, ordered)
         /\ Read(RowOf(c)) \in Code(K, mode, ordered)
         /\ Write(RowOf(c)) \in Code(K, mode, ordered)
         /\ Read(UdpOf(c)) \in Code(K, mode, ordered)
         /\ Write(UdpOf(c)) \in Code(K, mode, ordered)
         /\ <<<<"send", c>>>> \in Code(K, mode, ordered)
<1>1. \A x \in {PlayerOf(c), RowOf(c), UdpOf(c)} : x \in Object /\ x \notin Maps
  BY SharedAssumption DEF Shared, PlayerOf, RowOf, UdpOf, Maps, Table, Moving, Tiles
<1>2. ASSUME NEW op \in {"read", "write"}, NEW x \in {PlayerOf(c), RowOf(c), UdpOf(c)}
      PROVE  <<<<op, x>>>> \in Code(K, mode, ordered)
  <2>1. <<op, x>> \in CodeStep /\ x \notin Maps
    BY <1>1 DEF CodeStep
  <2> QED
    BY <2>1, PlainCode
<1>3. <<<<"send", c>>>> \in Code(K, mode, ordered)
  <2>1. <<"send", c>> \in CodeStep
    BY LocksAssumption DEF CodeStep
  <2> QED
    BY <2>1, PlainCode
<1> QED
  BY <1>2, <1>3 DEF Read, Write

\* A step about a map of the server is a code under the server's mutex.
LEMMA MapSteps ==
  ASSUME NEW mode \in Mode \ {"free"}, NEW ordered \in BOOLEAN, NEW m \in Maps, NEW K
  PROVE  /\ Read(m) \in Code(K, mode, ordered)
         /\ mode = "alone" => Write(m) \in Code(K, mode, ordered)
<1>1. m \in Object
  BY SharedAssumption DEF Shared
<1>2. <<"read", m>> \in CodeStep /\ <<"write", m>> \in CodeStep
  BY <1>1 DEF CodeStep
<1> QED
  BY <1>2, PlainCode DEF Read, Write

\* Under the mutex of a connection, with no lock inside.
LEMMA ConnSection ==
  ASSUME NEW mode \in Mode, NEW ordered \in BOOLEAN, NEW c \in Conn,
         NEW s \in Code({}, mode, ordered)
  PROVE  Reading(c, s) \in Code(Conn, mode, ordered) /\ Writing(c, s) \in Code(Conn, mode, ordered)
<1>1. c \in Lock /\ c # Server /\ {} \cup {c} \subseteq Conn
  BY LocksAssumption
<1>2. \A pair \in Pairs :
        <<<<pair[1], c>>>> \o s \o <<<<pair[2], c>>>> \in Code({} \cup {c}, mode, ordered)
  BY <1>1, SectionCode
<1>3. \A pair \in Pairs :
        <<<<pair[1], c>>>> \o s \o <<<<pair[2], c>>>> \in Code(Conn, mode, ordered)
  BY <1>1, <1>2, Widen
<1> QED
  BY <1>3 DEF Pairs, Reading, Writing

\* Under the server's mutex, with no lock inside.
LEMMA ServerSection ==
  ASSUME NEW ordered \in BOOLEAN
  PROVE  /\ \A s \in Code({}, "shared", ordered) : Reading(Server, s) \in Code({Server}, "free", ordered)
         /\ \A s \in Code({}, "alone", ordered) : Writing(Server, s) \in Code({Server}, "free", ordered)
<1>1. Server \in Lock /\ {} \cup {Server} = {Server}
  BY LocksAssumption
<1>2. ASSUME NEW s \in Code({}, "shared", ordered)
      PROVE  Reading(Server, s) \in Code({Server}, "free", ordered)
  <2>1. \A pair \in Pairs :
          <<<<pair[1], Server>>>> \o s \o <<<<pair[2], Server>>>> \in Code({} \cup {Server}, "free", ordered)
    BY <1>1, SectionCode DEF Mode
  <2> QED
    BY <1>1, <2>1 DEF Pairs, Reading
<1>3. ASSUME NEW s \in Code({}, "alone", ordered)
      PROVE  Writing(Server, s) \in Code({Server}, "free", ordered)
  <2>1. \A pair \in Pairs : pair[1] = "Lock" =>
          <<<<pair[1], Server>>>> \o s \o <<<<pair[2], Server>>>> \in Code({} \cup {Server}, "free", ordered)
    BY <1>1, SectionCode DEF Mode
  <2> QED
    BY <1>1, <2>1 DEF Pairs, Writing
<1> QED
  BY <1>2, <1>3

\* The mutexes of connections are taken under the server's.
ServerAbove == \A c \in Conn : Level[Server] > Level[c]

\* The server's mutex is taken under one of a connection.
ServerBelow == \A c \in Conn : Level[c] > Level[Server]

\* Under the server's mutex, with mutexes of connections inside: the sweep, and
\* the nicknames of a login.
LEMMA SweepSection ==
  ASSUME NEW ordered \in BOOLEAN, ordered => ServerAbove
  PROVE  /\ \A s \in Code(Conn, "shared", ordered) : Reading(Server, s) \in Code(Lock, "free", ordered)
         /\ \A s \in Code(Conn, "alone", ordered) : Writing(Server, s) \in Code(Lock, "free", ordered)
<1>1. Server \in Lock /\ Server \notin Conn /\ Conn \cup {Server} = Lock
  BY LocksAssumption
<1>2. ASSUME NEW s \in Code(Conn, "shared", ordered)
      PROVE  Reading(Server, s) \in Code(Lock, "free", ordered)
  <2>1. \A pair \in Pairs :
          <<<<pair[1], Server>>>> \o s \o <<<<pair[2], Server>>>> \in Code(Conn \cup {Server}, "free", ordered)
    BY <1>1, SectionCode DEF Mode, ServerAbove
  <2> QED
    BY <1>1, <2>1 DEF Pairs, Reading
<1>3. ASSUME NEW s \in Code(Conn, "alone", ordered)
      PROVE  Writing(Server, s) \in Code(Lock, "free", ordered)
  <2>1. \A pair \in Pairs : pair[1] = "Lock" =>
          <<<<pair[1], Server>>>> \o s \o <<<<pair[2], Server>>>> \in Code(Conn \cup {Server}, "free", ordered)
    BY <1>1, SectionCode DEF Mode, ServerAbove
  <2> QED
    BY <1>1, <2>1 DEF Pairs, Writing
<1> QED
  BY <1>2, <1>3

\* Under the mutex of a connection, with the server's inside: a movement, and a
\* chat message.
LEMMA UpdateSection ==
  ASSUME NEW ordered \in BOOLEAN, ordered => ServerBelow, NEW c \in Conn,
         NEW s \in Code({Server}, "free", ordered)
  PROVE  Reading(c, s) \in Code(Lock, "free", ordered) /\ Writing(c, s) \in Code(Lock, "free", ordered)
<1>1. c \in Lock /\ c # Server /\ c \notin {Server} /\ {Server} \cup {c} \subseteq Lock
  BY LocksAssumption
<1>2. \A pair \in Pairs :
        <<<<pair[1], c>>>> \o s \o <<<<pair[2], c>>>> \in Code({Server} \cup {c}, "free", ordered)
  BY <1>1, SectionCode DEF Mode, ServerBelow
<1>3. \A pair \in Pairs :
        <<<<pair[1], c>>>> \o s \o <<<<pair[2], c>>>> \in Code(Lock, "free", ordered)
  BY <1>1, <1>2, Widen
<1> QED
  BY <1>3 DEF Pairs, Reading, Writing

\* What is done under the mutex of a connection.
LEMMA Bodies ==
  ASSUME NEW mode \in Mode, NEW ordered \in BOOLEAN, NEW c \in Conn
  PROVE  /\ <<>> \in Code({}, mode, ordered)
         /\ Read(PlayerOf(c)) \o Read(RowOf(c)) \in Code({}, mode, ordered)
         /\ Read(PlayerOf(c)) \o Write(RowOf(c)) \in Code({}, mode, ordered)
         /\ Read(UdpOf(c)) \o Write(UdpOf(c)) \in Code({}, mode, ordered)
  BY EmptyCode, ConnectionSteps, ConcatCode

\* Sending, and looking at the player of a connection under its mutex.
LEMMA SendCodes ==
  ASSUME NEW mode \in Mode, NEW ordered \in BOOLEAN, NEW c \in Conn
  PROVE  /\ SendTCPMessage(c) \in Code(Conn, mode, ordered)
         /\ SendUDPMessage(c) \in Code(Conn, mode, ordered)
         /\ Reading(c, <<>>) \in Code(Conn, mode, ordered)
         /\ Writing(c, <<>>) \in Code(Conn, mode, ordered)
         /\ Reading(c, Read(PlayerOf(c))) \in Code(Conn, mode, ordered)
         /\ Reading(c, Read(PlayerOf(c)) \o Read(RowOf(c))) \in Code(Conn, mode, ordered)
<1>1. /\ <<>> \in Code({}, mode, ordered)
      /\ Read(PlayerOf(c)) \in Code({}, mode, ordered)
      /\ Read(UdpOf(c)) \in Code({}, mode, ordered)
      /\ Read(PlayerOf(c)) \o Read(RowOf(c)) \in Code({}, mode, ordered)
  BY Bodies, ConnectionSteps
<1>2. /\ Reading(c, <<>>) \in Code(Conn, mode, ordered)
      /\ Writing(c, <<>>) \in Code(Conn, mode, ordered)
      /\ Reading(c, Read(PlayerOf(c))) \in Code(Conn, mode, ordered)
      /\ Reading(c, Read(UdpOf(c))) \in Code(Conn, mode, ordered)
      /\ Reading(c, Read(PlayerOf(c)) \o Read(RowOf(c))) \in Code(Conn, mode, ordered)
  BY <1>1, ConnSection
<1>3. /\ <<<<"send", c>>>> \in Code(Conn, mode, ordered)
      /\ Read(UdpOf(c)) \in Code(Conn, mode, ordered)
  BY ConnectionSteps
<1> QED
  BY <1>2, <1>3, ConcatCode DEF SendTCPMessage, SendUDPMessage

\* Looking at the players of a listing of connections.
LEMMA LookLoop ==
  ASSUME NEW mode \in Mode, NEW ordered \in BOOLEAN, NEW o \in Seq(Conn)
  PROVE  LookAt(o) \in Code(Conn, mode, ordered)
<1> DEFINE f == [i \in DOMAIN o |-> Reading(o[i], Read(PlayerOf(o[i])) \o Read(RowOf(o[i])))]
<1>1. \A i \in DOMAIN o : f[i] \in Code(Conn, mode, ordered)
  <2>1. \A i \in DOMAIN o : o[i] \in Conn
    OBVIOUS
  <2> QED
    BY <2>1, SendCodes
<1>2. f = [i \in DOMAIN o |-> f[i]]
  OBVIOUS
<1>3. FlattenSeq(f) \in Code(Conn, mode, ordered)
  <2> HIDE DEF f
  <2> QED
    BY <1>1, <1>2, FlattenCode
<1> QED
  BY <1>3 DEF LookAt, ForEach

\* Codes a goroutine may start with no lock held.
Good(ordered) == Code(Lock, "free", ordered)

\* A good code after a good code is one.
LEMMA GoodConcat ==
  ASSUME NEW ordered, NEW s \in Good(ordered), NEW t \in Good(ordered)
  PROVE  s \o t \in Good(ordered)
  BY ConcatCode DEF Good

\* A code of fewer locks is good.
LEMMA GoodFrom ==
  ASSUME NEW ordered
  PROVE  /\ Code({}, "free", ordered) \subseteq Good(ordered)
         /\ Code(Conn, "free", ordered) \subseteq Good(ordered)
         /\ Code({Server}, "free", ordered) \subseteq Good(ordered)
<1>1. Conn \subseteq Lock /\ {Server} \subseteq Lock /\ {} \subseteq Lock
  BY LocksAssumption
<1> QED
  BY <1>1, Widen DEF Good

\* The sections of the server's mutex without another one inside.
LEMMA TableSections ==
  ASSUME NEW ordered \in BOOLEAN
  PROVE  /\ Reading(Server, <<>>) \in Code({Server}, "free", ordered)
         /\ Reading(Server, Read(Table)) \in Code({Server}, "free", ordered)
         /\ Reading(Server, Read(Moving)) \in Code({Server}, "free", ordered)
         /\ Reading(Server, Read(Table) \o Read(Tiles)) \in Code({Server}, "free", ordered)
         /\ Writing(Server, Read(Table)) \in Code({Server}, "free", ordered)
         /\ Writing(Server, Read(Table) \o Write(Table)) \in Code({Server}, "free", ordered)
         /\ Writing(Server, Write(Moving)) \in Code({Server}, "free", ordered)
         /\ Writing(Server, Write(Tiles)) \in Code({Server}, "free", ordered)
<1>1. \A m \in {Table, Moving, Tiles} :
        /\ Read(m) \in Code({}, "shared", ordered) /\ Read(m) \in Code({}, "alone", ordered)
        /\ Write(m) \in Code({}, "alone", ordered)
  BY MapSteps DEF Mode, Maps
<1>2. /\ <<>> \in Code({}, "shared", ordered)
      /\ Read(Table) \o Read(Tiles) \in Code({}, "shared", ordered)
      /\ Read(Table) \o Write(Table) \in Code({}, "alone", ordered)
  BY <1>1, EmptyCode, ConcatCode DEF Mode
<1> QED
  BY <1>1, <1>2, ServerSection

\* They are good codes.
LEMMA TableCodes ==
  ASSUME NEW ordered \in BOOLEAN
  PROVE  /\ Reading(Server, <<>>) \in Good(ordered)
         /\ Reading(Server, Read(Table)) \in Good(ordered)
         /\ Reading(Server, Read(Moving)) \in Good(ordered)
         /\ Reading(Server, Read(Table) \o Read(Tiles)) \in Good(ordered)
         /\ Writing(Server, Read(Table)) \in Good(ordered)
         /\ Writing(Server, Read(Table) \o Write(Table)) \in Good(ordered)
         /\ Writing(Server, Write(Moving)) \in Good(ordered)
         /\ Writing(Server, Write(Tiles)) \in Good(ordered)
         /\ Broadcast \in Good(ordered)
  BY TableSections, GoodFrom DEF Broadcast

\* What handlers do with one connection is good.
LEMMA ConnCodes ==
  ASSUME NEW ordered \in BOOLEAN, NEW c \in Conn
  PROVE  /\ SendTCPMessage(c) \in Good(ordered)
         /\ SendUDPMessage(c) \in Good(ordered)
         /\ Reading(c, <<>>) \in Good(ordered)
         /\ Writing(c, <<>>) \in Good(ordered)
         /\ Reading(c, Read(PlayerOf(c))) \in Good(ordered)
         /\ Reading(c, Read(PlayerOf(c)) \o Read(RowOf(c))) \in Good(ordered)
         /\ Read(PlayerOf(c)) \in Good(ordered)
         /\ Read(RowOf(c)) \in Good(ordered)
         /\ Write(RowOf(c)) \in Good(ordered)
         /\ <<>> \in Good(ordered)
<1>1. /\ SendTCPMessage(c) \in Code(Conn, "free", ordered)
      /\ SendUDPMessage(c) \in Code(Conn, "free", ordered)
      /\ Reading(c, <<>>) \in Code(Conn, "free", ordered)
      /\ Writing(c, <<>>) \in Code(Conn, "free", ordered)
      /\ Reading(c, Read(PlayerOf(c))) \in Code(Conn, "free", ordered)
      /\ Reading(c, Read(PlayerOf(c)) \o Read(RowOf(c))) \in Code(Conn, "free", ordered)
  BY SendCodes DEF Mode
<1>2. /\ Read(PlayerOf(c)) \in Code({}, "free", ordered)
      /\ Read(RowOf(c)) \in Code({}, "free", ordered)
      /\ Write(RowOf(c)) \in Code({}, "free", ordered)
      /\ <<>> \in Code({}, "free", ordered)
  BY ConnectionSteps, EmptyCode DEF Mode
<1> QED
  BY <1>1, <1>2, GoodFrom

-----------------------------------------------------------------------------
\* handleTCPConnection, up to its loop, is good.
LEMMA AcceptGood ==
  ASSUME NEW ordered \in BOOLEAN, NEW c \in Conn
  PROVE  Accept(c) \subseteq Good(ordered)
<1>1. /\ Reading(Server, Read(Table)) \in Good(ordered)
      /\ Writing(Server, Read(Table)) \in Good(ordered)
      /\ Writing(Server, Read(Table) \o Write(Table)) \in Good(ordered)
      /\ SendTCPMessage(c) \in Good(ordered)
  BY TableCodes, ConnCodes
<1> QED
  BY <1>1, GoodConcat DEF Accept

\* handleUDPConnection, up to handleMessage, is good.
LEMMA FindConnectionGood ==
  ASSUME NEW ordered \in BOOLEAN, NEW c \in Conn
  PROVE  FindConnection(c) \subseteq Good(ordered)
<1>1. /\ Read(UdpOf(c)) \in Code({}, "free", ordered)
      /\ Read(UdpOf(c)) \o Write(UdpOf(c)) \in Code({}, "free", ordered)
  BY ConnectionSteps, Bodies DEF Mode
<1>2. /\ Writing(c, Read(UdpOf(c))) \in Good(ordered)
      /\ Writing(c, Read(UdpOf(c)) \o Write(UdpOf(c))) \in Good(ordered)
  BY <1>1, ConnSection, GoodFrom DEF Mode
<1>3. Reading(Server, Read(Table)) \in Good(ordered)
  BY TableCodes
<1> QED
  BY <1>2, <1>3, GoodConcat DEF FindConnection

\* The goroutines of a broadcast, a ping and a heartbeat are good.
LEMMA DeliveryGood ==
  ASSUME NEW ordered \in BOOLEAN, NEW c \in Conn
  PROVE  /\ DeliverAll(c) \subseteq Good(ordered)
         /\ DeliverInRange(c) \subseteq Good(ordered)
         /\ HandlePingPong(c) \subseteq Good(ordered)
         /\ Heartbeat(c) \subseteq Good(ordered)
<1>1. /\ SendTCPMessage(c) \in Good(ordered) /\ SendUDPMessage(c) \in Good(ordered)
      /\ Writing(c, <<>>) \in Good(ordered)
      /\ Reading(c, Read(PlayerOf(c))) \in Good(ordered)
      /\ Reading(c, Read(PlayerOf(c)) \o Read(RowOf(c))) \in Good(ordered)
  BY ConnCodes
<1> QED
  BY <1>1, GoodConcat DEF DeliverAll, DeliverInRange, HandlePingPong, Heartbeat

\* handleMessage is as good as the handler it calls.
LEMMA HandleMessageGood ==
  ASSUME NEW ordered \in BOOLEAN, NEW c \in Conn, NEW handler, handler \subseteq Good(ordered)
  PROVE  HandleMessage(c, handler) \subseteq Good(ordered)
<1> SUFFICES ASSUME NEW x \in HandleMessage(c, handler)
             PROVE  x \in Good(ordered)
  OBVIOUS
<1>1. PICK h \in Heartbeat(c), m \in handler : x = h \o m
  BY DEF HandleMessage
<1>2. h \in Good(ordered) /\ m \in Good(ordered)
  BY DeliveryGood
<1> QED
  BY <1>1, <1>2, GoodConcat

\* handleDisconnect is a code to be run under the server's mutex.
LEMMA HandleDisconnectCode ==
  ASSUME NEW ordered \in BOOLEAN, NEW c \in Conn
  PROVE  HandleDisconnect(c) \in Code(Conn, "alone", ordered)
<1>1. /\ Reading(c, Read(PlayerOf(c)) \o Read(RowOf(c))) \in Code(Conn, "alone", ordered)
      /\ Read(RowOf(c)) \in Code(Conn, "alone", ordered)
      /\ Read(Table) \in Code(Conn, "alone", ordered)
      /\ Write(Table) \in Code(Conn, "alone", ordered)
  BY SendCodes, ConnectionSteps, MapSteps DEF Mode, Maps
<1> QED
  BY <1>1, ConcatCode DEF HandleDisconnect

\* A disconnect, by message or at the end of a stream, is good, if the server's
\* mutex comes first.
LEMMA DisconnectGood ==
  ASSUME NEW ordered \in BOOLEAN, ordered => ServerAbove, NEW c \in Conn
  PROVE  Disconnect(c) \subseteq Good(ordered)
  BY HandleDisconnectCode, SweepSection DEF Disconnect, Good

\* So is the sweep of silent connections.
LEMMA CleanupGood ==
  ASSUME NEW ordered \in BOOLEAN, ordered => ServerAbove
  PROVE  CleanupInactiveConnections \subseteq Good(ordered)
<1> SUFFICES ASSUME NEW x \in CleanupInactiveConnections
             PROVE  x \in Good(ordered)
  OBVIOUS
<1>5. PICK o \in Listings, r \in Listings : x = Reading(Server, Read(Table)) \o Heartbeats(o) \o Sweep(r)
  BY DEF CleanupInactiveConnections
<1>0. /\ o \in Seq(Conn) /\ \A i \in DOMAIN o : o[i] \in Conn
      /\ r \in Seq(Conn) /\ \A i \in DOMAIN r : r[i] \in Conn
  BY LocksAssumption
<1>1. Heartbeats(o) \in Good(ordered)
  <2> DEFINE f == [i \in DOMAIN o |-> Reading(o[i], <<>>)]
  <2>1. \A i \in DOMAIN o : f[i] \in Code(Lock, "free", ordered)
    BY <1>0, ConnCodes DEF Good
  <2>2. f = [i \in DOMAIN o |-> f[i]]
    OBVIOUS
  <2>3. FlattenSeq(f) \in Good(ordered)
    <3> HIDE DEF f
    <3> QED
      BY <1>0, <2>1, <2>2, FlattenCode DEF Mode, Good
  <2> QED
    BY <2>3 DEF Heartbeats, ForEach
<1>2. Writing(Server, ForEach(r, HandleDisconnect)) \in Good(ordered)
  <2> DEFINE f == [i \in DOMAIN r |-> HandleDisconnect(r[i])]
  <2>1. \A i \in DOMAIN r : f[i] \in Code(Conn, "alone", ordered)
    BY <1>0, HandleDisconnectCode
  <2>2. f = [i \in DOMAIN r |-> f[i]]
    OBVIOUS
  <2>3. FlattenSeq(f) \in Code(Conn, "alone", ordered)
    <3> HIDE DEF f
    <3> QED
      BY <1>0, <2>1, <2>2, FlattenCode DEF Mode
  <2> QED
    BY <2>3, SweepSection DEF ForEach, Good
<1>3. Reading(Server, Read(Table)) \in Good(ordered) /\ <<>> \in Good(ordered)
  BY TableCodes, EmptyCode DEF Good, Mode
<1>4. Sweep(r) \in Good(ordered)
  BY <1>2, <1>3 DEF Sweep
<1> QED
  BY <1>1, <1>3, <1>4, <1>5, GoodConcat

\* Looking at the players of all connections is good.
LEMMA LookAtGood ==
  ASSUME NEW ordered \in BOOLEAN, NEW o \in Listings
  PROVE  LookAt(o) \in Good(ordered)
  BY LookLoop, GoodFrom, LocksAssumption DEF Mode

\* sendSyncState is good.
LEMMA SendSyncStateGood ==
  ASSUME NEW ordered \in BOOLEAN, NEW c \in Conn
  PROVE  SendSyncState(c) \subseteq Good(ordered)
<1> SUFFICES ASSUME NEW x \in SendSyncState(c)
             PROVE  x \in Good(ordered)
  OBVIOUS
<1> DEFINE me == Reading(c, Read(PlayerOf(c)) \o Read(RowOf(c)))
           tables == Reading(Server, Read(Table)) \o Reading(Server, <<>>)
<1>1. /\ me \in Good(ordered) /\ SendTCPMessage(c) \in Good(ordered)
      /\ Reading(c, Read(PlayerOf(c))) \in Good(ordered)
  BY ConnCodes
<1>2. tables \in Good(ordered)
  BY TableCodes, GoodConcat
<1>3. \/ x = Reading(c, Read(PlayerOf(c)))
      \/ \E o \in Listings : x = me \o tables \o LookAt(o) \o SendTCPMessage(c)
  BY DEF SendSyncState
<1> HIDE DEF me, tables
<1>4. ASSUME NEW o \in Listings
      PROVE  me \o tables \o LookAt(o) \o SendTCPMessage(c) \in Good(ordered)
  BY <1>1, <1>2, GoodConcat, LookAtGood
<1> QED
  BY <1>1, <1>3, <1>4

\* handlePlayerData is good.
LEMMA HandlePlayerDataGood ==
  ASSUME NEW ordered \in BOOLEAN, NEW c \in Conn
  PROVE  HandlePlayerData(c) \subseteq Good(ordered)
<1> SUFFICES ASSUME NEW x \in HandlePlayerData(c)
             PROVE  x \in Good(ordered)
  OBVIOUS
<1> DEFINE me == Reading(c, Read(PlayerOf(c)) \o Read(RowOf(c)))
           search(o) == Reading(Server, Read(Table)) \o LookAt(o)
<1>1. /\ me \in Good(ordered) /\ SendTCPMessage(c) \in Good(ordered)
      /\ Reading(c, Read(PlayerOf(c))) \in Good(ordered)
  BY ConnCodes
<1>2. \A o \in Listings : search(o) \in Good(ordered)
  BY TableCodes, LookAtGood, GoodConcat
<1>3. \/ x = Reading(c, Read(PlayerOf(c))) \o SendTCPMessage(c)
      \/ \E o \in Listings : x = me \o search(o)
      \/ \E o \in Listings : x = me \o search(o) \o SendTCPMessage(c)
  BY DEF HandlePlayerData
<1> HIDE DEF me, search
<1> QED
  BY <1>1, <1>2, <1>3, GoodConcat

\* handleChunkRequest is good.
LEMMA HandleChunkRequestGood ==
  ASSUME NEW ordered \in BOOLEAN, NEW c \in Conn
  PROVE  HandleChunkRequest(c) \subseteq Good(ordered)
<1>1. /\ SendTCPMessage(c) \in Good(ordered)
      /\ Reading(c, Read(PlayerOf(c))) \in Good(ordered)
      /\ Reading(c, Read(PlayerOf(c)) \o Read(RowOf(c))) \in Good(ordered)
      /\ Reading(Server, <<>>) \in Good(ordered)
  BY ConnCodes, TableCodes
<1> QED
  BY <1>1, GoodConcat DEF HandleChunkRequest

\* handleLogin, which reads the nicknames under both kinds of mutexes, is good
\* if the server's comes first.
LEMMA HandleLoginGood ==
  ASSUME NEW ordered \in BOOLEAN, ordered => ServerAbove, NEW c \in Conn
  PROVE  HandleLogin(c) \subseteq Good(ordered)
<1> SUFFICES ASSUME NEW x \in HandleLogin(c)
             PROVE  x \in Good(ordered)
  OBVIOUS
<1> DEFINE look == Writing(c, Write(PlayerOf(c)))
           answer == Read(PlayerOf(c)) \o Read(RowOf(c)) \o SendTCPMessage(c)
           join == Read(PlayerOf(c)) \o Read(RowOf(c)) \o Broadcast
<1>1. look \in Good(ordered)
  BY ConnectionSteps, ConnSection, GoodFrom DEF Mode
<1>2. answer \in Good(ordered) /\ join \in Good(ordered) /\ SendTCPMessage(c) \in Good(ordered)
  BY ConnCodes, TableCodes, GoodConcat
<1>3. ASSUME NEW o \in Listings
      PROVE  CheckNickname(o) \in Good(ordered)
  <2>1. Read(Table) \in Code(Conn, "shared", ordered)
    BY MapSteps DEF Mode, Maps
  <2>2. LookAt(o) \in Code(Conn, "shared", ordered)
    BY LookLoop, LocksAssumption DEF Mode
  <2>3. Read(Table) \o LookAt(o) \in Code(Conn, "shared", ordered)
    BY <2>1, <2>2, ConcatCode
  <2> QED
    BY <2>3, SweepSection DEF CheckNickname, Good
<1>4. PICK o \in Listings :
        \/ x = CheckNickname(o) \o SendTCPMessage(c)
        \/ x = CheckNickname(o) \o look \o SendTCPMessage(c)
        \/ \E s \in SendSyncState(c) : x = CheckNickname(o) \o look \o answer \o join \o s
  BY DEF HandleLogin
<1>5. \A s \in SendSyncState(c) : s \in Good(ordered)
  BY SendSyncStateGood
<1> HIDE DEF look, answer, join
<1> QED
  BY <1>1, <1>2, <1>3, <1>4, <1>5, GoodConcat

\* A movement and a chat message to all, which take the server's mutex under
\* the connection's, are good if the server's comes last.
LEMMA PlayingGood ==
  ASSUME NEW ordered \in BOOLEAN, ordered => ServerBelow, NEW c \in Conn
  PROVE  HandleMovement(c) \subseteq Good(ordered) /\ ChatToAll(c) \subseteq Good(ordered)
<1>1. /\ Read(PlayerOf(c)) \in Code({Server}, "free", ordered)
      /\ Read(RowOf(c)) \in Code({Server}, "free", ordered)
      /\ Write(RowOf(c)) \in Code({Server}, "free", ordered)
  BY ConnectionSteps DEF Mode
<1>2. /\ Writing(Server, Write(Moving)) \in Code({Server}, "free", ordered)
      /\ Broadcast \in Code({Server}, "free", ordered)
  BY TableSections DEF Broadcast
<1>3. /\ Read(PlayerOf(c)) \o Write(RowOf(c)) \o Writing(Server, Write(Moving)) \in Code({Server}, "free", ordered)
      /\ Read(PlayerOf(c)) \o Read(RowOf(c)) \in Code({Server}, "free", ordered)
      /\ Read(PlayerOf(c)) \o (Read(RowOf(c)) \o Broadcast) \in Code({Server}, "free", ordered)
  BY <1>1, <1>2, ConcatCode
<1> QED
  BY <1>3, UpdateSection DEF HandleMovement, ChatToAll, InChat, Good

-----------------------------------------------------------------------------
\* Save is good.
LEMMA SaveGood ==
  ASSUME NEW ordered \in BOOLEAN
  PROVE  Save \subseteq Good(ordered)
<1> SUFFICES ASSUME NEW x \in Save
             PROVE  x \in Good(ordered)
  OBVIOUS
<1>1. PICK o \in Listings :
        x = Reading(Server, Read(Table) \o Read(Tiles)) \o Writing(Server, Write(Tiles))
              \o Collect(o) \o Store(o)
  BY DEF Save
<1>2. o \in Seq(Conn) /\ \A i \in DOMAIN o : o[i] \in Conn
  BY LocksAssumption
<1>3. Collect(o) \in Good(ordered)
  <2> DEFINE f == [i \in DOMAIN o |-> Reading(o[i], Read(PlayerOf(o[i])))]
  <2>1. \A i \in DOMAIN o : f[i] \in Code(Lock, "free", ordered)
    BY <1>2, ConnCodes DEF Good
  <2>2. f = [i \in DOMAIN o |-> f[i]]
    OBVIOUS
  <2>3. FlattenSeq(f) \in Good(ordered)
    <3> HIDE DEF f
    <3> QED
      BY <1>2, <2>1, <2>2, FlattenCode DEF Mode, Good
  <2> QED
    BY <2>3 DEF Collect, ForEach
<1>4. Store(o) \in Good(ordered)
  <2> DEFINE f == [i \in DOMAIN o |-> Read(RowOf(o[i]))]
  <2>1. \A i \in DOMAIN o : f[i] \in Code(Lock, "free", ordered)
    BY <1>2, ConnCodes DEF Good
  <2>2. f = [i \in DOMAIN o |-> f[i]]
    OBVIOUS
  <2>3. FlattenSeq(f) \in Good(ordered)
    <3> HIDE DEF f
    <3> QED
      BY <1>2, <2>1, <2>2, FlattenCode DEF Mode, Good
  <2> QED
    BY <2>3 DEF Store, ForEach
<1> QED
  BY <1>1, <1>3, <1>4, TableCodes, GoodConcat

\* A turn of tickLoop is good.
LEMMA TickGood ==
  ASSUME NEW ordered \in BOOLEAN
  PROVE  Tick \subseteq Good(ordered)
<1> SUFFICES ASSUME NEW x \in Tick
             PROVE  x \in Good(ordered)
  OBVIOUS
<1>1. PICK o \in Listings, S \in SUBSET Conn :
        x = Reading(Server, Read(Moving)) \o TakeOut(o, S) \o Move(o, S)
  BY DEF Tick
<1>2. o \in Seq(Conn) /\ \A i \in DOMAIN o : o[i] \in Conn
  BY LocksAssumption
<1>3. TakeOut(o, S) \in Good(ordered)
  <2> DEFINE f == [i \in DOMAIN o |-> Read(RowOf(o[i])) \o
                     IF o[i] \in S THEN Writing(Server, Write(Moving)) ELSE <<>>]
  <2>1. ASSUME NEW i \in DOMAIN o
        PROVE  f[i] \in Code(Lock, "free", ordered)
    <3>1. /\ Read(RowOf(o[i])) \in Good(ordered)
          /\ Writing(Server, Write(Moving)) \in Good(ordered) /\ <<>> \in Good(ordered)
      BY <1>2, ConnCodes, TableCodes
    <3>2. (IF o[i] \in S THEN Writing(Server, Write(Moving)) ELSE <<>>) \in Good(ordered)
      BY <3>1
    <3> QED
      BY <3>1, <3>2, GoodConcat DEF Good
  <2>2. f = [i \in DOMAIN o |-> f[i]]
    OBVIOUS
  <2>3. FlattenSeq(f) \in Good(ordered)
    <3> HIDE DEF f
    <3> QED
      BY <1>2, <2>1, <2>2, FlattenCode DEF Mode, Good
  <2> QED
    BY <2>3 DEF TakeOut, ForEach
<1>4. Move(o, S) \in Good(ordered)
  <2> DEFINE f == [i \in DOMAIN o |-> IF o[i] \in S THEN <<>> ELSE Write(RowOf(o[i])) \o Broadcast]
  <2>1. ASSUME NEW i \in DOMAIN o
        PROVE  f[i] \in Code(Lock, "free", ordered)
    <3>1. /\ Write(RowOf(o[i])) \in Good(ordered)
          /\ Broadcast \in Good(ordered) /\ <<>> \in Good(ordered)
      BY <1>2, ConnCodes, TableCodes
    <3> QED
      BY <3>1, GoodConcat DEF Good
  <2>2. f = [i \in DOMAIN o |-> f[i]]
    OBVIOUS
  <2>3. FlattenSeq(f) \in Good(ordered)
    <3> HIDE DEF f
    <3> QED
      BY <1>2, <2>1, <2>2, FlattenCode DEF Mode, Good
  <2> QED
    BY <2>3 DEF Move, ForEach
<1> QED
  BY <1>1, <1>3, <1>4, TableCodes, GoodConcat

-----------------------------------------------------------------------------
(* The menus. *)

\* What may be called of a connection whoever else does what.
Always(c) ==
  Accept(c) \cup FindConnection(c) \cup Heartbeat(c) \cup DeliverAll(c) \cup DeliverInRange(c)
    \cup SendSyncState(c) \cup HandlePlayerData(c) \cup HandleChunkRequest(c) \cup HandlePingPong(c)

\* What takes mutexes of connections under the server's, and the other way
\* round.  The chat messages to one player and a movement before the login
\* are in neither: they lock or unlock a mutex twice.
Coming(c) == HandleLogin(c) \cup Disconnect(c)
Playing(c) == HandleMovement(c) \cup ChatToAll(c)

\* Codes, by themselves or in handleMessage.
Served(c, handlers) == handlers \cup HandleMessage(c, handlers)

Lobby ==
  Save \cup Tick \cup CleanupInactiveConnections
    \cup UNION {Served(c, Always(c) \cup Coming(c)) : c \in Conn}

Game == Save \cup Tick \cup UNION {Served(c, Always(c) \cup Playing(c)) : c \in Conn}

\* What is called whoever else does what is good in either order of the locks.
LEMMA AlwaysGood ==
  ASSUME NEW ordered \in BOOLEAN, NEW c \in Conn
  PROVE  Always(c) \subseteq Good(ordered)
  BY AcceptGood, FindConnectionGood, DeliveryGood, SendSyncStateGood, HandlePlayerDataGood,
     HandleChunkRequestGood DEF Always

\* The lobby is good if the server's mutex comes first.
LEMMA LobbyGood ==
  ASSUME NEW ordered \in BOOLEAN, ordered => ServerAbove
  PROVE  Lobby \subseteq Good(ordered)
<1>1. ASSUME NEW c \in Conn
      PROVE  Served(c, Always(c) \cup Coming(c)) \subseteq Good(ordered)
  <2>1. Always(c) \cup Coming(c) \subseteq Good(ordered)
    BY AlwaysGood, HandleLoginGood, DisconnectGood DEF Coming
  <2> QED
    BY <2>1, HandleMessageGood DEF Served
<1> QED
  BY <1>1, SaveGood, TickGood, CleanupGood DEF Lobby

\* The game is good if the server's mutex comes last.
LEMMA GameGood ==
  ASSUME NEW ordered \in BOOLEAN, ordered => ServerBelow
  PROVE  Game \subseteq Good(ordered)
<1>1. ASSUME NEW c \in Conn
      PROVE  Served(c, Always(c) \cup Playing(c)) \subseteq Good(ordered)
  <2>1. Always(c) \cup Playing(c) \subseteq Good(ordered)
    BY AlwaysGood, PlayingGood DEF Playing
  <2> QED
    BY <2>1, HandleMessageGood DEF Served
<1> QED
  BY <1>1, SaveGood, TickGood DEF Game

\* Good codes meet the hypotheses of the theorems on RWMutex.
LEMMA GoodMeans ==
  ASSUME NEW ordered, \A g \in Goroutine : Calls[g] \subseteq Good(ordered)
  PROVE  /\ BalancedCalls /\ \A m \in Maps : GuardedCalls(m, Server)
         /\ ordered => OrderedCalls
         /\ ordered => DisciplinedCalls
<1>1. \A s \in Good(ordered) : /\ Balanced(s) /\ (ordered => Ordered(s))
                               /\ \A m \in Maps : Guarded(s, m, Server)
  BY DEF Good, Code, Keeps
<1> QED
  BY <1>1 DEF BalancedCalls, OrderedCalls, GuardedCalls, DisciplinedCalls, Disciplined

-----------------------------------------------------------------------------
(* The theorems of the server. *)

\* What the goroutines call.
LobbyCalled == \A g \in Goroutine : Calls[g] \subseteq Lobby
GameCalled == \A g \in Goroutine : Calls[g] \subseteq Game
AnyCalled == \A g \in Goroutine : Calls[g] \subseteq Lobby \cup Game

\* Either menu, in its order of the locks, is disciplined.
LEMMA MenusDisciplined ==
  ASSUME \/ LobbyCalled /\ ServerAbove
         \/ GameCalled /\ ServerBelow
  PROVE  DisciplinedCalls
<1>1. \A g \in Goroutine : Calls[g] \subseteq Good(TRUE)
  BY LobbyGood, GameGood DEF LobbyCalled, GameCalled
<1> QED
  BY <1>1, GoodMeans

\* Both menus together are balanced and use the maps under the server's mutex.
LEMMA MenusGuarded ==
  ASSUME AnyCalled
  PROVE  BalancedCalls /\ \A m \in Maps : GuardedCalls(m, Server)
<1>1. \A g \in Goroutine : Calls[g] \subseteq Good(FALSE)
  BY LobbyGood, GameGood DEF AnyCalled
<1> QED
  BY <1>1, GoodMeans

\* While connections come and go, log in and are swept, every goroutine is at
\* each point of its handler the holder of exactly what it has still to
\* release, takes the mutexes of connections under the server's and never the
\* other way round, and uses the maps under the server's mutex.
THEOREM LobbyDiscipline ==
  ASSUME LobbyCalled, ServerAbove
  PROVE  Spec => []Discipline
  BY MenusDisciplined, DisciplineKept

\* The handlers of the lobby never wait for each other in a circle, for any
\* number of connections, goroutines and stalled peers.
THEOREM LobbyNeverDeadlocks ==
  ASSUME LobbyCalled, ServerAbove
  PROVE  Spec => []NoDeadlock
  BY MenusDisciplined, NoDeadlockIfDisciplined

\* Neither do those of the game, while nobody logs in, leaves or is swept.
THEOREM GameNeverDeadlocks ==
  ASSUME GameCalled, ServerBelow
  PROVE  Spec => []NoDeadlock
  BY MenusDisciplined, NoDeadlockIfDisciplined

\* The handlers of both menus together never use connections, movingPlayers or
\* updatedTiles while another goroutine changes it.  Chat's answers and /tp are
\* in neither menu, nor is the movement before the login, which unlocks a mutex
\* twice.
THEOREM ServerNeverRaces ==
  ASSUME AnyCalled
  PROVE  Spec => []NoMapRace
<1>1. BalancedCalls /\ \A m \in Maps : GuardedCalls(m, Server)
  BY MenusGuarded
<1>2. Init => MapsGuarded
  <2>1. \A m \in Maps : Guarded(<<>>, m, Server)
    BY DEF Guarded
  <2> QED
    BY <2>1 DEF Init, MapsGuarded, Guarding
<1>3. LockInv /\ MapsGuarded /\ [Next]_vars => MapsGuarded'
  BY <1>1, GuardingStep DEF MapsGuarded
<1>4. Spec => []LockInv
  BY <1>1, LockInvariance
<1>5. LockInv /\ MapsGuarded => NoMapRace
  BY LocksAssumption, GuardingExcludes DEF MapsGuarded, NoMapRace
<1> QED
  BY <1>2, <1>3, <1>4, <1>5, PTL DEF Spec
=============================================================================
