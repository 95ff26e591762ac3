------------------------- MODULE BoundedQueueProofs -------------------------
(***************************************************************************)
(* Proofs about the bounded queue, for every capacity and every finite set *)
(* of producers and consumers: one task in the ring at a time, every slot  *)
(* accounted for, and the ring a first-in first-out queue.                 *)
(*                                                                         *)
(* Each of the three lists (of the two semaphores and of the lock) holds   *)
(* tasks at one known step, so that a permit, or the lock, handed to the   *)
(* first of a list goes to a task at that step.  A semaphore's account is  *)
(* its count and the tasks that hold one of its permits: a call of wait or *)
(* signal leaves it as it is, and a task in the ring moves one slot from   *)
(* one account to the other.                                               *)
(***************************************************************************)
EXTENDS BoundedQueue, ListProofs, FiniteSetTheorems

Steps == {"idle"} \cup PushSteps \cup PopSteps

Sems == {"items", "space"}

Lists == {"items", "space", "lock"}

RingSteps == {"push_store", "push_unlock", "pop_load", "pop_unlock"}

\* The steps of the tasks each list may hold.
WaitsAt(o) == CASE o = "items" -> {"pop_lock"}
                [] o = "space" -> {"push_lock"}
                [] o = "lock" -> {"push_store", "pop_load"}

\* The steps at which a task holds a permit of a semaphore: one it has taken
\* and not used, or one it has made and not given back.
TakenAt(s) == IF s = "space" THEN {"push_lock", "push_store"} ELSE {"pop_lock", "pop_load"}

MadeAt(s) == IF s = "space" THEN {"pop_unlock", "pop_signal"} ELSE {"push_unlock", "push_signal"}

HeldAt(s) == TakenAt(s) \cup MadeAt(s)

\* The tasks at one of the steps S, of those that p places, that list o of lists
\* does not link.
Free(p, lists, o, S) == {u \in Tasks : p[u] \in S /\ u \notin ToSet(lists[o])}

\* A list with a task in front.
Pushed(t, list) == <<t>> \o list

\* A set of tasks without one of them.
Less(held, t) == held \ {t}

\* The set held of tasks at one of the steps S, once task t has gone on to `to`.
Gone(held, t, to, S) == IF to \in S THEN held \cup {t} ELSE held \ {t}

\* How many tasks that p places are at one of the steps S and not in list o of lists.
Held(p, lists, o, S) == Cardinality(Free(p, lists, o, S))

One(x, S) == IF x \in S THEN 1 ELSE 0

\* The account of semaphore s: its count c[s] and the permits that tasks hold.
Account(c, p, lists, s) ==
  c[s] + Held(p, lists, s, TakenAt(s)) + Held(p, lists, s, MadeAt(s))

----------------------------------------------------------------------------
(* The inductive invariant                                                 *)

\* Each list links tasks once, at the step its waiters are at.
ListsSound ==
  \A o \in Lists : /\ LinkedOnce(waiters[o])
                   /\ \A t \in ToSet(waiters[o]) : pc[t] \in WaitsAt(o)

\* A task that pushes has an item to push, and one that does not come out of the
\* ring has popped none.
LocalsSound ==
  \A t \in Tasks :
    /\ pc[t] \in PushSteps => arg[t] \in Items
    /\ pc[t] \notin {"pop_unlock", "pop_signal"} => got[t] = NULL

\* The lock is taken when somebody is in the ring, who is alone there.
LockSound ==
  /\ \A t, u \in Holding("lock", RingSteps) : t = u
  /\ locked <=> Holding("lock", RingSteps) # {}
  /\ waiters["lock"] # <<>> => locked

\* Nobody uses a queue destroyed.
DestroyedIdle == capacity = 0 => head = 0 /\ tail = 0 /\ \A t \in Tasks : pc[t] = "idle"

QueueInv ==
  /\ QueueTypeOK
  /\ ListsSound
  /\ LocalsSound
  /\ LockSound
  /\ DestroyedIdle
  /\ SlotsAccounted

----------------------------------------------------------------------------
(* Counting tasks                                                          *)

\* One task more or less in a set of tasks.
LEMMA Counted ==
  ASSUME NEW S, S \subseteq Tasks, NEW t \in Tasks
  PROVE  /\ Cardinality(S) \in Nat
         /\ Cardinality(S \cup {t}) = Cardinality(S) + IF t \in S THEN 0 ELSE 1
         /\ Cardinality(S \ {t}) = Cardinality(S) - IF t \in S THEN 1 ELSE 0
<1>1. IsFiniteSet(Tasks)
  BY QueueAssumption, FS_Union DEF Tasks
<1>2. IsFiniteSet(S)
  BY <1>1, FS_Subset
<1>3. Cardinality(S) \in Nat
  BY <1>2, FS_CardinalityType
<1>4. CASE t \in S
  <2>1. S \cup {t} = S
    BY <1>4
  <2>2. Cardinality(S \ {t}) = Cardinality(S) - 1
    BY <1>2, <1>4, FS_RemoveElement
  <2> QED BY <1>3, <1>4, <2>1, <2>2
<1>5. CASE t \notin S
  <2>1. S \ {t} = S
    BY <1>5
  <2>2. Cardinality(S \cup {t}) = Cardinality(S) + 1
    BY <1>2, <1>5, FS_AddElement
  <2> QED BY <1>3, <1>5, <2>1, <2>2
<1> QED BY <1>4, <1>5

----------------------------------------------------------------------------
(* What a step of a task does to the lists and to who holds what           *)

\* The list of o when task t goes on to step `to`: as it was, with t in front,
\* or without its first.
ListMoves(old, new, o, t, to) ==
  \/ new = old
  \/ new = Pushed(t, old) /\ to \in WaitsAt(o)
  \/ old # <<>> /\ new = Tail(old)

\* Task t, in no list, goes from one step to the next; next and lists are pc and
\* waiters after that.
Moves(t, from, to, next, lists) ==
  /\ t \in Tasks
  /\ from \in Steps /\ to \in Steps
  /\ ~Blocked(t)
  /\ pc[t] = from
  /\ next = [pc EXCEPT ![t] = to]
  /\ lists = [o \in Lists |-> lists[o]]
  /\ \A o \in Lists : ListMoves(waiters[o], lists[o], o, t, to)

\* The lists of a sound state, and a task that is free to take a step.
LEMMA ListsOf ==
  ASSUME QueueInv, NEW o \in Lists
  PROVE  /\ waiters[o] \in Seq(Tasks)
         /\ LinkedOnce(waiters[o])
         /\ \A u \in ToSet(waiters[o]) : u \in Tasks /\ pc[u] \in WaitsAt(o)
         /\ \A u \in Tasks : ~Blocked(u) => u \notin ToSet(waiters[o])
         /\ waiters[o] # <<>> =>
              /\ Head(waiters[o]) \in ToSet(waiters[o])
              /\ Tail(waiters[o]) \in Seq(Tasks)
              /\ LinkedOnce(Tail(waiters[o]))
              /\ ToSet(Tail(waiters[o])) = ToSet(waiters[o]) \ {Head(waiters[o])}
         /\ \A u \in Tasks \ ToSet(waiters[o]) :
              /\ Pushed(u, waiters[o]) \in Seq(Tasks)
              /\ LinkedOnce(Pushed(u, waiters[o]))
              /\ ToSet(Pushed(u, waiters[o])) = ToSet(waiters[o]) \cup {u}
<1>1. waiters[o] \in Seq(Tasks) /\ LinkedOnce(waiters[o])
  BY DEF QueueInv, QueueTypeOK, ListsSound, Lists
<1>2. \A u \in ToSet(waiters[o]) : u \in Tasks /\ pc[u] \in WaitsAt(o)
  BY <1>1 DEF QueueInv, ListsSound, ToSet
<1>3. \A u \in Tasks : ~Blocked(u) => u \notin ToSet(waiters[o])
  BY DEF Blocked, Lists
<1> QED BY <1>1, <1>2, <1>3, HeadLeaves, PushLinks DEF Pushed

\* A step keeps the lists sound.
LEMMA ListsKept ==
  ASSUME QueueInv, NEW t, NEW from, NEW to, Moves(t, from, to, pc', waiters')
  PROVE  /\ pc' \in [Tasks -> Steps]
         /\ pc'[t] = to
         /\ \A u \in Tasks \ {t} : pc'[u] = pc[u]
         /\ waiters' \in [Lists -> Seq(Tasks)]
         /\ ListsSound'
<1>1. /\ t \in Tasks /\ pc \in [Tasks -> Steps] /\ pc[t] = from
      /\ pc' = [pc EXCEPT ![t] = to] /\ to \in Steps
      /\ waiters' = [o \in Lists |-> waiters'[o]]
      /\ \A o \in Lists : ListMoves(waiters[o], waiters'[o], o, t, to) /\ t \notin ToSet(waiters[o])
  BY ListsOf DEF Moves, QueueInv, QueueTypeOK, Steps
<1>2. /\ pc' \in [Tasks -> Steps]
      /\ pc'[t] = to
      /\ \A u \in Tasks \ {t} : pc'[u] = pc[u]
  BY <1>1
<1>3. ASSUME NEW o \in Lists
      PROVE  /\ waiters'[o] \in Seq(Tasks)
             /\ LinkedOnce(waiters'[o])
             /\ \A u \in ToSet(waiters'[o]) : pc'[u] \in WaitsAt(o)
  <2>1. CASE waiters'[o] = waiters[o]
    BY <1>1, <1>2, <2>1, ListsOf
  <2>2. CASE waiters'[o] = Pushed(t, waiters[o]) /\ to \in WaitsAt(o)
    <3>1. /\ waiters'[o] \in Seq(Tasks) /\ LinkedOnce(waiters'[o])
          /\ ToSet(waiters'[o]) = ToSet(waiters[o]) \cup {t}
      <4>1. t \in Tasks \ ToSet(waiters[o])
        BY <1>1
      <4> QED BY <2>2, <4>1, ListsOf
    <3>2. \A u \in ToSet(waiters[o]) : u \in Tasks /\ u # t /\ pc[u] \in WaitsAt(o)
      BY <1>1, ListsOf
    <3> QED BY <1>2, <2>2, <3>1, <3>2
  <2>3. CASE waiters[o] # <<>> /\ waiters'[o] = Tail(waiters[o])
    <3>1. /\ waiters'[o] \in Seq(Tasks) /\ LinkedOnce(waiters'[o])
          /\ ToSet(waiters'[o]) \subseteq ToSet(waiters[o])
      BY <2>3, ListsOf
    <3>2. \A u \in ToSet(waiters[o]) : u \in Tasks /\ u # t /\ pc[u] \in WaitsAt(o)
      BY <1>1, ListsOf
    <3> QED BY <1>2, <3>1, <3>2
  <2> QED BY <1>1, <2>1, <2>2, <2>3 DEF ListMoves
<1>4. waiters' \in [Lists -> Seq(Tasks)]
  BY <1>1, <1>3
<1> QED BY <1>2, <1>3, <1>4 DEF ListsSound

\* Who is at one of the steps S and not waiting for o.
LEMMA HoldersMove ==
  ASSUME QueueInv, NEW t, NEW from, NEW to, Moves(t, from, to, pc', waiters'), NEW o \in Lists, NEW S
  PROVE  /\ Free(pc, waiters, o, S) \subseteq Tasks
         /\ t \in Free(pc, waiters, o, S) <=> from \in S
         /\ waiters'[o] = waiters[o] =>
              Free(pc', waiters', o, S) = Gone(Free(pc, waiters, o, S), t, to, S)
         /\ waiters'[o] = Pushed(t, waiters[o]) =>
              Free(pc', waiters', o, S) = Less(Free(pc, waiters, o, S), t)
         /\ waiters[o] # <<>> /\ waiters'[o] = Tail(waiters[o]) =>
              \E h \in Tasks \ (Free(pc, waiters, o, S) \cup {t}) :
                /\ pc[h] \in WaitsAt(o)
                /\ Free(pc', waiters', o, S) =
                     Gone(Gone(Free(pc, waiters, o, S), t, to, S), h, pc[h], S)
<1> DEFINE held == Free(pc, waiters, o, S)
           next == Free(pc', waiters', o, S)
           now  == Gone(held, t, to, S)
<1>1. /\ t \in Tasks /\ pc[t] = from /\ t \notin ToSet(waiters[o])
  BY ListsOf DEF Moves
<1>2. /\ pc'[t] = to
      /\ \A u \in Tasks \ {t} : pc'[u] = pc[u]
  BY ListsKept
<1>3. \A u : u \in next <=> u \in Tasks /\ pc'[u] \in S /\ u \notin ToSet(waiters'[o])
  BY DEF Free
<1>4. \A u : u \in held <=> u \in Tasks /\ pc[u] \in S /\ u \notin ToSet(waiters[o])
  BY DEF Free
<1> HIDE DEF held, next
<1> USE DEF Gone, Less
<1>5. ASSUME waiters'[o] = waiters[o]
      PROVE  next = now
  <2>1. \A u : u \in next <=> u \in now
    BY <1>1, <1>2, <1>3, <1>4, <1>5
  <2> QED BY <2>1
<1>6. ASSUME waiters'[o] = Pushed(t, waiters[o])
      PROVE  next = Less(held, t)
  <2>1. ToSet(waiters'[o]) = ToSet(waiters[o]) \cup {t}
    BY <1>1, <1>6, ListsOf
  <2>2. \A u : u \in next <=> u \in Less(held, t)
    BY <1>1, <1>2, <1>3, <1>4, <2>1
  <2> QED BY <2>2
<1>7. ASSUME waiters[o] # <<>>, waiters'[o] = Tail(waiters[o])
      PROVE  \E h \in Tasks \ (held \cup {t}) :
                /\ pc[h] \in WaitsAt(o)
                /\ next = Gone(now, h, pc[h], S)
  <2> DEFINE h == Head(waiters[o])
  <2>1. /\ ToSet(waiters'[o]) = ToSet(waiters[o]) \ {h}
        /\ h \in ToSet(waiters[o]) /\ h \in Tasks /\ pc[h] \in WaitsAt(o)
    BY <1>7, ListsOf
  <2> HIDE DEF h
  <2>2. h \in Tasks \ (held \cup {t})
    BY <1>1, <1>4, <2>1
  <2>3. \A u : u \in next <=> u \in Gone(now, h, pc[h], S)
    BY <1>1, <1>2, <1>3, <1>4, <2>1
  <2>4. next = Gone(now, h, pc[h], S)
    BY <2>3
  <2> QED BY <2>1, <2>2, <2>4
<1> QED BY <1>1, <1>4, <1>5, <1>6, <1>7 DEF held, next

----------------------------------------------------------------------------
(* The accounts and the lock                                               *)

\* The steps that matter to a semaphore are apart, and its waiters are about to
\* be at one where a permit is taken.
LEMMA StepsApart ==
  ASSUME NEW s \in Sems
  PROVE  /\ s \in Lists
         /\ \A x : ~(x \in TakenAt(s) /\ x \in MadeAt(s))
         /\ \A x : x \in HeldAt(s) <=> x \in TakenAt(s) \/ x \in MadeAt(s)
         /\ WaitsAt(s) \subseteq TakenAt(s)
         /\ "idle" \notin HeldAt(s)
BY DEF Sems, Lists, TakenAt, MadeAt, HeldAt, WaitsAt

\* What SlotsAccounted and LockSound say, in the words of this module.
LEMMA SlotsAre ==
  /\ QueueTypeOK =>
       (SlotsAccounted <=>
         (capacity # 0 =>
           /\ Account(count, pc, waiters, "space") + size = Capacity
           /\ Account(count, pc, waiters, "items") = size
           /\ size \in 0..Capacity
           /\ tail = (head + size) % Capacity
           /\ \A s \in Sems : count[s] = 0 \/ waiters[s] = <<>>))
  /\ LockSound <=>
       /\ \A t, u \in Free(pc, waiters, "lock", RingSteps) : t = u
       /\ locked <=> Free(pc, waiters, "lock", RingSteps) # {}
       /\ waiters["lock"] # <<>> => locked
<1>1. ASSUME NEW o, NEW S PROVE Held(pc, waiters, o, S) \in Nat
  <2>1. IsFiniteSet(Tasks) /\ Free(pc, waiters, o, S) \subseteq Tasks
    BY QueueAssumption, FS_Union DEF Tasks, Free
  <2> QED BY <2>1, FS_Subset, FS_CardinalityType DEF Held
<1>2. \A s, S : Cardinality(Holding(s, S)) = Held(pc, waiters, s, S)
  BY DEF Holding, Held, Free
<1> DEFINE st == Held(pc, waiters, "space", TakenAt("space"))
           sm == Held(pc, waiters, "space", MadeAt("space"))
           it == Held(pc, waiters, "items", TakenAt("items"))
           im == Held(pc, waiters, "items", MadeAt("items"))
<1>3. /\ st = Cardinality(Holding("space", {"push_lock", "push_store"}))
      /\ sm = Cardinality(Holding("space", {"pop_unlock", "pop_signal"}))
      /\ it = Cardinality(Holding("items", {"pop_lock", "pop_load"}))
      /\ im = Cardinality(Holding("items", {"push_unlock", "push_signal"}))
  BY <1>2 DEF TakenAt, MadeAt
<1>4. st \in Nat /\ sm \in Nat /\ it \in Nat /\ im \in Nat
  BY <1>1
<1>5. /\ Account(count, pc, waiters, "space") = count["space"] + st + sm
      /\ Account(count, pc, waiters, "items") = count["items"] + it + im
  BY DEF Account
<1> HIDE DEF st, sm, it, im
<1>6. ASSUME QueueTypeOK
      PROVE  SlotsAccounted <=>
               (capacity # 0 =>
                 /\ Account(count, pc, waiters, "space") + size = Capacity
                 /\ Account(count, pc, waiters, "items") = size
                 /\ size \in 0..Capacity
                 /\ tail = (head + size) % Capacity
                 /\ \A s \in Sems : count[s] = 0 \/ waiters[s] = <<>>)
  <2>1. count["space"] \in Nat /\ count["items"] \in Nat /\ size \in Int
    BY <1>6 DEF QueueTypeOK
  <2>2. /\ count["space"] + st + sm + size = count["space"] + st + size + sm
        /\ count["items"] + it + im \in Nat
    BY <1>4, <2>1
  <2> QED BY <1>3, <1>5, <2>2 DEF SlotsAccounted, Sems
<1> QED BY <1>6 DEF LockSound, Holding, Free

\* How many tasks hold what, before and after a step.
LEMMA HoldersCounted ==
  ASSUME QueueInv, NEW t, NEW from, NEW to, Moves(t, from, to, pc', waiters'), NEW o \in Lists, NEW S
  PROVE  /\ Held(pc, waiters, o, S) \in Nat /\ (from \in S => Held(pc, waiters, o, S) > 0)
         /\ waiters'[o] = waiters[o] =>
              Held(pc', waiters', o, S) = Held(pc, waiters, o, S) - One(from, S) + One(to, S)
         /\ waiters'[o] = Pushed(t, waiters[o]) =>
              Held(pc', waiters', o, S) = Held(pc, waiters, o, S) - One(from, S)
         /\ waiters[o] # <<>> /\ waiters'[o] = Tail(waiters[o]) =>
              /\ WaitsAt(o) \subseteq S =>
                   Held(pc', waiters', o, S) = Held(pc, waiters, o, S) - One(from, S) + One(to, S) + 1
              /\ WaitsAt(o) \cap S = {} =>
                   Held(pc', waiters', o, S) = Held(pc, waiters, o, S) - One(from, S) + One(to, S)
<1> DEFINE H == Free(pc, waiters, o, S)
           K == Free(pc', waiters', o, S)
           N == Gone(H, t, to, S)
<1>1. t \in Tasks
  BY DEF Moves
<1>2. /\ H \subseteq Tasks
      /\ t \in H <=> from \in S
      /\ waiters'[o] = waiters[o] => K = N
      /\ waiters'[o] = Pushed(t, waiters[o]) => K = Less(H, t)
  BY HoldersMove
<1>3. waiters[o] # <<>> /\ waiters'[o] = Tail(waiters[o]) =>
        \E h \in Tasks \ (H \cup {t}) :
          /\ pc[h] \in WaitsAt(o)
          /\ K = Gone(N, h, pc[h], S)
  BY HoldersMove
<1>4. Held(pc, waiters, o, S) = Cardinality(H) /\ Held(pc', waiters', o, S) = Cardinality(K)
  BY DEF Held
<1> HIDE DEF H, K
<1>5. /\ Cardinality(H) \in Nat
      /\ Cardinality(H \cup {t}) = Cardinality(H) + IF t \in H THEN 0 ELSE 1
      /\ Cardinality(H \ {t}) = Cardinality(H) - IF t \in H THEN 1 ELSE 0
      /\ Cardinality(H \ {t}) \in Nat
  <2>1. H \ {t} \subseteq Tasks
    BY <1>2
  <2> QED BY <1>1, <1>2, <2>1, Counted
<1>6. /\ N \subseteq Tasks /\ Cardinality(N) \in Nat
      /\ Cardinality(N) = Cardinality(H) - One(from, S) + One(to, S)
  BY <1>1, <1>2, <1>5 DEF Gone, One
<1>7. from \in S => Cardinality(H) > 0
  BY <1>2, <1>5
<1>8. \A h \in Tasks \ (H \cup {t}) : Cardinality(N \cup {h}) = Cardinality(N) + 1
  <2> SUFFICES ASSUME NEW h \in Tasks \ (H \cup {t})
               PROVE  Cardinality(N \cup {h}) = Cardinality(N) + 1
    OBVIOUS
  <2>1. h \notin N
    BY DEF Gone
  <2> QED BY <1>6, <2>1, Counted
<1>9. Cardinality(Less(H, t)) = Cardinality(H) - One(from, S)
  BY <1>2, <1>5 DEF Less, One
<1> HIDE DEF N
<1>10. \A h \in Tasks \ (H \cup {t}) :
         Cardinality(Gone(N, h, pc[h], S)) = Cardinality(N) + One(pc[h], S)
  <2> SUFFICES ASSUME NEW h \in Tasks \ (H \cup {t})
               PROVE  Cardinality(Gone(N, h, pc[h], S)) = Cardinality(N) + One(pc[h], S)
    OBVIOUS
  <2>1. h \notin N
    BY DEF Gone, N
  <2>2. N \ {h} = N
    BY <2>1
  <2> QED BY <1>6, <1>8, <2>2 DEF Gone, One
<1>11. waiters[o] # <<>> /\ waiters'[o] = Tail(waiters[o]) =>
         \E x \in WaitsAt(o) : Cardinality(K) = Cardinality(N) + One(x, S)
  BY <1>3, <1>10
<1>12. /\ WaitsAt(o) \subseteq S => \A x \in WaitsAt(o) : One(x, S) = 1
       /\ WaitsAt(o) \cap S = {} => \A x \in WaitsAt(o) : One(x, S) = 0
  BY DEF One
<1> QED BY <1>2, <1>3, <1>4, <1>5, <1>6, <1>7, <1>9, <1>11, <1>12

\* A step that leaves the semaphore alone changes its account by what the task
\* does.
LEMMA AccountMoves ==
  ASSUME QueueInv, NEW t, NEW from, NEW to, Moves(t, from, to, pc', waiters'), NEW s \in Sems,
         waiters'[s] = waiters[s], count'[s] = count[s]
  PROVE  /\ Account(count, pc, waiters, s) \in Nat
         /\ from \in HeldAt(s) => Account(count, pc, waiters, s) > 0
         /\ Account(count', pc', waiters', s) = Account(count, pc, waiters, s) - One(from, HeldAt(s)) + One(to, HeldAt(s))
<1>1. count[s] \in Nat
  BY DEF QueueInv, QueueTypeOK, Sems
<1>2. ASSUME NEW S
      PROVE  /\ Held(pc, waiters, s, S) \in Nat /\ (from \in S => Held(pc, waiters, s, S) > 0)
             /\ Held(pc', waiters', s, S) = Held(pc, waiters, s, S) - One(from, S) + One(to, S)
  BY StepsApart, HoldersCounted
<1>3. \A x : One(x, HeldAt(s)) = One(x, TakenAt(s)) + One(x, MadeAt(s))
  BY StepsApart DEF One
<1>4. \A x : \A S : One(x, S) \in {0, 1}
  BY DEF One
<1> QED BY <1>1, <1>2, <1>3, <1>4, StepsApart DEF Account

\* A call of semaphore_wait leaves the account as it is: it takes a permit from
\* the count, or none yet.
LEMMA WaitBalances ==
  ASSUME QueueInv, NEW t, NEW from, NEW to, Moves(t, from, to, pc', waiters'), NEW s \in Sems,
         from \notin HeldAt(s), to \in TakenAt(s), SemWait(t, s)
  PROVE  Account(count', pc', waiters', s) = Account(count, pc, waiters, s)
<1>1. count \in [Sems -> Nat] /\ waiters \in [Lists -> Seq(Tasks)]
  BY DEF QueueInv, QueueTypeOK, Sems, Lists
<1>2. ASSUME NEW S, from \notin S
      PROVE  /\ Held(pc, waiters, s, S) \in Nat
             /\ waiters'[s] = waiters[s] => Held(pc', waiters', s, S) = Held(pc, waiters, s, S) + One(to, S)
             /\ waiters'[s] = Pushed(t, waiters[s]) => Held(pc', waiters', s, S) = Held(pc, waiters, s, S)
  BY <1>2, StepsApart, HoldersCounted DEF One
<1>3. from \notin TakenAt(s) /\ from \notin MadeAt(s)
  BY StepsApart
<1>4. One(to, TakenAt(s)) = 1 /\ One(to, MadeAt(s)) = 0
  BY StepsApart DEF One
<1>5. CASE count' = [count EXCEPT ![s] = @ - 1] /\ UNCHANGED waiters
  <2>1. count'[s] = count[s] - 1 /\ count[s] \in Nat /\ waiters'[s] = waiters[s]
    BY <1>1, <1>5
  <2> QED BY <1>2, <1>3, <1>4, <2>1 DEF Account
<1>6. CASE UNCHANGED count /\ waiters' = [waiters EXCEPT ![s] = <<t>> \o @]
  <2>1. count'[s] = count[s] /\ count[s] \in Nat /\ waiters'[s] = Pushed(t, waiters[s])
    BY <1>1, <1>6, StepsApart DEF Pushed
  <2> QED BY <1>2, <1>3, <2>1 DEF Account
<1> QED BY <1>5, <1>6 DEF SemWait

\* A call of semaphore_signal leaves the account as it is: the permit the caller
\* gives up goes to the count, or to the first of the list.
LEMMA SignalBalances ==
  ASSUME QueueInv, NEW t, NEW from, NEW to, Moves(t, from, to, pc', waiters'), NEW s \in Sems,
         from \in MadeAt(s), to = "idle", SemSignal(s)
  PROVE  Account(count', pc', waiters', s) = Account(count, pc, waiters, s)
<1>1. count \in [Sems -> Nat] /\ waiters \in [Lists -> Seq(Tasks)]
  BY DEF QueueInv, QueueTypeOK, Sems, Lists
<1>2. ASSUME NEW S
      PROVE  /\ Held(pc, waiters, s, S) \in Nat
             /\ waiters'[s] = waiters[s] =>
                  Held(pc', waiters', s, S) = Held(pc, waiters, s, S) - One(from, S) + One(to, S)
             /\ waiters[s] # <<>> /\ waiters'[s] = Tail(waiters[s]) =>
                  /\ WaitsAt(s) \subseteq S =>
                       Held(pc', waiters', s, S) = Held(pc, waiters, s, S) - One(from, S) + One(to, S) + 1
                  /\ WaitsAt(s) \cap S = {} =>
                       Held(pc', waiters', s, S) = Held(pc, waiters, s, S) - One(from, S) + One(to, S)
  BY StepsApart, HoldersCounted
<1>3. /\ WaitsAt(s) \subseteq TakenAt(s) /\ WaitsAt(s) \cap MadeAt(s) = {}
      /\ One(from, TakenAt(s)) = 0 /\ One(from, MadeAt(s)) = 1
      /\ One(to, TakenAt(s)) = 0 /\ One(to, MadeAt(s)) = 0
  BY StepsApart DEF One
<1>4. CASE Handover(s)
  <2>1. /\ count'[s] = count[s] /\ count[s] \in Nat
        /\ waiters[s] # <<>> /\ waiters'[s] = Tail(waiters[s])
    BY <1>1, <1>4, StepsApart DEF Handover
  <2> QED BY <1>2, <1>3, <2>1 DEF Account
<1>5. CASE count' = [count EXCEPT ![s] = @ + 1] /\ UNCHANGED waiters
  <2>1. count'[s] = count[s] + 1 /\ count[s] \in Nat /\ waiters'[s] = waiters[s]
    BY <1>1, <1>5
  <2> QED BY <1>2, <1>3, <2>1 DEF Account
<1> QED BY <1>4, <1>5 DEF SemSignal

----------------------------------------------------------------------------
(* The calls of the semaphores and of the lock                             *)

\* What a call of semaphore_wait does for task t and leaves to the others.
LEMMA WaitCalls ==
  ASSUME QueueInv, capacity # 0, NEW t \in Tasks, NEW from \in Steps, NEW to \in Steps,
         Goes(t, from, to), NEW s \in Sems, to \in WaitsAt(s), SemWait(t, s)
  PROVE  /\ Moves(t, from, to, pc', waiters')
         /\ count' \in [Sems -> Nat]
         /\ count'[s] = 0 \/ waiters'[s] = <<>>
         /\ locked' = locked
         /\ \A o \in Lists \ {s} : waiters'[o] = waiters[o]
         /\ \A r \in Sems \ {s} : count'[r] = count[r]
<1>1. /\ count \in [Sems -> Nat] /\ waiters \in [Lists -> Seq(Tasks)]
      /\ s \in Lists /\ t \notin ToSet(waiters[s])
  BY ListsOf, StepsApart DEF QueueInv, QueueTypeOK, Sems, Lists, Goes
<1>2. CASE count[s] > 0 /\ count' = [count EXCEPT ![s] = @ - 1] /\ UNCHANGED <<waiters, locked>>
  <2>1. /\ count' \in [Sems -> Nat]
        /\ \A r \in Sems \ {s} : count'[r] = count[r]
    BY <1>1, <1>2
  <2>2. waiters[s] = <<>>
    BY <1>1, <1>2 DEF QueueInv, SlotsAccounted, Sems
  <2> QED BY <1>1, <1>2, <2>1, <2>2 DEF Goes, Moves, ListMoves
<1>3. CASE /\ count[s] = 0 /\ waiters' = [waiters EXCEPT ![s] = <<t>> \o @]
           /\ UNCHANGED <<count, locked>>
  <2>1. /\ waiters'[s] = Pushed(t, waiters[s])
        /\ \A o \in Lists \ {s} : waiters'[o] = waiters[o]
        /\ waiters' = [o \in Lists |-> waiters'[o]]
    BY <1>1, <1>3 DEF Pushed
  <2> QED BY <1>1, <1>3, <2>1 DEF Goes, Moves, ListMoves
<1> QED BY <1>2, <1>3 DEF SemWait

\* What a call of semaphore_signal does.
LEMMA SignalCalls ==
  ASSUME QueueInv, capacity # 0, NEW t \in Tasks, NEW from \in Steps, NEW to \in Steps,
         Goes(t, from, to), NEW s \in Sems, SemSignal(s)
  PROVE  /\ Moves(t, from, to, pc', waiters')
         /\ count' \in [Sems -> Nat]
         /\ count'[s] = 0 \/ waiters'[s] = <<>>
         /\ locked' = locked
         /\ \A o \in Lists \ {s} : waiters'[o] = waiters[o]
         /\ \A r \in Sems \ {s} : count'[r] = count[r]
<1>1. /\ count \in [Sems -> Nat] /\ waiters \in [Lists -> Seq(Tasks)]
      /\ s \in Lists
  BY StepsApart DEF QueueInv, QueueTypeOK, Sems, Lists
<1>2. CASE Handover(s)
  <2>1. count[s] = 0
    BY <1>2 DEF Handover, QueueInv, SlotsAccounted, Sems
  <2>2. /\ waiters[s] # <<>> /\ waiters'[s] = Tail(waiters[s])
        /\ \A o \in Lists \ {s} : waiters'[o] = waiters[o]
        /\ waiters' = [o \in Lists |-> waiters'[o]]
    BY <1>1, <1>2 DEF Handover
  <2> QED BY <1>1, <1>2, <2>1, <2>2 DEF Goes, Moves, ListMoves, Handover
<1>3. CASE /\ waiters[s] = <<>> /\ count' = [count EXCEPT ![s] = @ + 1]
           /\ UNCHANGED <<locked, waiters>>
  <2>1. /\ count' \in [Sems -> Nat]
        /\ \A r \in Sems \ {s} : count'[r] = count[r]
    BY <1>1, <1>3
  <2> QED BY <1>1, <1>3, <2>1 DEF Goes, Moves, ListMoves
<1> QED BY <1>2, <1>3 DEF SemSignal

\* A task that comes from outside the ring takes the lock, or waits for it, and
\* nobody else comes in.
LEMMA LockCalls ==
  ASSUME QueueInv, NEW t \in Tasks, NEW from \in Steps, NEW to \in Steps,
         Goes(t, from, to), from \notin RingSteps, to \in WaitsAt("lock"), Lock(t)
  PROVE  /\ Moves(t, from, to, pc', waiters')
         /\ count' = count /\ locked' \in BOOLEAN /\ LockSound'
         /\ \A s \in Sems : waiters'[s] = waiters[s]
<1>1. /\ waiters \in [Lists -> Seq(Tasks)] /\ t \notin ToSet(waiters["lock"])
      /\ "lock" \in Lists /\ locked \in BOOLEAN
  BY ListsOf DEF QueueInv, QueueTypeOK, Lists, Goes
<1> DEFINE held == Free(pc, waiters, "lock", RingSteps)
           next == Free(pc', waiters', "lock", RingSteps)
<1>2. /\ waiters'["lock"] = IF locked THEN Pushed(t, waiters["lock"]) ELSE waiters["lock"]
      /\ \A s \in Sems : waiters'[s] = waiters[s]
      /\ waiters' = [o \in Lists |-> waiters'[o]]
      /\ locked' = TRUE /\ count' = count
  BY <1>1 DEF Lock, Pushed, Lists, Sems
<1>3. Moves(t, from, to, pc', waiters')
  BY <1>1, <1>2 DEF Goes, Moves, ListMoves, Lists, Sems
<1>4. /\ t \notin held
      /\ waiters'["lock"] = waiters["lock"] => next = Gone(held, t, to, RingSteps)
      /\ waiters'["lock"] = Pushed(t, waiters["lock"]) => next = Less(held, t)
  BY <1>1, <1>3, HoldersMove
<1>5. /\ \A u, v \in held : u = v
      /\ locked <=> held # {}
  BY SlotsAre DEF QueueInv
<1> HIDE DEF held, next
<1>6. to \in RingSteps
  BY DEF WaitsAt, RingSteps
<1>7. CASE locked
  <2>1. next = held
    BY <1>2, <1>4, <1>7 DEF Less
  <2> QED BY <1>2, <1>3, <1>5, <1>7, <2>1 DEF LockSound, Holding, Free, held, next
<1>8. CASE ~locked
  <2>1. next = {t}
    BY <1>2, <1>4, <1>5, <1>6, <1>8 DEF Gone
  <2> QED BY <1>2, <1>3, <2>1 DEF LockSound, Holding, Free, next
<1> QED BY <1>7, <1>8

\* A task that leaves the ring hands the lock to the first that waits for it, or
\* gives it up when none does.
LEMMA UnlockCalls ==
  ASSUME QueueInv, NEW t \in Tasks, NEW from \in Steps, NEW to \in Steps,
         Goes(t, from, to), from \in RingSteps, to \notin RingSteps, Unlock
  PROVE  /\ Moves(t, from, to, pc', waiters')
         /\ count' = count /\ locked' \in BOOLEAN /\ LockSound'
         /\ \A s \in Sems : waiters'[s] = waiters[s]
<1>1. /\ waiters \in [Lists -> Seq(Tasks)]
      /\ "lock" \in Lists /\ locked \in BOOLEAN
  BY DEF QueueInv, QueueTypeOK, Lists
<1> DEFINE held == Free(pc, waiters, "lock", RingSteps)
           next == Free(pc', waiters', "lock", RingSteps)
<1>2. /\ \A u, v \in held : u = v
      /\ locked <=> held # {}
  BY SlotsAre DEF QueueInv
<1>3. t \in held
  BY ListsOf DEF Free, Goes, Lists
<1>4. held = {t} /\ locked
  BY <1>2, <1>3
<1>5. CASE Handover("lock")
  <2>1. /\ waiters["lock"] # <<>> /\ waiters'["lock"] = Tail(waiters["lock"])
        /\ \A s \in Sems : waiters'[s] = waiters[s]
        /\ waiters' = [o \in Lists |-> waiters'[o]]
        /\ count' = count /\ locked' = locked
    BY <1>1, <1>5 DEF Handover, Lists, Sems
  <2>2. Moves(t, from, to, pc', waiters')
    BY <2>1 DEF Goes, Moves, ListMoves, Lists, Sems
  <2>3. PICK h \in Tasks \ (held \cup {t}) :
          /\ pc[h] \in WaitsAt("lock")
          /\ next = Gone(Gone(held, t, to, RingSteps), h, pc[h], RingSteps)
    BY <1>1, <2>1, <2>2, HoldersMove
  <2>4. next = {h}
    BY <1>4, <2>3 DEF Gone, WaitsAt, RingSteps
  <2>5. LockSound'
    BY <1>4, <2>1, <2>4 DEF LockSound, Holding, Free
  <2> QED BY <1>1, <2>1, <2>2, <2>5
<1>6. CASE waiters["lock"] = <<>> /\ locked' = FALSE /\ UNCHANGED <<count, waiters>>
  <2>1. Moves(t, from, to, pc', waiters')
    BY <1>1, <1>6 DEF Goes, Moves, ListMoves
  <2>2. next = Gone(held, t, to, RingSteps)
    BY <1>1, <1>6, <2>1, HoldersMove
  <2>3. next = {}
    BY <1>4, <2>2 DEF Gone
  <2>4. LockSound'
    BY <1>6, <2>3 DEF LockSound, Holding, Free
  <2> QED BY <1>6, <2>1, <2>4
<1> QED BY <1>5, <1>6 DEF Unlock

----------------------------------------------------------------------------
(* The steps of a task outside the ring, and into it and out of it         *)

\* What such a step keeps: the ring is as it was, and so are the accounts.
Quiet(t, from, to) ==
  /\ Moves(t, from, to, pc', waiters')
  /\ capacity # 0
  /\ UNCHANGED ringVars
  /\ arg' \in [Tasks -> Items \cup {NULL}]
  /\ got' \in [Tasks -> Items \cup {NULL}]
  /\ locked' \in BOOLEAN
  /\ count' \in [Sems -> Nat]
  /\ LocalsSound'
  /\ LockSound'
  /\ \A s \in Sems :
       /\ Account(count', pc', waiters', s) = Account(count, pc, waiters, s)
       /\ count'[s] = 0 \/ waiters'[s] = <<>>

LEMMA QuietKeeps ==
  ASSUME QueueInv, NEW t, NEW from, NEW to, Quiet(t, from, to)
  PROVE  QueueInv'
<1>1. ListsSound' /\ pc' \in [Tasks -> Steps] /\ waiters' \in [Lists -> Seq(Tasks)]
  BY ListsKept DEF Quiet
<1>2. QueueTypeOK'
  BY <1>1 DEF Quiet, QueueInv, QueueTypeOK, ringVars, Steps, Sems, Lists
<1>3. SlotsAre'
  BY SlotsAre, PTL
<1>4. SlotsAccounted'
  <2>1. /\ Account(count, pc, waiters, "space") + size = Capacity
        /\ Account(count, pc, waiters, "items") = size
        /\ size \in 0..Capacity
        /\ tail = (head + size) % Capacity
    BY SlotsAre DEF QueueInv, Quiet
  <2>2. /\ Account(count', pc', waiters', "space") + size' = Capacity
        /\ Account(count', pc', waiters', "items") = size'
        /\ size' \in 0..Capacity
        /\ tail' = (head' + size') % Capacity
        /\ \A s \in Sems : count'[s] = 0 \/ waiters'[s] = <<>>
    BY <2>1 DEF Quiet, ringVars, Sems
  <2> QED BY <1>2, <1>3, <2>2
<1>5. DestroyedIdle'
  BY DEF Quiet, ringVars, DestroyedIdle
<1> QED BY <1>1, <1>2, <1>4, <1>5 DEF QueueInv, Quiet

\* A step that leaves a semaphore alone, of a task that holds a permit of it before
\* as after.
LEMMA AccountStays ==
  ASSUME QueueInv, NEW t, NEW from, NEW to, Moves(t, from, to, pc', waiters'), NEW s \in Sems,
         waiters'[s] = waiters[s], count'[s] = count[s], capacity # 0,
         from \in HeldAt(s) <=> to \in HeldAt(s)
  PROVE  /\ Account(count', pc', waiters', s) = Account(count, pc, waiters, s)
         /\ count'[s] = 0 \/ waiters'[s] = <<>>
<1>1. count'[s] = 0 \/ waiters'[s] = <<>>
  BY DEF QueueInv, SlotsAccounted, Sems
<1>2. /\ Account(count, pc, waiters, s) \in Nat
      /\ Account(count', pc', waiters', s)
           = Account(count, pc, waiters, s) - One(from, HeldAt(s)) + One(to, HeldAt(s))
      /\ One(from, HeldAt(s)) = One(to, HeldAt(s)) /\ One(to, HeldAt(s)) \in {0, 1}
  BY AccountMoves DEF One
<1> QED BY <1>1, <1>2

\* A step that leaves the lock and its list alone, of a task that is in the ring
\* before as after.
LEMMA LockStays ==
  ASSUME QueueInv, NEW t, NEW from, NEW to, Moves(t, from, to, pc', waiters'),
         waiters'["lock"] = waiters["lock"], locked' = locked,
         from \in RingSteps <=> to \in RingSteps
  PROVE  locked' \in BOOLEAN /\ LockSound'
<1> DEFINE held == Free(pc, waiters, "lock", RingSteps)
           next == Free(pc', waiters', "lock", RingSteps)
<1>1. t \in held <=> from \in RingSteps
  BY HoldersMove DEF Lists
<1>2. next = Gone(held, t, to, RingSteps)
  BY HoldersMove DEF Lists
<1> HIDE DEF held, next
<1>3. next = held
  BY <1>1, <1>2 DEF Gone
<1>4. LockSound'
  BY <1>3 DEF QueueInv, LockSound, Holding, Free, held, next
<1> QED BY <1>4 DEF QueueInv, QueueTypeOK

\* Nobody who is about to take a step other than a first one finds the queue
\* destroyed.
LEMMA InUse ==
  ASSUME QueueInv, NEW t \in Tasks, pc[t] # "idle"
  PROVE  capacity # 0
BY DEF QueueInv, DestroyedIdle

\* The locals stay sound when those of one task do.
LEMMA LocalsKept ==
  ASSUME QueueInv, NEW t, NEW from, NEW to, Moves(t, from, to, pc', waiters'),
         arg' \in [Tasks -> Items \cup {NULL}], got' \in [Tasks -> Items \cup {NULL}],
         \A u \in Tasks \ {t} : arg'[u] = arg[u] /\ got'[u] = got[u],
         to \in PushSteps => arg'[t] \in Items,
         to \notin {"pop_unlock", "pop_signal"} => got'[t] = NULL
  PROVE  LocalsSound'
<1>1. pc'[t] = to /\ \A u \in Tasks \ {t} : pc'[u] = pc[u]
  BY ListsKept
<1> QED BY <1>1 DEF QueueInv, LocalsSound

LEMMA PushCallKeeps ==
  ASSUME QueueInv, NEW t \in Producers, NEW x \in Items, PushCall(t, x)
  PROVE  QueueInv'
<1> DEFINE from == "idle"
           to == "push_wait"
<1>1. /\ t \in Tasks /\ from \in Steps /\ to \in Steps
      /\ waiters \in [Lists -> Seq(Tasks)]
  BY DEF Tasks, Steps, PushSteps, QueueInv, QueueTypeOK, Lists
<1>2. Moves(t, from, to, pc', waiters')
  BY <1>1 DEF PushCall, Goes, syncVars, Moves, ListMoves
<1>3. /\ arg' \in [Tasks -> Items \cup {NULL}]
      /\ got' \in [Tasks -> Items \cup {NULL}]
      /\ arg'[t] = x /\ \A u \in Tasks \ {t} : arg'[u] = arg[u]
      /\ got' = got /\ got[t] = NULL
  BY <1>1 DEF PushCall, Goes, QueueInv, QueueTypeOK, LocalsSound
<1>4. LocalsSound'
  BY <1>2, <1>3, LocalsKept
<1>5. locked' \in BOOLEAN /\ LockSound'
  BY <1>2, LockStays DEF PushCall, syncVars, RingSteps
<1>6. ASSUME NEW s \in Sems
      PROVE  /\ Account(count', pc', waiters', s) = Account(count, pc, waiters, s)
             /\ count'[s] = 0 \/ waiters'[s] = <<>>
  BY <1>2, AccountStays DEF PushCall, syncVars, HeldAt, TakenAt, MadeAt, Sems
<1>7. count' \in [Sems -> Nat]
  BY DEF PushCall, syncVars, QueueInv, QueueTypeOK, Sems
<1>8. Quiet(t, from, to)
  BY <1>2, <1>3, <1>4, <1>5, <1>6, <1>7 DEF Quiet, PushCall
<1> QED BY <1>8, QuietKeeps

\* What a step asks of its two places when it leaves the locals alone.
SameLocals(from, to) ==
  /\ to \in PushSteps => from \in PushSteps
  /\ to \notin {"pop_unlock", "pop_signal"} => from \notin {"pop_unlock", "pop_signal"}

LEMMA SameLocalsKept ==
  ASSUME QueueInv, NEW t, NEW from, NEW to, Moves(t, from, to, pc', waiters'),
         SameLocals(from, to), arg' = arg, got' = got
  PROVE  /\ arg' \in [Tasks -> Items \cup {NULL}]
         /\ got' \in [Tasks -> Items \cup {NULL}]
         /\ LocalsSound'
<1>1. t \in Tasks /\ pc[t] = from
  BY DEF Moves
<1>2. /\ arg' \in [Tasks -> Items \cup {NULL}]
      /\ got' \in [Tasks -> Items \cup {NULL}]
  BY DEF QueueInv, QueueTypeOK
<1>3. /\ to \in PushSteps => arg'[t] \in Items
      /\ to \notin {"pop_unlock", "pop_signal"} => got'[t] = NULL
      /\ \A u \in Tasks \ {t} : arg'[u] = arg[u] /\ got'[u] = got[u]
  BY <1>1 DEF SameLocals, QueueInv, LocalsSound
<1> QED BY <1>2, <1>3, LocalsKept

\* PushWait and PopWait.
LEMMA WaitKeeps ==
  ASSUME QueueInv, capacity # 0, NEW t \in Tasks, NEW from \in Steps, NEW to \in Steps,
         Goes(t, from, to), NEW s \in Sems, to \in WaitsAt(s), SemWait(t, s),
         from \notin HeldAt("space"), from \notin HeldAt("items"), SameLocals(from, to),
         UNCHANGED <<arg, got, ringVars>>
  PROVE  QueueInv'
<1>1. /\ Moves(t, from, to, pc', waiters')
      /\ count' \in [Sems -> Nat]
      /\ count'[s] = 0 \/ waiters'[s] = <<>>
      /\ locked' = locked
      /\ \A o \in Lists \ {s} : waiters'[o] = waiters[o]
      /\ \A r \in Sems \ {s} : count'[r] = count[r]
  BY WaitCalls, ZenonT(30)
<1>2. /\ s \in Lists /\ s # "lock" /\ "lock" \in Lists
      /\ from \notin HeldAt(s) /\ to \in TakenAt(s)
  BY StepsApart DEF Sems, Lists
<1>3. Account(count', pc', waiters', s) = Account(count, pc, waiters, s)
  BY <1>1, <1>2, WaitBalances, Zenon
<1>4. ASSUME NEW r \in Sems, r # s
      PROVE  /\ Account(count', pc', waiters', r) = Account(count, pc, waiters, r)
             /\ count'[r] = 0 \/ waiters'[r] = <<>>
  <2>1. from \notin HeldAt(r) /\ to \notin HeldAt(r) /\ r \in Lists \ {s}
    BY <1>4 DEF Sems, Lists, HeldAt, TakenAt, MadeAt, WaitsAt
  <2>2. waiters'[r] = waiters[r] /\ count'[r] = count[r]
    BY <1>1, <1>4, <2>1
  <2> QED BY <1>1, <2>1, <2>2, AccountStays
<1>5. locked' \in BOOLEAN /\ LockSound'
  <2>1. from \notin RingSteps /\ to \notin RingSteps
    BY DEF RingSteps, HeldAt, TakenAt, MadeAt, WaitsAt, Sems
  <2>2. waiters'["lock"] = waiters["lock"]
    BY <1>1, <1>2
  <2> QED BY <1>1, <2>1, <2>2, LockStays
<1>6. /\ arg' \in [Tasks -> Items \cup {NULL}]
      /\ got' \in [Tasks -> Items \cup {NULL}]
      /\ LocalsSound'
  BY <1>1, SameLocalsKept
<1>7. Quiet(t, from, to)
  BY <1>1, <1>3, <1>4, <1>5, <1>6 DEF Quiet
<1> QED BY <1>7, QuietKeeps

\* PushSignal and PopSignal.
LEMMA SignalKeeps ==
  ASSUME QueueInv, capacity # 0, NEW t \in Tasks, NEW from \in Steps, NEW to \in Steps,
         Goes(t, from, to), NEW s \in Sems, from \in MadeAt(s), from \notin RingSteps,
         to = "idle", SemSignal(s), UNCHANGED ringVars,
         arg' \in [Tasks -> Items \cup {NULL}], got' \in [Tasks -> Items \cup {NULL}],
         \A u \in Tasks \ {t} : arg'[u] = arg[u] /\ got'[u] = got[u],
         got'[t] = NULL
  PROVE  QueueInv'
<1>1. /\ Moves(t, from, to, pc', waiters')
      /\ count' \in [Sems -> Nat]
      /\ count'[s] = 0 \/ waiters'[s] = <<>>
      /\ locked' = locked
      /\ \A o \in Lists \ {s} : waiters'[o] = waiters[o]
      /\ \A r \in Sems \ {s} : count'[r] = count[r]
  BY SignalCalls, Zenon
<1>2. s \in Lists /\ s # "lock" /\ "lock" \in Lists
  BY DEF Sems, Lists
<1>3. Account(count', pc', waiters', s) = Account(count, pc, waiters, s)
  BY <1>1, <1>2, SignalBalances, Zenon
<1>4. ASSUME NEW r \in Sems, r # s
      PROVE  /\ Account(count', pc', waiters', r) = Account(count, pc, waiters, r)
             /\ count'[r] = 0 \/ waiters'[r] = <<>>
  <2>1. from \notin HeldAt(r) /\ to \notin HeldAt(r) /\ r \in Lists \ {s}
    BY <1>4 DEF Sems, Lists, HeldAt, TakenAt, MadeAt
  <2>2. waiters'[r] = waiters[r] /\ count'[r] = count[r]
    BY <1>1, <1>4, <2>1
  <2> QED BY <1>1, <2>1, <2>2, AccountStays
<1>5. locked' \in BOOLEAN /\ LockSound'
  <2>1. to \notin RingSteps
    BY DEF RingSteps
  <2>2. waiters'["lock"] = waiters["lock"]
    BY <1>1, <1>2
  <2> QED BY <1>1, <2>1, <2>2, LockStays
<1>6. LocalsSound'
  <2>1. to \notin PushSteps
    BY DEF PushSteps
  <2> QED BY <1>1, <2>1, LocalsKept
<1>7. Quiet(t, from, to)
  BY <1>1, <1>3, <1>4, <1>5, <1>6 DEF Quiet
<1> QED BY <1>7, QuietKeeps

\* PushLock and PopLock; PushUnlock and PopUnlock.
LEMMA LockKeeps ==
  ASSUME QueueInv, capacity # 0, NEW t \in Tasks, NEW from \in Steps, NEW to \in Steps,
         Goes(t, from, to), SameLocals(from, to), UNCHANGED <<arg, got, ringVars>>,
         \A s \in Sems : from \in HeldAt(s) <=> to \in HeldAt(s),
         \/ from \notin RingSteps /\ to \in WaitsAt("lock") /\ Lock(t)
         \/ from \in RingSteps /\ to \notin RingSteps /\ Unlock
  PROVE  QueueInv'
<1>1. /\ Moves(t, from, to, pc', waiters')
      /\ count' = count /\ locked' \in BOOLEAN /\ LockSound'
      /\ \A s \in Sems : waiters'[s] = waiters[s]
  <2>1. CASE from \notin RingSteps /\ to \in WaitsAt("lock") /\ Lock(t)
    BY <2>1, LockCalls, Zenon
  <2>2. CASE from \in RingSteps /\ to \notin RingSteps /\ Unlock
    BY <2>2, UnlockCalls, Zenon
  <2> QED BY <2>1, <2>2
<1>2. ASSUME NEW s \in Sems
      PROVE  /\ Account(count', pc', waiters', s) = Account(count, pc, waiters, s)
             /\ count'[s] = 0 \/ waiters'[s] = <<>>
  BY <1>1, AccountStays
<1>3. /\ arg' \in [Tasks -> Items \cup {NULL}]
      /\ got' \in [Tasks -> Items \cup {NULL}]
      /\ LocalsSound'
  BY <1>1, SameLocalsKept
<1>4. count' \in [Sems -> Nat]
  BY <1>1 DEF QueueInv, QueueTypeOK, Sems
<1>5. Quiet(t, from, to)
  BY <1>1, <1>2, <1>3, <1>4 DEF Quiet
<1> QED BY <1>5, QuietKeeps

----------------------------------------------------------------------------
(* The ring                                                                *)

\* The index after i is i + 1 modulo the size of the buffer.
LEMMA AdvanceWraps ==
  ASSUME QueueInv, capacity # 0, NEW i \in 0..Capacity - 1
  PROVE  Advance(i) \in 0..Capacity - 1 /\ Advance(i) = (i + 1) % Capacity
<1>1. capacity = Capacity /\ Capacity \in Nat \ {0}
  BY QueueAssumption DEF QueueInv, QueueTypeOK
<1>2. i + 1 = Capacity => (i + 1) % Capacity = 0
  BY <1>1
<1>3. i + 1 # Capacity => (i + 1) % Capacity = i + 1
  BY <1>1
<1> QED BY <1>1, <1>2, <1>3 DEF Advance

\* Indices in a ring of c slots.
LEMMA Wrapped ==
  ASSUME NEW c \in Nat \ {0}, NEW x \in 0..2 * c - 1
  PROVE  x % c = IF x < c THEN x ELSE x - c
OBVIOUS

\* A slot further round the ring.
LEMMA NextWraps ==
  ASSUME NEW c \in Nat \ {0}, NEW h \in 0..c - 1, NEW n \in 0..c - 1
  PROVE  /\ (h + n) % c \in 0..c - 1
         /\ (((h + n) % c) + 1) % c = (h + (n + 1)) % c
         /\ (((h + 1) % c) + n) % c = (h + (n + 1)) % c
<1>0. h + n \in 0..2 * c - 1 /\ h + (n + 1) \in 0..2 * c - 1 /\ h + 1 \in 0..2 * c - 1
  OBVIOUS
<1>4. ASSUME NEW x \in 0..2 * c - 1 PROVE x % c = IF x < c THEN x ELSE x - c
  BY Wrapped, Zenon
<1>1. (h + n) % c = IF h + n < c THEN h + n ELSE h + n - c
  BY <1>0, <1>4
<1>2. (h + (n + 1)) % c = IF h + (n + 1) < c THEN h + (n + 1) ELSE h + (n + 1) - c
  BY <1>0, <1>4
<1>3. (h + 1) % c = IF h + 1 < c THEN h + 1 ELSE h + 1 - c
  BY <1>0, <1>4
<1>5. (((h + n) % c) + 1) % c = (h + (n + 1)) % c
  <2>1. ((h + n) % c) + 1 \in 0..2 * c - 1
    BY <1>1
  <2> QED BY <1>1, <1>2, <2>1, <1>4
<1>6. (((h + 1) % c) + n) % c = (h + (n + 1)) % c
  <2>1. ((h + 1) % c) + n \in 0..2 * c - 1
    BY <1>3
  <2> QED BY <1>2, <1>3, <2>1, <1>4
<1> QED BY <1>1, <1>5, <1>6

\* A step in the ring: the task gives up a slot of one account, and adds one to the
\* other.
LEMMA RingMoves ==
  ASSUME QueueInv, NEW t \in Tasks, NEW from \in Steps, NEW to \in Steps,
         Goes(t, from, to), from \in RingSteps, to \in RingSteps, UNCHANGED syncVars
  PROVE  /\ capacity = Capacity /\ capacity # 0
         /\ Moves(t, from, to, pc', waiters')
         /\ LockSound'
         /\ \A s \in Sems :
              /\ Account(count, pc, waiters, s) \in Nat
              /\ from \in HeldAt(s) => Account(count, pc, waiters, s) > 0
              /\ Account(count', pc', waiters', s) =
                   Account(count, pc, waiters, s) - One(from, HeldAt(s)) + One(to, HeldAt(s))
         /\ Account(count, pc, waiters, "space") + size = Capacity
         /\ Account(count, pc, waiters, "items") = size
         /\ size \in 0..Capacity
         /\ tail = (head + size) % Capacity
         /\ \A s \in Sems : count'[s] = 0 \/ waiters'[s] = <<>>
<1>1. waiters \in [Lists -> Seq(Tasks)] /\ UNCHANGED <<count, waiters, locked>>
  BY DEF QueueInv, QueueTypeOK, Lists, syncVars
<1>2. Moves(t, from, to, pc', waiters')
  BY <1>1 DEF Goes, Moves, ListMoves
<1>3. capacity = Capacity /\ capacity # 0
  BY InUse DEF Goes, RingSteps, QueueInv, QueueTypeOK
<1>4. LockSound'
  BY <1>1, <1>2, LockStays
<1>5. ASSUME NEW s \in Sems
      PROVE  /\ Account(count, pc, waiters, s) \in Nat
             /\ from \in HeldAt(s) => Account(count, pc, waiters, s) > 0
             /\ Account(count', pc', waiters', s) =
                  Account(count, pc, waiters, s) - One(from, HeldAt(s)) + One(to, HeldAt(s))
  BY <1>1, <1>2, AccountMoves
<1>6. /\ Account(count, pc, waiters, "space") + size = Capacity
      /\ Account(count, pc, waiters, "items") = size
      /\ size \in 0..Capacity
      /\ tail = (head + size) % Capacity
      /\ \A s \in Sems : count[s] = 0 \/ waiters[s] = <<>>
  BY <1>3, SlotsAre DEF QueueInv
<1> QED BY <1>1, <1>2, <1>3, <1>4, <1>5, <1>6

LEMMA PushStoreKeeps ==
  ASSUME QueueInv, NEW t \in Producers, PushStore(t)
  PROVE  QueueInv' /\ size < Capacity /\ arg[t] \in Items
<1> DEFINE from == "push_store"
           to == "push_unlock"
<1>1. /\ t \in Tasks /\ from \in Steps /\ to \in Steps
      /\ from \in RingSteps /\ to \in RingSteps
      /\ from \in HeldAt("space") /\ to \notin HeldAt("space")
      /\ from \notin HeldAt("items") /\ to \in HeldAt("items")
      /\ "space" \in Sems /\ "items" \in Sems
      /\ Goes(t, from, to) /\ UNCHANGED syncVars
  BY DEF Tasks, Steps, PushSteps, RingSteps, HeldAt, TakenAt, MadeAt, Sems, PushStore
<1> HIDE DEF from, to
<1>2. /\ capacity = Capacity /\ capacity # 0
      /\ Moves(t, from, to, pc', waiters')
      /\ LockSound'
      /\ \A s \in Sems :
           /\ Account(count, pc, waiters, s) \in Nat
           /\ from \in HeldAt(s) => Account(count, pc, waiters, s) > 0
           /\ Account(count', pc', waiters', s) =
                Account(count, pc, waiters, s) - One(from, HeldAt(s)) + One(to, HeldAt(s))
      /\ Account(count, pc, waiters, "space") + size = Capacity
      /\ Account(count, pc, waiters, "items") = size
      /\ size \in 0..Capacity
      /\ tail = (head + size) % Capacity
      /\ \A s \in Sems : count'[s] = 0 \/ waiters'[s] = <<>>
  BY <1>1, RingMoves, Zenon
<1>3. /\ Account(count', pc', waiters', "space") = Account(count, pc, waiters, "space") - 1
      /\ Account(count', pc', waiters', "items") = Account(count, pc, waiters, "items") + 1
      /\ Account(count, pc, waiters, "space") > 0
  BY <1>1, <1>2 DEF One
<1>4. arg[t] \in Items /\ got[t] = NULL
  BY <1>1 DEF Goes, QueueInv, LocalsSound, PushSteps, from
<1>5. /\ pc' \in [Tasks -> Steps] /\ waiters' \in [Lists -> Seq(Tasks)] /\ ListsSound'
  BY <1>2, ListsKept
<1>6. /\ buffer' \in [0..Capacity - 1 -> Items \cup {NULL}]
      /\ tail' \in 0..Capacity - 1
      /\ tail' = (tail + 1) % Capacity
      /\ size' = size + 1 /\ head' = head /\ capacity' = capacity /\ arg' = arg /\ got' = got
      /\ size' \in Int /\ size < Capacity
  <2>1. tail \in 0..Capacity - 1 /\ buffer \in [0..Capacity - 1 -> Items \cup {NULL}]
    BY DEF QueueInv, QueueTypeOK
  <2>2. Advance(tail) \in 0..Capacity - 1 /\ Advance(tail) = (tail + 1) % Capacity
    BY <1>2, <2>1, AdvanceWraps
  <2>3. size < Capacity /\ size + 1 \in Int
    BY <1>1, <1>2, <1>3
  <2> QED BY <1>4, <2>1, <2>2, <2>3 DEF PushStore
<1>7. QueueTypeOK'
  BY <1>1, <1>5, <1>6 DEF QueueInv, QueueTypeOK, Steps, Lists, syncVars
<1>8. tail' = (head' + size') % Capacity /\ size' \in 0..Capacity
  <2>1. Capacity \in Nat \ {0} /\ head \in 0..Capacity - 1 /\ size \in 0..Capacity - 1
    BY QueueAssumption, <1>2, <1>6 DEF QueueInv, QueueTypeOK
  <2>2. (((head + size) % Capacity) + 1) % Capacity = (head + (size + 1)) % Capacity
    BY <2>1, NextWraps
  <2> QED BY <1>2, <1>6, <2>1, <2>2
<1>9. SlotsAccounted'
  <2>1. SlotsAre'
    BY SlotsAre, PTL
  <2>2. /\ Account(count', pc', waiters', "space") + size' = Capacity
        /\ Account(count', pc', waiters', "items") = size'
    BY <1>1, <1>2, <1>3, <1>6
  <2> QED BY <1>2, <1>7, <1>8, <2>1, <2>2
<1>10. LocalsSound'
  <2>1. SameLocals(from, to)
    BY DEF SameLocals, from, to, PushSteps
  <2> QED BY <1>2, <1>6, <2>1, SameLocalsKept
<1>11. DestroyedIdle'
  BY <1>2, <1>6 DEF DestroyedIdle
<1> QED BY <1>2, <1>4, <1>5, <1>6, <1>7, <1>9, <1>10, <1>11 DEF QueueInv

LEMMA PopLoadKeeps ==
  ASSUME QueueInv, NEW t \in Consumers, PopLoad(t)
  PROVE  QueueInv' /\ size > 0 /\ got[t] = NULL
<1> DEFINE from == "pop_load"
           to == "pop_unlock"
<1>1. /\ t \in Tasks /\ from \in Steps /\ to \in Steps
      /\ from \in RingSteps /\ to \in RingSteps
      /\ from \in HeldAt("items") /\ to \notin HeldAt("items")
      /\ from \notin HeldAt("space") /\ to \in HeldAt("space")
      /\ "items" \in Sems /\ "space" \in Sems
      /\ Goes(t, from, to) /\ UNCHANGED syncVars
  BY DEF Tasks, Steps, PopSteps, RingSteps, HeldAt, TakenAt, MadeAt, Sems, PopLoad
<1> HIDE DEF from, to
<1>2. /\ capacity = Capacity /\ capacity # 0
      /\ Moves(t, from, to, pc', waiters')
      /\ LockSound'
      /\ \A s \in Sems :
           /\ Account(count, pc, waiters, s) \in Nat
           /\ from \in HeldAt(s) => Account(count, pc, waiters, s) > 0
           /\ Account(count', pc', waiters', s) =
                Account(count, pc, waiters, s) - One(from, HeldAt(s)) + One(to, HeldAt(s))
      /\ Account(count, pc, waiters, "space") + size = Capacity
      /\ Account(count, pc, waiters, "items") = size
      /\ size \in 0..Capacity
      /\ tail = (head + size) % Capacity
      /\ \A s \in Sems : count'[s] = 0 \/ waiters'[s] = <<>>
  BY <1>1, RingMoves, Zenon
<1>3. /\ Account(count', pc', waiters', "items") = Account(count, pc, waiters, "items") - 1
      /\ Account(count', pc', waiters', "space") = Account(count, pc, waiters, "space") + 1
      /\ Account(count, pc, waiters, "items") > 0
  BY <1>1, <1>2 DEF One
<1>4. got[t] = NULL
  BY <1>1 DEF Goes, QueueInv, LocalsSound, from
<1>5. /\ pc' \in [Tasks -> Steps] /\ waiters' \in [Lists -> Seq(Tasks)] /\ ListsSound'
  BY <1>2, ListsKept
<1>6. /\ got' \in [Tasks -> Items \cup {NULL}]
      /\ \A u \in Tasks \ {t} : got'[u] = got[u]
      /\ head' \in 0..Capacity - 1
      /\ head' = (head + 1) % Capacity
      /\ size' = size - 1 /\ size' \in Int /\ size > 0
      /\ buffer' = buffer /\ tail' = tail /\ capacity' = capacity /\ arg' = arg
  <2>1. /\ head \in 0..Capacity - 1 /\ buffer \in [0..Capacity - 1 -> Items \cup {NULL}]
        /\ got \in [Tasks -> Items \cup {NULL}]
    BY DEF QueueInv, QueueTypeOK
  <2>2. Advance(head) \in 0..Capacity - 1 /\ Advance(head) = (head + 1) % Capacity
    BY <1>2, <2>1, AdvanceWraps
  <2>3. size > 0 /\ size - 1 \in Int
    BY <1>1, <1>2, <1>3
  <2> QED BY <2>1, <2>2, <2>3 DEF PopLoad
<1>7. QueueTypeOK'
  BY <1>1, <1>5, <1>6 DEF QueueInv, QueueTypeOK, Steps, Lists, syncVars
<1>8. tail' = (head' + size') % Capacity /\ size' \in 0..Capacity
  <2>1. Capacity \in Nat \ {0} /\ head \in 0..Capacity - 1 /\ size' \in 0..Capacity - 1
    BY QueueAssumption, <1>2, <1>6 DEF QueueInv, QueueTypeOK
  <2>2. (((head + 1) % Capacity) + size') % Capacity = (head + (size' + 1)) % Capacity
    BY <2>1, NextWraps
  <2>3. size' + 1 = size
    BY <1>2, <1>6
  <2> QED BY <1>2, <1>6, <2>1, <2>2, <2>3, SMTT(30)
<1>9. SlotsAccounted'
  <2>1. SlotsAre'
    BY SlotsAre, PTL
  <2>2. /\ Account(count', pc', waiters', "space") + size' = Capacity
        /\ Account(count', pc', waiters', "items") = size'
    BY <1>1, <1>2, <1>3, <1>6
  <2> QED BY <1>2, <1>7, <1>8, <2>1, <2>2
<1>10. LocalsSound'
  <2>1. arg' \in [Tasks -> Items \cup {NULL}] /\ \A u \in Tasks \ {t} : arg'[u] = arg[u]
    BY <1>6 DEF QueueInv, QueueTypeOK
  <2>2. to \notin PushSteps /\ to \in {"pop_unlock", "pop_signal"}
    BY DEF PushSteps, to
  <2> QED BY <1>2, <1>6, <2>1, <2>2, LocalsKept
<1>11. DestroyedIdle'
  BY <1>2, <1>6 DEF DestroyedIdle
<1> QED BY <1>2, <1>4, <1>5, <1>6, <1>7, <1>9, <1>10, <1>11 DEF QueueInv

----------------------------------------------------------------------------
(* queue_destroy and queue_init                                            *)

LEMMA QueueDestroyKeeps ==
  ASSUME QueueInv, QueueDestroy
  PROVE  QueueInv'
<1>1. /\ UNCHANGED <<pc, arg, got, size, count, locked, waiters>>
      /\ capacity' = 0 /\ head' = 0 /\ tail' = 0 /\ buffer' = Empty
      /\ \A t \in Tasks : pc[t] = "idle"
  BY DEF QueueDestroy, syncVars
<1>2. Capacity \in Nat \ {0}
  BY QueueAssumption
<1>3. QueueTypeOK'
  BY <1>1, <1>2 DEF QueueInv, QueueTypeOK, Empty
<1>4. ListsSound' /\ LocalsSound' /\ LockSound'
  BY <1>1 DEF QueueInv, ListsSound, LocalsSound, LockSound, Holding
<1> QED BY <1>1, <1>3, <1>4 DEF QueueInv, DestroyedIdle, SlotsAccounted

\* A queue just made is sound when nobody uses it: both accounts are the counts.
LEMMA MadeSound ==
  ASSUME QueueTypeOK, \A t \in Tasks : pc[t] = "idle" /\ got[t] = NULL,
         head = 0, tail = 0, size = 0, count = Permits, locked = FALSE, waiters = Nobody
  PROVE  QueueInv
<1>1. Capacity \in Nat \ {0}
  BY QueueAssumption
<1>2. \A o \in Lists : waiters[o] = <<>> /\ ToSet(waiters[o]) = {}
  BY DEF Nobody, Lists, ToSet
<1>3. ListsSound
  BY <1>2 DEF ListsSound, LinkedOnce
<1>4. LocalsSound
  BY DEF LocalsSound, PushSteps
<1>5. \A o : \A S : "idle" \notin S => Holding(o, S) = {}
  BY DEF Holding
<1>6. LockSound
  <2>1. "idle" \notin RingSteps
    BY DEF RingSteps
  <2> QED BY <1>2, <1>5, <2>1 DEF LockSound, Lists
<1>7. SlotsAccounted
  <2>1. /\ Cardinality(Holding("space", {"push_lock", "push_store"})) = 0
        /\ Cardinality(Holding("space", {"pop_unlock", "pop_signal"})) = 0
        /\ Cardinality(Holding("items", {"pop_lock", "pop_load"})) = 0
        /\ Cardinality(Holding("items", {"push_unlock", "push_signal"})) = 0
    BY <1>5, FS_EmptySet
  <2>2. count["space"] = Capacity /\ count["items"] = 0
    BY DEF Permits
  <2>3. (head + size) % Capacity = 0
    BY <1>1
  <2> QED BY <1>1, <1>2, <2>1, <2>2, <2>3 DEF SlotsAccounted, Lists
<1>8. DestroyedIdle
  BY DEF DestroyedIdle
<1> QED BY <1>3, <1>4, <1>6, <1>7, <1>8 DEF QueueInv

LEMMA QueueInitKeeps ==
  ASSUME QueueInv, QueueInit
  PROVE  QueueInv'
<1>1. Capacity \in Nat \ {0}
  BY QueueAssumption
<1>2. /\ \A t \in Tasks : pc'[t] = "idle" /\ got'[t] = NULL
      /\ head' = 0 /\ tail' = 0 /\ size' = 0
      /\ count' = Permits /\ locked' = FALSE /\ waiters' = Nobody
  BY DEF QueueInit, QueueInv, DestroyedIdle, LocalsSound
<1>3. QueueTypeOK'
  <2>1. waiters' \in [Lists -> Seq(Tasks)]
    BY <1>2 DEF Nobody, Lists
  <2>2. count' \in [Sems -> Nat]
    BY <1>1, <1>2 DEF Permits, Sems
  <2>3. size' \in Int /\ head' \in 0..Capacity - 1 /\ tail' \in 0..Capacity - 1
    BY <1>1, <1>2
  <2> QED BY <1>2, <2>1, <2>2, <2>3 DEF QueueInit, QueueInv, QueueTypeOK, Lists, Sems
<1>4. (QueueTypeOK /\ (\A t \in Tasks : pc[t] = "idle" /\ got[t] = NULL)
         /\ head = 0 /\ tail = 0 /\ size = 0 /\ count = Permits /\ locked = FALSE
         /\ waiters = Nobody => QueueInv)'
  BY MadeSound, PTL
<1> QED BY <1>2, <1>3, <1>4 DEF Permits, Nobody

----------------------------------------------------------------------------
(* Every step                                                              *)

LEMMA QueueInitially == Init => QueueInv
<1> SUFFICES ASSUME Init PROVE QueueInv
  OBVIOUS
<1>1. QueueTypeOK
  <2>1. Capacity \in Nat \ {0}
    BY QueueAssumption
  <2>2. waiters \in [Lists -> Seq(Tasks)]
    BY DEF Init, Nobody, Lists
  <2>3. count \in [Sems -> Nat]
    BY <2>1 DEF Init, Permits, Sems
  <2>4. head \in 0..Capacity - 1 /\ tail \in 0..Capacity - 1 /\ size \in Int
    BY <2>1 DEF Init
  <2>5. /\ pc \in [Tasks -> {"idle"} \cup PushSteps \cup PopSteps]
        /\ arg \in [Tasks -> Items \cup {NULL}] /\ got \in [Tasks -> Items \cup {NULL}]
        /\ buffer \in [0..Capacity - 1 -> Items \cup {NULL}]
        /\ capacity \in {0, Capacity} /\ locked \in BOOLEAN
    BY DEF Init, Empty
  <2> QED BY <2>2, <2>3, <2>4, <2>5 DEF QueueTypeOK, Lists, Sems
<1> QED BY <1>1, MadeSound DEF Init

LEMMA PushingKeeps ==
  ASSUME QueueInv, NEW t \in Producers, Pushing(t)
  PROVE  QueueInv'
<1>1. t \in Tasks /\ Sems = {"items", "space"}
  BY DEF Tasks, Sems
<1>2. /\ PushSteps \subseteq Steps /\ "idle" \in Steps
      /\ \A from \in PushSteps : from # "idle"
  BY DEF PushSteps, Steps
<1> USE DEF PushSteps
<1>3. CASE PushWait(t)
  <2>1. capacity # 0
    BY <1>1, <1>3, InUse DEF PushWait, Goes
  <2>2. Goes(t, "push_wait", "push_lock") /\ SemWait(t, "space") /\ UNCHANGED <<arg, got, ringVars>>
    BY <1>3 DEF PushWait
  <2>3. /\ "push_lock" \in WaitsAt("space") /\ SameLocals("push_wait", "push_lock")
        /\ "push_wait" \notin HeldAt("space") /\ "push_wait" \notin HeldAt("items")
        /\ "push_wait" \in Steps /\ "push_lock" \in Steps /\ "space" \in Sems
    BY <1>1, <1>2 DEF WaitsAt, SameLocals, HeldAt, TakenAt, MadeAt
  <2> QED BY <1>1, <2>1, <2>2, <2>3, WaitKeeps, Zenon
<1>4. CASE PushLock(t)
  <2>1. capacity # 0
    BY <1>1, <1>4, InUse DEF PushLock, Goes
  <2>2. Goes(t, "push_lock", "push_store") /\ Lock(t) /\ UNCHANGED <<arg, got, ringVars>>
    BY <1>4 DEF PushLock
  <2>3. /\ \A s \in Sems : "push_lock" \in HeldAt(s) <=> "push_store" \in HeldAt(s)
        /\ "push_lock" \notin RingSteps /\ "push_store" \in WaitsAt("lock")
        /\ SameLocals("push_lock", "push_store")
        /\ "push_lock" \in Steps /\ "push_store" \in Steps
    BY <1>1, <1>2 DEF WaitsAt, RingSteps, SameLocals, HeldAt, TakenAt, MadeAt
  <2> QED BY <1>1, <2>1, <2>2, <2>3, LockKeeps, Zenon
<1>5. CASE PushUnlock(t)
  <2>1. capacity # 0
    BY <1>1, <1>5, InUse DEF PushUnlock, Goes
  <2>2. Goes(t, "push_unlock", "push_signal") /\ Unlock /\ UNCHANGED <<arg, got, ringVars>>
    BY <1>5 DEF PushUnlock
  <2>3. /\ \A s \in Sems : "push_unlock" \in HeldAt(s) <=> "push_signal" \in HeldAt(s)
        /\ "push_unlock" \in RingSteps /\ "push_signal" \notin RingSteps
        /\ SameLocals("push_unlock", "push_signal")
        /\ "push_unlock" \in Steps /\ "push_signal" \in Steps
    BY <1>1, <1>2 DEF RingSteps, SameLocals, HeldAt, TakenAt, MadeAt
  <2> QED BY <1>1, <2>1, <2>2, <2>3, LockKeeps, Zenon
<1>6. CASE PushSignal(t)
  <2>1. capacity # 0
    BY <1>1, <1>6, InUse DEF PushSignal, Goes
  <2>2. Goes(t, "push_signal", "idle") /\ SemSignal("items") /\ UNCHANGED ringVars
    BY <1>6 DEF PushSignal
  <2>3. /\ "push_signal" \in MadeAt("items") /\ "push_signal" \notin RingSteps
        /\ "push_signal" \in Steps /\ "items" \in Sems
    BY <1>1, <1>2 DEF RingSteps, MadeAt
  <2>4. /\ arg' \in [Tasks -> Items \cup {NULL}] /\ got' \in [Tasks -> Items \cup {NULL}]
        /\ \A u \in Tasks \ {t} : arg'[u] = arg[u] /\ got'[u] = got[u]
        /\ got'[t] = NULL
    BY <1>1, <1>6 DEF PushSignal, Goes, QueueInv, QueueTypeOK, LocalsSound
  <2> QED BY <1>1, <1>2, <2>1, <2>2, <2>3, <2>4, SignalKeeps, Zenon
<1> QED BY <1>3, <1>4, <1>5, <1>6, PushStoreKeeps DEF Pushing

LEMMA PoppingKeeps ==
  ASSUME QueueInv, NEW t \in Consumers, Popping(t)
  PROVE  QueueInv'
<1>1. t \in Tasks /\ Sems = {"items", "space"}
  BY DEF Tasks, Sems
<1>2. /\ PopSteps \subseteq Steps /\ "idle" \in Steps
      /\ \A from \in PopSteps : from # "idle"
  BY DEF PopSteps, Steps
<1> USE DEF PopSteps
<1>3. CASE PopWait(t)
  <2>1. /\ Goes(t, "idle", "pop_lock") /\ SemWait(t, "items") /\ UNCHANGED <<arg, got, ringVars>>
        /\ capacity # 0
    BY <1>3 DEF PopWait
  <2>2. /\ "pop_lock" \in WaitsAt("items") /\ SameLocals("idle", "pop_lock")
        /\ "idle" \notin HeldAt("space") /\ "idle" \notin HeldAt("items")
        /\ "pop_lock" \in Steps /\ "items" \in Sems
    BY <1>1, <1>2 DEF WaitsAt, SameLocals, PushSteps, HeldAt, TakenAt, MadeAt
  <2> QED BY <1>1, <1>2, <2>1, <2>2, WaitKeeps, Zenon
<1>4. CASE PopLock(t)
  <2>1. capacity # 0
    BY <1>1, <1>4, InUse DEF PopLock, Goes
  <2>2. Goes(t, "pop_lock", "pop_load") /\ Lock(t) /\ UNCHANGED <<arg, got, ringVars>>
    BY <1>4 DEF PopLock
  <2>3. /\ \A s \in Sems : "pop_lock" \in HeldAt(s) <=> "pop_load" \in HeldAt(s)
        /\ "pop_lock" \notin RingSteps /\ "pop_load" \in WaitsAt("lock")
        /\ SameLocals("pop_lock", "pop_load")
        /\ "pop_lock" \in Steps /\ "pop_load" \in Steps
    BY <1>1, <1>2 DEF WaitsAt, RingSteps, SameLocals, PushSteps, HeldAt, TakenAt, MadeAt
  <2> QED BY <1>1, <2>1, <2>2, <2>3, LockKeeps, Zenon
<1>5. CASE PopUnlock(t)
  <2>1. capacity # 0
    BY <1>1, <1>5, InUse DEF PopUnlock, Goes
  <2>2. Goes(t, "pop_unlock", "pop_signal") /\ Unlock /\ UNCHANGED <<arg, got, ringVars>>
    BY <1>5 DEF PopUnlock
  <2>3. /\ \A s \in Sems : "pop_unlock" \in HeldAt(s) <=> "pop_signal" \in HeldAt(s)
        /\ "pop_unlock" \in RingSteps /\ "pop_signal" \notin RingSteps
        /\ SameLocals("pop_unlock", "pop_signal")
        /\ "pop_unlock" \in Steps /\ "pop_signal" \in Steps
    BY <1>1, <1>2 DEF RingSteps, SameLocals, PushSteps, HeldAt, TakenAt, MadeAt
  <2> QED BY <1>1, <2>1, <2>2, <2>3, LockKeeps, Zenon
<1>6. CASE PopSignal(t)
  <2>1. capacity # 0
    BY <1>1, <1>6, InUse DEF PopSignal, Goes
  <2>2. Goes(t, "pop_signal", "idle") /\ SemSignal("space") /\ UNCHANGED ringVars
    BY <1>6 DEF PopSignal
  <2>3. /\ "pop_signal" \in MadeAt("space") /\ "pop_signal" \notin RingSteps
        /\ "pop_signal" \in Steps /\ "space" \in Sems
    BY <1>1, <1>2 DEF RingSteps, MadeAt
  <2>4. /\ arg' \in [Tasks -> Items \cup {NULL}] /\ got' \in [Tasks -> Items \cup {NULL}]
        /\ \A u \in Tasks \ {t} : arg'[u] = arg[u] /\ got'[u] = got[u]
        /\ got'[t] = NULL
    BY <1>1, <1>6 DEF PopSignal, QueueInv, QueueTypeOK
  <2> QED BY <1>1, <1>2, <2>1, <2>2, <2>3, <2>4, SignalKeeps, Zenon
<1> QED BY <1>3, <1>4, <1>5, <1>6, PopLoadKeeps DEF Popping

\* The argument: every step of the queue keeps QueueInv.
THEOREM QueueInvariance == QueueSpec => []QueueInv
<1>1. Init => QueueInv
  BY QueueInitially
<1>2. QueueInv /\ [Next]_vars => QueueInv'
  <2> SUFFICES ASSUME QueueInv, [Next]_vars PROVE QueueInv'
    OBVIOUS
  <2>1. ASSUME NEW t \in Producers, NEW x \in Items, PushCall(t, x) PROVE QueueInv'
    BY <2>1, PushCallKeeps
  <2>2. ASSUME NEW t \in Producers, Pushing(t) PROVE QueueInv'
    BY <2>2, PushingKeeps
  <2>3. ASSUME NEW t \in Consumers, Popping(t) PROVE QueueInv'
    BY <2>3, PoppingKeeps
  <2>4. CASE QueueDestroy
    BY <2>4, QueueDestroyKeeps
  <2>5. CASE QueueInit
    BY <2>5, QueueInitKeeps
  <2>6. CASE UNCHANGED vars
    BY <2>6 DEF vars, ringVars, syncVars, QueueInv, QueueTypeOK, ListsSound, LocalsSound,
                LockSound, Holding, DestroyedIdle, SlotsAccounted
  <2> QED BY <2>1, <2>2, <2>3, <2>4, <2>5, <2>6 DEF Next
<1> QED BY <1>1, <1>2, PTL DEF QueueSpec

\* The ring is one task's at a time: of the tasks that have come back from
\* mutex_lock, none is in the ring with another (queue.c:43, :63).
THEOREM OneInRingHolds == QueueSpec => []OneInRing
<1>1. QueueInv => OneInRing
  <2> SUFFICES ASSUME QueueInv PROVE OneInRing
    OBVIOUS
  <2>1. InRing \subseteq Holding("lock", RingSteps)
    BY DEF InRing, At, Holding, Blocked, RingSteps
  <2> QED BY <2>1 DEF OneInRing, QueueInv, LockSound
<1> QED BY <1>1, QueueInvariance, PTL

\* No slot is lost and none counted twice, whoever is handed a permit.
THEOREM SlotsAreAccounted == QueueSpec => []SlotsAccounted
<1>1. QueueInv => SlotsAccounted
  BY DEF QueueInv
<1> QED BY <1>1, QueueInvariance, PTL

----------------------------------------------------------------------------
(* The queue implements a first-in first-out queue                         *)

\* The slots of the items, and the one after them, are apart.
LEMMA SlotsApart ==
  ASSUME NEW c \in Nat \ {0}, NEW h \in 0..c - 1, NEW n \in 0..c - 1, NEW i \in 1..n
  PROVE  (h + i - 1) % c # (h + n) % c /\ (h + i - 1) % c \in 0..c - 1
<1>1. ASSUME NEW x \in 0..2 * c - 1 PROVE x % c = IF x < c THEN x ELSE x - c
  BY Wrapped, Zenon
<1>2. h + i - 1 \in 0..2 * c - 1 /\ h + n \in 0..2 * c - 1
  OBVIOUS
<1>3. /\ (h + i - 1) % c = IF h + i - 1 < c THEN h + i - 1 ELSE h + i - 1 - c
      /\ (h + n) % c = IF h + n < c THEN h + n ELSE h + n - c
  BY <1>1, <1>2
<1> QED BY <1>3

\* The items as a sequence.
LEMMA ContentsAre ==
  ASSUME QueueInv, capacity # 0
  PROVE  /\ Contents = [i \in 1..size |-> buffer[(head + i - 1) % Capacity]]
         /\ Contents \in Seq(Items \cup {NULL}) /\ Len(Contents) = size
<1>1. size \in Nat /\ capacity = Capacity /\ Capacity \in Nat \ {0}
  BY QueueAssumption DEF QueueInv, QueueTypeOK, SlotsAccounted
<1>2. Contents = [i \in 1..size |-> buffer[(head + i - 1) % Capacity]]
  BY DEF Contents
<1>3. ASSUME NEW i \in 1..size PROVE buffer[(head + i - 1) % Capacity] \in Items \cup {NULL}
  <2>1. (head + i - 1) % Capacity \in 0..Capacity - 1
    BY <1>1 DEF QueueInv, QueueTypeOK
  <2> QED BY <2>1 DEF QueueInv, QueueTypeOK
<1> QED BY <1>1, <1>2, <1>3

\* What is stored comes last.
LEMMA StoreAppends ==
  ASSUME QueueInv, NEW t \in Producers, PushStore(t)
  PROVE  Fifo!Push(arg[t])
<1>1. capacity # 0 /\ capacity = Capacity
  BY InUse DEF PushStore, Goes, Tasks, QueueInv, QueueTypeOK
<1>2. QueueInv' /\ size < Capacity /\ capacity' = capacity
  BY PushStoreKeeps DEF PushStore
<1>3. /\ Contents = [i \in 1..size |-> buffer[(head + i - 1) % Capacity]]
      /\ Contents \in Seq(Items \cup {NULL}) /\ Len(Contents) = size
  BY <1>1, ContentsAre
<1>4. Contents' = [i \in 1..size + 1 |-> buffer'[(head + i - 1) % Capacity]]
  BY <1>1, <1>2 DEF Contents, PushStore
<1>5. /\ Capacity \in Nat \ {0} /\ head \in 0..Capacity - 1 /\ size \in 0..Capacity - 1
      /\ tail = (head + size) % Capacity /\ tail \in 0..Capacity - 1
      /\ buffer \in [0..Capacity - 1 -> Items \cup {NULL}]
      /\ buffer' = [buffer EXCEPT ![tail] = arg[t]]
  BY <1>1, <1>2, QueueAssumption DEF QueueInv, QueueTypeOK, SlotsAccounted, PushStore
<1>6. ASSUME NEW i \in 1..size
      PROVE  buffer'[(head + i - 1) % Capacity] = buffer[(head + i - 1) % Capacity]
  <2>1. (head + i - 1) % Capacity # tail /\ (head + i - 1) % Capacity \in 0..Capacity - 1
    BY <1>5, SlotsApart
  <2> QED BY <1>5, <2>1
<1>7. buffer'[(head + (size + 1) - 1) % Capacity] = arg[t]
  <2>1. head + (size + 1) - 1 = head + size
    BY <1>5
  <2> QED BY <1>5, <2>1
<1>8. Contents' = Append(Contents, arg[t])
  <2>1. \A i \in 1..size + 1 : i \in 1..size \/ i = size + 1
    BY <1>5
  <2>2. Append(Contents, arg[t]) = [i \in 1..size + 1 |-> IF i = size + 1 THEN arg[t] ELSE Contents[i]]
    BY <1>3, <1>5
  <2>3. ASSUME NEW i \in 1..size + 1
        PROVE  buffer'[(head + i - 1) % Capacity] = IF i = size + 1 THEN arg[t] ELSE Contents[i]
    <3>1. CASE i = size + 1
      BY <1>7, <3>1
    <3>2. CASE i # size + 1
      <4>1. i \in 1..size
        BY <2>1, <3>2
      <4>2. Contents[i] = buffer[(head + i - 1) % Capacity]
        BY <1>3, <4>1
      <4> QED BY <1>6, <3>2, <4>1, <4>2
    <3> QED BY <3>1, <3>2
  <2> QED BY <1>4, <2>2, <2>3
<1> QED BY <1>2, <1>3, <1>8 DEF Fifo!Push, PushStore

\* What is loaded is the oldest.
LEMMA LoadTakesFirst ==
  ASSUME QueueInv, NEW t \in Consumers, PopLoad(t)
  PROVE  Fifo!Pop(t)
<1>1. capacity # 0 /\ capacity = Capacity
  BY InUse DEF PopLoad, Goes, Tasks, QueueInv, QueueTypeOK
<1>2. QueueInv' /\ size > 0 /\ got[t] = NULL /\ capacity' = capacity
  BY PopLoadKeeps DEF PopLoad
<1>3. /\ Contents = [i \in 1..size |-> buffer[(head + i - 1) % Capacity]]
      /\ Contents \in Seq(Items \cup {NULL}) /\ Len(Contents) = size
  BY <1>1, ContentsAre
<1>4. /\ Capacity \in Nat \ {0} /\ head \in 0..Capacity - 1 /\ size \in 1..Capacity
      /\ head' = (head + 1) % Capacity
  <2>1. head \in 0..Capacity - 1 /\ Capacity \in Nat \ {0} /\ size \in 1..Capacity
    BY <1>1, <1>2, QueueAssumption DEF QueueInv, QueueTypeOK, SlotsAccounted
  <2>2. Advance(head) = (head + 1) % Capacity
    BY <1>1, <2>1, AdvanceWraps
  <2> QED BY <2>1, <2>2 DEF PopLoad
<1>5. Contents' = [i \in 1..size - 1 |-> buffer[(head' + i - 1) % Capacity]]
  BY <1>1, <1>2 DEF Contents, PopLoad
<1>6. ASSUME NEW i \in 1..size - 1
      PROVE  (head' + i - 1) % Capacity = (head + (i + 1) - 1) % Capacity
  <2>1. i - 1 \in 0..Capacity - 1
    BY <1>4
  <2>2. (((head + 1) % Capacity) + (i - 1)) % Capacity = (head + ((i - 1) + 1)) % Capacity
    BY <1>4, <2>1, NextWraps
  <2>3. /\ (head + 1) % Capacity \in Int
        /\ ((head + 1) % Capacity) + (i - 1) = ((head + 1) % Capacity) + i - 1
        /\ head + ((i - 1) + 1) = head + (i + 1) - 1
    BY <1>4
  <2> QED BY <1>4, <2>2, <2>3
<1>7. Contents' = Tail(Contents)
  <2>1. Tail(Contents) = [i \in 1..size - 1 |-> Contents[i + 1]]
    BY <1>3, <1>4
  <2>2. \A i \in 1..size - 1 : i + 1 \in 1..size
    BY <1>4
  <2> QED BY <1>3, <1>5, <1>6, <2>1, <2>2
<1>8. Contents # <<>> /\ Head(Contents) = buffer[head]
  <2>1. (head + 1 - 1) % Capacity = head
    BY <1>4
  <2> QED BY <1>3, <1>4, <2>1, SMTT(30)
<1> QED BY <1>2, <1>7, <1>8 DEF Fifo!Pop, PopLoad

\* Every step of the queue is one of the first-in first-out queue's, or none.
LEMMA QueueStepImplements ==
  ASSUME QueueInv, [Next]_vars
  PROVE  [Fifo!Next]_(Fifo!fifoVars)
<1>1. ASSUME UNCHANGED <<got, ringVars>> PROVE UNCHANGED Fifo!fifoVars
  BY <1>1 DEF ringVars, Contents, Fifo!fifoVars
<1>2. ASSUME NEW t \in Producers, NEW x \in Items, PushCall(t, x) PROVE UNCHANGED Fifo!fifoVars
  BY <1>1, <1>2 DEF PushCall
<1>3. ASSUME NEW t \in Producers, Pushing(t) PROVE [Fifo!Next]_(Fifo!fifoVars)
  <2>1. CASE PushStore(t)
    <3>1. arg[t] \in Items /\ Fifo!Push(arg[t])
      BY <2>1, PushStoreKeeps, StoreAppends
    <3> QED BY <3>1 DEF Fifo!Next
  <2>2. CASE PushWait(t) \/ PushLock(t) \/ PushUnlock(t) \/ PushSignal(t)
    BY <1>1, <2>2 DEF PushWait, PushLock, PushUnlock, PushSignal
  <2> QED BY <1>3, <2>1, <2>2 DEF Pushing
<1>4. ASSUME NEW t \in Consumers, Popping(t) PROVE [Fifo!Next]_(Fifo!fifoVars)
  <2>0. t \in Tasks
    BY DEF Tasks
  <2>1. CASE PopLoad(t)
    BY <2>0, <2>1, LoadTakesFirst DEF Fifo!Next
  <2>2. CASE PopWait(t) \/ PopLock(t) \/ PopUnlock(t)
    BY <1>1, <2>2 DEF PopWait, PopLock, PopUnlock
  <2>3. CASE PopSignal(t)
    <3>1. UNCHANGED ringVars /\ got' = [got EXCEPT ![t] = NULL] /\ UNCHANGED Contents
      BY <2>3 DEF PopSignal, ringVars, Contents
    <3>2. CASE got[t] = NULL
      <4>1. got' = got
        BY <2>0, <3>1, <3>2 DEF QueueInv, QueueTypeOK
      <4> QED BY <1>1, <3>1, <4>1
    <3>3. CASE got[t] # NULL
      BY <2>0, <3>1, <3>3 DEF Fifo!Next, Fifo!Return
    <3> QED BY <3>2, <3>3
  <2> QED BY <1>4, <2>1, <2>2, <2>3 DEF Popping
<1>5. CASE QueueDestroy
  <2>1. Contents' = <<>> /\ got' = got
    BY <1>5 DEF QueueDestroy, Contents
  <2> QED BY <2>1 DEF Fifo!Next, Fifo!Discard
<1>6. CASE QueueInit
  <2>1. Capacity # 0
    BY QueueAssumption
  <2>2. Contents' = Contents /\ got' = got
    BY <1>6, <2>1 DEF QueueInit, Contents
  <2> QED BY <2>2 DEF Fifo!fifoVars
<1>7. CASE UNCHANGED vars
  BY <1>1, <1>7 DEF vars
<1> QED BY <1>2, <1>3, <1>4, <1>5, <1>6, <1>7 DEF Next

\* The queue is a first-in first-out queue of at most Capacity items.
THEOREM QueueImplementsFifo == QueueSpec => ImplementsFifo
<1>1. Init => Fifo!Init
  <2> SUFFICES ASSUME Init PROVE Fifo!Init
    OBVIOUS
  <2>1. Contents = <<>>
    BY DEF Init, Contents
  <2> QED BY <2>1 DEF Init, Fifo!Init
<1>2. QueueInv /\ [Next]_vars => [Fifo!Next]_(Fifo!fifoVars)
  BY QueueStepImplements
<1> QED BY <1>1, <1>2, QueueInvariance, PTL DEF QueueSpec, ImplementsFifo, Fifo!FifoSpec
=============================================================================
