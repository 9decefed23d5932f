------------------------- MODULE PkCacheTasksProofs -------------------------
(***************************************************************************)
(* The list of pk_rsa.c and pk_ec.c is sound when callers let one call end *)
(* before another begins: no walk touches an entry that was freed or goes  *)
(* in a circle, nothing leaks, and a pointer stays cached until its pk     *)
(* context is freed, for any number of tasks, pk contexts and addresses.   *)
(***************************************************************************)
EXTENDS PkCacheTasks, FiniteSetTheorems, TLAPS

\* The entries that were not freed, in the list or not.
Allocated == {e \in Cell : mem[e] # Free}

\* A set of cells that holds c and, with an entry, the next one.
ClosedFrom(c, S) ==
  /\ c # Null => c \in S
  /\ \A e \in S : mem[e] # Free /\ mem[e].next # Null => mem[e].next \in S

\* The entries that a walk from the head visits are a list: each has one
\* predecessor at most, and the head has none.
ListOK ==
  /\ Linked \subseteq Allocated
  /\ \A e \in Linked : mem[e].next # head
  /\ \A e, d \in Linked : mem[e].next = mem[d].next /\ mem[e].next # Null => e = d

\* The key contexts that are allocated are those of the entries; no two entries
\* have the same pk context or the same key context.
EntriesOK ==
  /\ live = {mem[e].ctx : e \in Allocated}
  /\ \A e, d \in Allocated : mem[e].pk = mem[d].pk \/ mem[e].ctx = mem[d].ctx => e = d

\* At most one task is in a call.
OneCall == \A t, u \in Task : At(t, "idle") \/ At(u, "idle") \/ t = u

\* The tasks whose cursor is at an entry that is not in the list: a new one, or
\* one that was unlinked.
Detached(t) == task[t].at \in {"link", "publish", "release"}

AllocatedOK ==
  \A e \in Allocated \ Linked : \E t \in Task : Detached(t) /\ task[t].cursor = e

\* The entry e is the one that the walk f looks for.
Wanted(f, e) == IF f.op = "sync" THEN mem[e].ctx = f.arg ELSE mem[e].pk = f.arg

\* What f looks for, if it is in the list, is still ahead of the cursor.
Ahead(f) ==
  /\ f.cursor \in Linked \cup {Null}
  /\ \A S \in SUBSET Cell :
       ClosedFrom(f.cursor, S) => \A e \in Linked : Wanted(f, e) => e \in S

\* prev is where the cursor was read from.
PrevOK(f) ==
  IF f.prev = Null THEN f.cursor = head
                   ELSE f.prev \in Linked /\ mem[f.prev].next = f.cursor

\* Where a call is, and what it knows there.
FrameOK(f) ==
  /\ f.at = "idle" => f = Idle
  /\ f.at # "idle" => f.op # "none"
  /\ f.op \in {"get", "free"} => f.arg \in Pk
  /\ f.op = "sync" => f.arg \in Ctx
  /\ f.op = "free" => held[f.arg] = Null
  /\ f.at = "find" => f.op \in {"get", "sync"} /\ Ahead(f)
  /\ f.at \in {"insert", "link", "publish"} =>
       f.op = "get" /\ \A e \in Linked : mem[e].pk # f.arg
  /\ f.at \in {"link", "publish"} =>
       /\ f.cursor \in Allocated \ Linked
       /\ mem[f.cursor].pk = f.arg /\ mem[f.cursor].ctx = f.ctx
  /\ f.at = "publish" => mem[f.cursor].next = head
  /\ f.at \in {"remove", "unlink", "release"} => f.op = "free"
  /\ f.at = "remove" => Ahead(f) /\ PrevOK(f)
  /\ f.at = "unlink" =>
       f.cursor \in Linked /\ mem[f.cursor].pk = f.arg /\ PrevOK(f)
  /\ f.at = "release" =>
       f.cursor \in Allocated \ Linked /\ mem[f.cursor].pk = f.arg /\ f.res = Null
  /\ f.at = "return" /\ f.op = "get" /\ f.res # Null =>
       \E e \in Linked : mem[e].pk = f.arg /\ mem[e].ctx = f.res

\* A pointer that a caller has is that of an entry.
HeldOK ==
  \A p \in Pk : held[p] # Null =>
    \E e \in Linked : mem[e].pk = p /\ mem[e].ctx = held[p]

ListInv ==
  /\ TypeOK /\ ListOK /\ EntriesOK /\ OneCall /\ AllocatedOK
  /\ \A t \in Task : FrameOK(task[t])
  /\ HeldOK

-----------------------------------------------------------------------------
(* The entries that a walk from the head visits.                           *)

FrameType(f) ==
  f \in Frame /\ f.res \in {Null} \cup (IF f.op = "sync" THEN Pk ELSE Ctx)

LEMMA Types ==
  ASSUME TypeOK
  PROVE  /\ head \in Cell \cup {Null} /\ Null \notin Cell
         /\ \A e \in Allocated : /\ e \in Cell /\ mem[e] \in CellCtx
                                 /\ mem[e].pk \in Pk /\ mem[e].ctx \in Ctx
                                 /\ mem[e].next \in Cell \cup {Null}
         /\ \A t \in Task : FrameType(task[t])
  BY PkCacheTasksAssumption DEF TypeOK, Allocated, CellCtx, FrameType

\* They are the least set that holds the head and, with an entry, the next one.
LEMMA LinkedIsClosed ==
  ASSUME TypeOK
  PROVE  /\ Linked \in SUBSET Cell
         /\ head # Null => head \in Linked
         /\ \A e \in Linked :
              mem[e] # Free /\ mem[e].next # Null => mem[e].next \in Linked
         /\ \A S \in SUBSET Cell : Closed(S) => Linked \subseteq S
<1>1. head # Null => head \in Linked
  BY Types DEF Linked, Closed
<1>2. ASSUME NEW e \in Linked, mem[e] # Free, mem[e].next # Null
      PROVE  mem[e].next \in Linked
  <2>1. e \in Allocated
    BY <1>2 DEF Linked, Allocated
  <2>2. mem[e].next \in Cell
    BY <1>2, <2>1, Types
  <2> QED
    BY <1>2, <2>2 DEF Linked, Closed
<1>3. \A S \in SUBSET Cell : Closed(S) => Linked \subseteq S
  BY DEF Linked
<1> QED
  BY <1>1, <1>2, <1>3 DEF Linked

\* A step that leaves the head and the entries of the list alone leaves the
\* list what it was.
LEMMA LinkedStays ==
  ASSUME TypeOK, head' = head, \A e \in Linked : mem'[e] = mem[e]
  PROVE  Linked' = Linked
<1> PICK L : L = Linked
  OBVIOUS
<1>1. L \in SUBSET Cell /\ Closed(L)'
  BY LinkedIsClosed DEF Closed
<1>2. ASSUME NEW S \in SUBSET Cell, Closed(S)'
      PROVE  L \subseteq S
  <2>1. Closed(S \cap Linked)
    <3>1. head # Null => head \in S \cap Linked
      BY <1>2, LinkedIsClosed DEF Closed
    <3>2. ASSUME NEW e \in S \cap Linked, mem[e] # Free, mem[e].next # Null
          PROVE  mem[e].next \in S \cap Linked
      BY <1>2, <3>2, LinkedIsClosed DEF Closed
    <3> QED
      BY <3>1, <3>2 DEF Closed
  <2>2. Linked \subseteq S \cap Linked
    BY <2>1, LinkedIsClosed
  <2> QED
    BY <2>2
<1>3. L = Linked'
  BY <1>1, <1>2 DEF Linked
<1> QED
  BY <1>3

\* cache_insert makes a list of the new entry and the old list.
LEMMA LinkedGrows ==
  ASSUME TypeOK, NEW e \in Allocated, mem[e].next = head, head' = e, mem' = mem
  PROVE  Linked' = Linked \cup {e}
<1> PICK L : L = Linked \cup {e}
  OBVIOUS
<1>1. e \in Cell /\ e # Null
  BY Types
<1>2. L \in SUBSET Cell /\ Closed(L)'
  <2>1. ASSUME NEW d \in L, mem[d] # Free, mem[d].next # Null
        PROVE  mem[d].next \in L
    BY <2>1, LinkedIsClosed
  <2> QED
    BY <1>1, <2>1, LinkedIsClosed DEF Closed
<1>3. ASSUME NEW S \in SUBSET Cell, Closed(S)'
      PROVE  L \subseteq S
  <2>1. e \in S /\ (head # Null => head \in S)
    BY <1>1, <1>3 DEF Closed, Allocated
  <2>2. Closed(S)
    BY <1>3, <2>1 DEF Closed
  <2> QED
    BY <2>1, <2>2, LinkedIsClosed
<1> QED
  BY <1>2, <1>3 DEF Linked

\* cache_remove takes the entry at its cursor out of the list, and no other.
LEMMA LinkedShrinks ==
  ASSUME TypeOK, TypeOK', ListOK, NEW e \in Linked, NEW q,
         IF q = Null THEN /\ head = e
                          /\ head' = mem[e].next /\ mem' = mem
                     ELSE /\ q \in Linked /\ mem[q].next = e /\ head' = head
                          /\ mem' = [mem EXCEPT ![q].next = mem[e].next]
  PROVE  /\ Linked' = Linked \ {e}
         /\ q # Null => q # e
         /\ \A d \in Linked : (d # e /\ mem[d].next = e) => d = q
<1> PICK L : L = Linked \ {e}
  OBVIOUS
<1>0. /\ e \in Cell /\ e # Null /\ e \in Allocated /\ Null \notin Cell
      /\ \A d \in Linked : /\ d \in Cell /\ mem[d] # Free /\ mem[d] \in CellCtx
                           /\ mem[d].next \in Linked \cup {Null}
  BY LinkedIsClosed, Types DEF ListOK, Allocated
<1>1. q # Null => q # e
  <2> SUFFICES ASSUME q # Null, q = e PROVE FALSE
    OBVIOUS
  <2>1. mem[e].next = e /\ head # e
    BY <1>0 DEF ListOK
  <2>2. \A d \in Linked : d # e => mem[d].next # e
    BY <1>0, <2>1 DEF ListOK
  <2>3. Closed(L)
    BY <1>0, <2>1, <2>2, LinkedIsClosed DEF Closed
  <2>4. Linked \subseteq L
    BY <2>3, LinkedIsClosed
  <2> QED
    BY <2>4
<1>2. \A d \in Linked : mem[d].next = e => d = q
  BY <1>0 DEF ListOK
<1>3. mem[e].next # e
  BY <1>1, <1>2, <1>0
<1>4. /\ \A d \in L : mem'[d].next = IF d = q THEN mem[e].next ELSE mem[d].next
      /\ \A d \in Cell : d # q => mem'[d] = mem[d]
      /\ \A d \in L : mem'[d] # Free
  <2>1. \A d \in L : mem'[d].next = IF d = q THEN mem[e].next ELSE mem[d].next
    <3>1. CASE q = Null
      BY <1>0, <3>1
    <3>2. CASE q # Null
      <4>1. /\ mem' = [mem EXCEPT ![q].next = mem[e].next] /\ q \in Cell
            /\ mem \in [Cell -> CellCtx \cup {Free}] /\ mem[q] \in CellCtx
        BY <1>0, <3>2 DEF TypeOK
      <4>2. mem'[q].next = mem[e].next
        BY <4>1 DEF CellCtx
      <4>3. \A d \in Cell : d # q => mem'[d] = mem[d]
        BY <4>1
      <4> QED
        BY <1>0, <4>2, <4>3
    <3> QED
      BY <3>1, <3>2
  <2>2. \A d \in Cell : d # q => mem'[d] = mem[d]
    BY DEF TypeOK
  <2>3. ASSUME NEW d \in L PROVE mem'[d] # Free
    <3>1. CASE d = q /\ q # Null
      <4>1. mem'[q] = [mem[q] EXCEPT !.next = mem[e].next]
        BY <1>0, <3>1 DEF TypeOK
      <4>2. mem'[q] \in CellCtx
        BY <1>0, <3>1, <4>1 DEF CellCtx
      <4> QED
        BY <3>1, <4>2, PkCacheTasksAssumption DEF CellCtx
    <3>2. CASE d # q
      BY <1>0, <2>2, <3>2
    <3>3. CASE q = Null
      BY <1>0, <3>3
    <3> QED
      BY <3>1, <3>2, <3>3
  <2> QED
    BY <2>1, <2>2, <2>3
<1>5. L \in SUBSET Cell /\ Closed(L)'
  <2>1. head' # Null => head' \in L
    BY <1>0, <1>3, LinkedIsClosed DEF ListOK
  <2>2. ASSUME NEW d \in L, mem'[d].next # Null
        PROVE  mem'[d].next \in L
    BY <1>0, <1>2, <1>3, <1>4, <2>2
  <2> QED
    BY <1>0, <2>1, <2>2 DEF Closed
<1>6. ASSUME NEW S \in SUBSET Cell, Closed(S)'
      PROVE  L \subseteq S
  <2> DEFINE R == (S \cap Linked) \cup {e}
  <2>0. \A d \in S \cap L : mem'[d].next # Null => mem'[d].next \in S
    BY <1>4, <1>6 DEF Closed
  <2>1. CASE q = Null \/ q \in S
    <3>1. head # Null => head \in R
      BY <1>6, LinkedIsClosed DEF Closed
    <3>2. mem[e].next # Null => mem[e].next \in R
      <4>1. mem[e].next # Null => mem[e].next \in S
        BY <1>0, <1>1, <1>4, <1>6, <2>0, <2>1 DEF Closed
      <4> QED
        BY <1>0, <4>1
    <3>3. ASSUME NEW d \in R, mem[d].next # Null
          PROVE  mem[d].next \in R
      <4>1. CASE d = e
        BY <3>2, <3>3, <4>1
      <4>2. CASE d # e /\ d = q
        <5>1. q # Null
          BY <1>0, <4>2
        <5> QED
          BY <4>2, <5>1
      <4>3. CASE d # e /\ d # q
        BY <1>0, <1>4, <2>0, <3>3, <4>3
      <4> QED
        BY <4>1, <4>2, <4>3
    <3>4. Closed(R) /\ R \in SUBSET Cell
      BY <1>0, <3>1, <3>3 DEF Closed
    <3>5. Linked \subseteq R
      BY <3>4, LinkedIsClosed
    <3> QED
      BY <3>5
  <2>2. CASE q # Null /\ q \notin S
    <3>1. \A d \in S \cap Linked : mem'[d] = mem[d]
      BY <1>0, <1>4, <2>2
    <3>2. Closed(S \cap Linked)
      <4>1. head # Null => head \in S \cap Linked
        BY <1>6, <2>2, LinkedIsClosed DEF Closed
      <4>2. ASSUME NEW d \in S \cap Linked, mem[d].next # Null
            PROVE  mem[d].next \in S \cap Linked
        BY <1>0, <1>6, <3>1, <4>2 DEF Closed
      <4> QED
        BY <4>1, <4>2 DEF Closed
    <3>3. Linked \subseteq S
      BY <3>2, LinkedIsClosed
    <3> QED
      BY <3>3
  <2> QED
    BY <2>1, <2>2
<1>7. Linked' = L
  BY <1>5, <1>6 DEF Linked
<1> QED
  BY <1>1, <1>2, <1>7

-----------------------------------------------------------------------------
(* The calls.                                                              *)

\* Every other task than t is in no call.
Solo(t) == \A u \in Task : u # t => task[u] = Idle

LEMMA InCallIsSolo ==
  ASSUME ListInv, NEW t \in Task, ~At(t, "idle")
  PROVE  Solo(t)
  BY DEF ListInv, OneCall, FrameOK, At, Solo

LEMMA IdleIsOK == FrameType(Idle) /\ FrameOK(Idle)
<1>1. Idle \in Frame
  BY DEF Idle, Frame, Line
<1> QED
  BY <1>1 DEF FrameType, FrameOK, Idle

\* A step of t is sound when its new frame and what it wrote are.
LEMMA Assemble ==
  ASSUME ListInv, NEW t \in Task, NEW f, Solo(t), Goto(t, f), FrameType(f),
         head' \in Cell \cup {Null}, mem' \in [Cell -> CellCtx \cup {Free}],
         live' \in SUBSET Ctx, held' \in [Pk -> Ctx \cup {Null}],
         ListOK', EntriesOK', HeldOK', FrameOK(f)',
         \A e \in (Allocated \ Linked)' :
           f.at \in {"link", "publish", "release"} /\ f.cursor = e
  PROVE  ListInv'
<1>1. /\ task'[t] = f
      /\ \A u \in Task : u # t => task'[u] = Idle
      /\ task' \in [Task -> Frame]
  BY DEF ListInv, TypeOK, Goto, Solo, FrameType
<1>2. TypeOK'
  <2>1. \A u \in Task : FrameType(task'[u])
    BY <1>1, IdleIsOK
  <2> QED
    BY <1>1, <2>1 DEF TypeOK, FrameType
<1>3. OneCall'
  BY <1>1 DEF OneCall, At, Idle
<1>4. AllocatedOK'
  BY <1>1 DEF AllocatedOK, Detached
<1>5. \A u \in Task : FrameOK(task[u])'
  <2>1. FrameOK(task[t])'
    BY <1>1 DEF FrameOK, Ahead, PrevOK, Wanted
  <2>2. ASSUME NEW u \in Task, u # t
        PROVE  FrameOK(task[u])'
    BY <1>1, <2>2 DEF FrameOK, Idle
  <2> QED
    BY <2>1, <2>2
<1> QED
  BY <1>2, <1>3, <1>4, <1>5 DEF ListInv

\* A step that writes nothing in the list.
LEMMA Quiet ==
  ASSUME ListInv, NEW t \in Task, NEW f, Solo(t), ~Detached(t),
         Goto(t, f), FrameType(f), FrameOK(f)',
         UNCHANGED <<head, mem, live>>,
         held' \in [Pk -> Ctx \cup {Null}],
         \A p \in Pk : held'[p] # Null => held'[p] = held[p] \/
           \E e \in Linked : mem[e].pk = p /\ mem[e].ctx = held'[p]
  PROVE  ListInv'
<1>1. Linked' = Linked /\ Allocated' = Allocated
  BY LinkedStays DEF ListInv, Allocated
<1>2. ListOK' /\ EntriesOK'
  BY <1>1 DEF ListInv, ListOK, EntriesOK
<1>3. HeldOK'
  BY <1>1 DEF ListInv, HeldOK
<1>4. Allocated \subseteq Linked
  BY DEF ListInv, AllocatedOK, Solo, Detached, Idle
<1>5. /\ head' \in Cell \cup {Null} /\ mem' \in [Cell -> CellCtx \cup {Free}]
      /\ live' \in SUBSET Ctx
  BY DEF ListInv, TypeOK
<1>6. \A e \in (Allocated \ Linked)' : FALSE
  BY <1>1, <1>4
<1> QED
  BY <1>2, <1>3, <1>5, <1>6, Assemble

\* The frame of a task that goes to the line l with the result r.
Left(f, g, l, r) ==
  /\ FrameType(g) /\ g.at = l /\ g.res = r
  /\ g.op = f.op /\ g.arg = f.arg /\ g.cursor = f.cursor
  /\ g.prev = f.prev /\ g.ctx = f.ctx

LEMMA LeaveType ==
  ASSUME NEW t \in Task, FrameType(task[t]), NEW l \in Line,
         NEW r, r \in {Null} \cup (IF task[t].op = "sync" THEN Pk ELSE Ctx),
         Leave(t, l, r)
  PROVE  \E g : Left(task[t], g, l, r) /\ Goto(t, g)
<1> DEFINE g == [task[t] EXCEPT !.at = l, !.res = r]
<1>1. Left(task[t], g, l, r)
  BY DEF FrameType, Frame, Left
<1>2. Goto(t, g)
  BY DEF Leave
<1> QED
  BY <1>1, <1>2

\* What is ahead of a frame is ahead of it after a step that leaves the list alone.
LEMMA AheadStays ==
  ASSUME TypeOK, UNCHANGED <<head, mem>>
  PROVE  /\ Linked' = Linked /\ Allocated' = Allocated
         /\ \A f : Ahead(f) => Ahead(f)'
         /\ \A f : PrevOK(f) => PrevOK(f)'
<1>1. Linked' = Linked /\ Allocated' = Allocated
  BY LinkedStays DEF Allocated
<1>2. ASSUME NEW f, Ahead(f) PROVE Ahead(f)'
  BY <1>1, <1>2 DEF Ahead, Wanted, ClosedFrom
<1>3. ASSUME NEW f, PrevOK(f) PROVE PrevOK(f)'
  BY <1>1, <1>3 DEF PrevOK
<1> QED
  BY <1>1, <1>2, <1>3

-----------------------------------------------------------------------------
(* One lemma for each statement.                                           *)

\* A call begins at the head, with everything ahead of it.
LEMMA StepCall ==
  ASSUME ListInv, NEW t \in Task, Serial,
         NEW op \in {"get", "free", "sync"}, NEW x,
         NEW l, l = (IF op = "free" THEN "remove" ELSE "find"),
         Enter(t, op, x, l),
         IF op = "sync" THEN x \in Ctx /\ held' = held
                        ELSE x \in Pk,
         op = "get" => held' = held,
         op = "free" => held' = [held EXCEPT ![x] = Null]
  PROVE  ListInv'
<1> PICK f : f = [Idle EXCEPT !.at = l, !.op = op, !.arg = x, !.cursor = head]
  OBVIOUS
<1>1. /\ f.at = l /\ f.op = op /\ f.arg = x /\ f.cursor = head
      /\ f.prev = Null /\ f.ctx = Null /\ f.res = Null
      /\ Goto(t, f) /\ UNCHANGED <<head, mem, live>>
  BY DEF Enter, Idle
<1>2. FrameType(f)
  <2>1. head \in Cell \cup {Null}
    BY DEF ListInv, TypeOK
  <2>2. f \in Frame
    BY <2>1 DEF Idle, Frame, Line
  <2> QED
    BY <1>1, <2>2 DEF FrameType
<1>3. \A u \in Task : task[u] = Idle
  BY DEF Enter, At, ListInv, FrameOK
<1>4. Solo(t) /\ ~Detached(t)
  BY <1>3 DEF Solo, Detached, Idle
<1>5. Ahead(f) /\ PrevOK(f)
  <2>1. \A S \in SUBSET Cell : ClosedFrom(head, S) => Linked \subseteq S
    BY LinkedIsClosed DEF ListInv, ClosedFrom, Closed
  <2>2. head \in Linked \cup {Null}
    BY LinkedIsClosed DEF ListInv, TypeOK
  <2> QED
    BY <1>1, <2>1, <2>2 DEF Ahead, PrevOK
<1>6. Ahead(f)' /\ PrevOK(f)'
  BY <1>1, <1>5, AheadStays DEF ListInv
<1>7. held \in [Pk -> Ctx \cup {Null}]
  BY DEF ListInv, TypeOK
<1>8. FrameOK(f)'
  <2>1. CASE op = "free"
    <3>1. f.at = "remove" /\ f.op = "free" /\ f.arg \in Pk /\ held'[f.arg] = Null
      BY <1>1, <1>7, <2>1
    <3> QED
      BY <1>6, <3>1 DEF FrameOK
  <2>2. CASE op = "get"
    <3>1. f.at = "find" /\ f.op = "get" /\ f.arg \in Pk
      BY <1>1, <2>2
    <3> QED
      BY <1>6, <3>1 DEF FrameOK
  <2>3. CASE op = "sync"
    <3>1. f.at = "find" /\ f.op = "sync" /\ f.arg \in Ctx
      BY <1>1, <2>3
    <3> QED
      BY <1>6, <3>1 DEF FrameOK
  <2> QED
    BY <2>1, <2>2, <2>3
<1>9. /\ held' \in [Pk -> Ctx \cup {Null}]
      /\ \A p \in Pk : held'[p] # Null => held'[p] = held[p]
  BY <1>7
<1> QED
  BY <1>1, <1>2, <1>4, <1>8, <1>9, Quiet

\* A walk moves on past an entry it does not look for.
LEMMA StepAdvance ==
  ASSUME ListInv, NEW t \in Task, task[t].at \in {"find", "remove"},
         AtEntry(t), ~Matches(task[t]), Advance(t),
         UNCHANGED <<head, mem, live, held>>
  PROVE  ListInv'
<1> PICK f : f = task[t]
  OBVIOUS
<1> PICK g : g = [f EXCEPT !.cursor = mem[f.cursor].next, !.prev = f.cursor]
  OBVIOUS
<1>1. FrameType(f) /\ FrameOK(f) /\ Goto(t, g) /\ Ahead(f)
  BY Types DEF Advance, ListInv, FrameOK
<1>2. Solo(t) /\ ~Detached(t)
  BY InCallIsSolo DEF At, Detached
<1>3. /\ f.cursor \in Linked /\ f.cursor # Null /\ mem[f.cursor] # Free
      /\ ~Wanted(f, f.cursor)
      /\ mem[f.cursor].next \in Linked \cup {Null}
      /\ mem[f.cursor].next \in Cell \cup {Null}
  <2>1. f.cursor \in Linked /\ f.cursor # Null /\ mem[f.cursor] # Free
    BY <1>1 DEF AtEntry, Ahead
  <2>2. ~Wanted(f, f.cursor)
    BY DEF Matches, Wanted
  <2> QED
    BY <2>1, <2>2, LinkedIsClosed DEF ListInv
<1>4. /\ FrameType(g) /\ g.at = f.at /\ g.op = f.op /\ g.arg = f.arg
      /\ g.cursor = mem[f.cursor].next /\ g.prev = f.cursor
  BY <1>1, <1>3, LinkedIsClosed DEF FrameType, Frame, ListInv
<1>5. Ahead(g)
  <2> SUFFICES ASSUME NEW S \in SUBSET Cell, ClosedFrom(g.cursor, S),
                      NEW e \in Linked, Wanted(g, e)
               PROVE  e \in S
    BY <1>3, <1>4 DEF Ahead
  <2>1. ClosedFrom(f.cursor, S \cup {f.cursor})
    BY <1>3, <1>4 DEF ClosedFrom
  <2>2. S \cup {f.cursor} \in SUBSET Cell
    BY <1>3 DEF Linked
  <2>3. Wanted(f, e)
    BY <1>4 DEF Wanted
  <2>4. e \in S \cup {f.cursor}
    BY <1>1, <2>1, <2>2, <2>3 DEF Ahead
  <2> QED
    BY <1>3, <2>3, <2>4
<1>6. PrevOK(g)
  BY <1>3, <1>4 DEF PrevOK
<1>7. Ahead(g)' /\ PrevOK(g)'
  BY <1>5, <1>6, AheadStays DEF ListInv
<1>8. FrameOK(g)'
  BY <1>1, <1>4, <1>7 DEF FrameOK
<1>9. held' \in [Pk -> Ctx \cup {Null}]
  BY DEF ListInv, TypeOK
<1> QED
  BY <1>1, <1>2, <1>4, <1>8, <1>9, Quiet

\* A walk ends, at its entry or behind the last one.
LEMMA StepFind ==
  ASSUME ListInv, NEW t \in Task, Find(t)
  PROVE  ListInv'
<1> PICK f : f = task[t]
  OBVIOUS
<1>1. FrameType(f) /\ FrameOK(f) /\ f.at = "find" /\ f.op \in {"get", "sync"} /\ Ahead(f)
  BY Types DEF Find, At, ListInv, FrameOK
<1>2. Solo(t) /\ ~Detached(t) /\ UNCHANGED <<head, mem, live, held>>
  BY <1>1, InCallIsSolo DEF At, Detached, Find
<1>3. /\ held' \in [Pk -> Ctx \cup {Null}]
      /\ Linked' = Linked
  BY <1>2, AheadStays DEF ListInv, TypeOK
<1>4. ASSUME AtEntry(t), Matches(f), Leave(t, "return", Found(t))
      PROVE  ListInv'
  <2> PICK r : r = Found(t)
    OBVIOUS
  <2>1. f.cursor \in Linked /\ f.cursor \in Allocated
    BY <1>1, <1>4 DEF AtEntry, Ahead, ListInv, ListOK
  <2>2. r = (IF f.op = "sync" THEN mem[f.cursor].pk ELSE mem[f.cursor].ctx)
    BY DEF Found
  <2>3. r \in {Null} \cup (IF f.op = "sync" THEN Pk ELSE Ctx)
    BY <2>1, <2>2, Types DEF ListInv
  <2>4. "return" \in Line
    BY DEF Line
  <2>5. PICK g : Left(f, g, "return", r) /\ Goto(t, g)
    BY <1>1, <1>4, <2>3, <2>4, LeaveType
  <2>6. f.op = "get" => mem[f.cursor].pk = f.arg /\ mem[f.cursor].ctx = r
    BY <1>4, <2>2 DEF Matches
  <2>7. FrameOK(g)'
    BY <1>1, <1>2, <1>3, <2>1, <2>5, <2>6 DEF FrameOK, Left
  <2> QED
    BY <1>2, <1>3, <2>5, <2>7, Quiet DEF Left
<1>5. ASSUME f.cursor = Null, f.op = "sync", Leave(t, "return", Null)
      PROVE  ListInv'
  <2>1. PICK g : Left(f, g, "return", Null) /\ Goto(t, g)
    BY <1>1, <1>5, LeaveType DEF Line
  <2>2. FrameOK(g)'
    BY <1>1, <1>2, <1>3, <1>5, <2>1 DEF FrameOK, Left
  <2> QED
    BY <1>2, <1>3, <2>1, <2>2, Quiet DEF Left
<1>6. ASSUME f.cursor = Null, f.op # "sync", Leave(t, "insert", Null)
      PROVE  ListInv'
  <2>1. PICK g : Left(f, g, "insert", Null) /\ Goto(t, g)
    BY <1>1, <1>6, LeaveType DEF Line
  <2>2. \A e \in Linked : mem[e].pk # f.arg
    <3>1. ClosedFrom(f.cursor, {})
      BY <1>6 DEF ClosedFrom
    <3>2. \A e \in Linked : ~Wanted(f, e)
      BY <1>1, <3>1 DEF Ahead
    <3> QED
      BY <1>6, <3>2 DEF Wanted
  <2>3. FrameOK(g)'
    BY <1>1, <1>2, <1>3, <1>6, <2>1, <2>2 DEF FrameOK, Left
  <2> QED
    BY <1>2, <1>3, <2>1, <2>3, Quiet DEF Left
<1>7. ASSUME AtEntry(t), ~Matches(f), Advance(t)
      PROVE  ListInv'
  BY <1>1, <1>2, <1>7, StepAdvance
<1> QED
  BY <1>4, <1>5, <1>6, <1>7 DEF Find

LEMMA StepRemove ==
  ASSUME ListInv, NEW t \in Task, Remove(t)
  PROVE  ListInv'
<1> PICK f : f = task[t]
  OBVIOUS
<1>1. FrameType(f) /\ FrameOK(f) /\ f.at = "remove" /\ f.op = "free" /\ Ahead(f) /\ PrevOK(f)
  BY Types DEF Remove, At, ListInv, FrameOK
<1>2. Solo(t) /\ ~Detached(t) /\ UNCHANGED <<head, mem, live, held>>
  BY <1>1, InCallIsSolo DEF At, Detached, Remove
<1>3. /\ held' \in [Pk -> Ctx \cup {Null}]
      /\ Linked' = Linked
  BY <1>2, AheadStays DEF ListInv, TypeOK
<1>4. ASSUME AtEntry(t), Matches(f), Leave(t, "unlink", Null)
      PROVE  ListInv'
  <2>1. f.cursor \in Linked /\ mem[f.cursor].pk = f.arg
    BY <1>1, <1>4 DEF AtEntry, Ahead, Matches
  <2>2. PICK g : Left(f, g, "unlink", Null) /\ Goto(t, g)
    BY <1>1, <1>4, LeaveType DEF Line
  <2>3. PrevOK(g)'
    BY <1>1, <1>2, <1>3, <2>2 DEF PrevOK, Left
  <2>4. FrameOK(g)'
    BY <1>1, <1>2, <1>3, <2>1, <2>2, <2>3 DEF FrameOK, Left
  <2> QED
    BY <1>2, <1>3, <2>2, <2>4, Quiet DEF Left
<1>5. ASSUME f.cursor = Null, Leave(t, "return", Null)
      PROVE  ListInv'
  <2>1. PICK g : Left(f, g, "return", Null) /\ Goto(t, g)
    BY <1>1, <1>5, LeaveType DEF Line
  <2>2. FrameOK(g)'
    BY <1>1, <1>2, <1>3, <1>5, <2>1 DEF FrameOK, Left
  <2> QED
    BY <1>2, <1>3, <2>1, <2>2, Quiet DEF Left
<1>6. ASSUME AtEntry(t), ~Matches(f), Advance(t)
      PROVE  ListInv'
  BY <1>1, <1>2, <1>6, StepAdvance
<1> QED
  BY <1>4, <1>5, <1>6 DEF Remove

\* The caller gets the pointer to an entry of the list.
LEMMA StepReturn ==
  ASSUME ListInv, NEW t \in Task, Return(t)
  PROVE  ListInv'
<1> PICK f : f = task[t]
  OBVIOUS
<1>1. /\ FrameType(f) /\ FrameOK(f) /\ f.at = "return" /\ Solo(t) /\ ~Detached(t)
      /\ UNCHANGED <<head, mem, live>> /\ Goto(t, Idle)
  BY Types, InCallIsSolo DEF Return, At, Detached, ListInv
<1>2. held \in [Pk -> Ctx \cup {Null}]
  BY DEF ListInv, TypeOK
<1>3. held' = IF f.op = "get" THEN [held EXCEPT ![f.arg] = f.res] ELSE held
  BY DEF Return
<1>4. f.op = "get" => f.res \in Ctx \cup {Null}
  BY <1>1 DEF FrameType
<1>5. held' \in [Pk -> Ctx \cup {Null}]
  BY <1>2, <1>3, <1>4
<1>6. \A p \in Pk : held'[p] # Null => held'[p] = held[p] \/
        \E e \in Linked : mem[e].pk = p /\ mem[e].ctx = held'[p]
  BY <1>1, <1>2, <1>3 DEF FrameOK
<1>7. FrameOK(Idle)'
  BY DEF FrameOK, Idle
<1>8. FrameType(Idle)
  BY IdleIsOK
<1> QED
  BY <1>1, <1>5, <1>6, <1>7, <1>8, Quiet

-----------------------------------------------------------------------------
(* The statements that write.                                              *)

\* A new entry is not in the list yet.
LEMMA StepInsert ==
  ASSUME ListInv, NEW t \in Task, Insert(t)
  PROVE  ListInv'
<1> PICK f : f = task[t]
  OBVIOUS
<1>1. /\ FrameType(f) /\ FrameOK(f) /\ f.at = "insert" /\ f.op = "get" /\ f.arg \in Pk
      /\ \A e \in Linked : mem[e].pk # f.arg
  BY Types DEF Insert, At, ListInv, FrameOK
<1>2. Solo(t) /\ ~Detached(t) /\ UNCHANGED <<head, held>>
  BY <1>1, InCallIsSolo DEF At, Detached, Insert
<1>3. /\ mem \in [Cell -> CellCtx \cup {Free}] /\ live \in SUBSET Ctx
      /\ held' \in [Pk -> Ctx \cup {Null}] /\ head' \in Cell \cup {Null}
      /\ Null \notin Cell
  BY <1>2, PkCacheTasksAssumption DEF ListInv, TypeOK
<1>4. ASSUME Leave(t, "return", Null), UNCHANGED <<mem, live>>
      PROVE  ListInv'
  <2>1. PICK g : Left(f, g, "return", Null) /\ Goto(t, g)
    BY <1>1, <1>4, LeaveType DEF Line
  <2>2. FrameOK(g)'
    BY <1>1, <1>2, <1>4, <2>1 DEF FrameOK, Left
  <2> QED
    BY <1>2, <1>3, <1>4, <2>1, <2>2, Quiet DEF Left
<1>5. ASSUME NEW c \in Ctx \ live, NEW e \in Cell, mem[e] = Free,
             live' = live \cup {c},
             mem' = [mem EXCEPT ![e] = [pk |-> f.arg, ctx |-> c, next |-> Null]],
             Goto(t, [f EXCEPT !.at = "link", !.cursor = e, !.ctx = c])
      PROVE  ListInv'
  <2> PICK g : g = [f EXCEPT !.at = "link", !.cursor = e, !.ctx = c]
    OBVIOUS
  <2>1. /\ FrameType(g) /\ g.at = "link" /\ g.cursor = e /\ g.ctx = c
        /\ g.op = "get" /\ g.arg = f.arg /\ Goto(t, g)
    BY <1>1, <1>5 DEF FrameType, Frame, Line
  <2>2. [pk |-> f.arg, ctx |-> c, next |-> Null] \in CellCtx
    BY <1>1 DEF CellCtx
  <2>3. /\ mem'[e] = [pk |-> f.arg, ctx |-> c, next |-> Null]
        /\ \A d \in Cell : d # e => mem'[d] = mem[d]
        /\ mem' \in [Cell -> CellCtx \cup {Free}]
    BY <1>3, <1>5, <2>2
  <2>4. mem'[e] # Free
    BY <2>2, <2>3, PkCacheTasksAssumption DEF CellCtx
  <2>5. e \notin Linked /\ Linked \subseteq Cell
    BY <1>5 DEF ListInv, ListOK, Allocated, Linked
  <2>6. Linked' = Linked
    BY <1>2, <2>3, <2>5, LinkedStays DEF ListInv
  <2>7. Allocated' = Allocated \cup {e} /\ e \notin Allocated
    BY <1>5, <2>3, <2>4 DEF Allocated
  <2>8. Allocated \subseteq Linked
    BY <1>2 DEF ListInv, AllocatedOK, Solo, Detached, Idle
  <2>9. ListOK'
    BY <1>2, <2>3, <2>5, <2>6, <2>7 DEF ListInv, ListOK
  <2>10. EntriesOK'
    <3>1. /\ \A d \in Allocated : mem'[d] = mem[d]
          /\ mem'[e].pk = f.arg /\ mem'[e].ctx = c
      BY <2>3, <2>7 DEF Allocated
    <3>2. live = {mem[d].ctx : d \in Allocated}
      BY DEF ListInv, EntriesOK
    <3>3. live' = {mem'[d].ctx : d \in Allocated'}
      BY <1>5, <2>7, <3>1, <3>2
    <3>4. \A d \in Allocated : mem[d].pk # f.arg /\ mem[d].ctx # c
      BY <1>1, <2>8, <3>2
    <3> QED
      BY <2>7, <3>1, <3>3, <3>4 DEF ListInv, EntriesOK
  <2>11. HeldOK'
    BY <1>2, <2>3, <2>5, <2>6 DEF ListInv, HeldOK
  <2>12. FrameOK(g)'
    BY <1>1, <2>1, <2>3, <2>5, <2>6, <2>7 DEF FrameOK
  <2>13. \A d \in (Allocated \ Linked)' : g.at = "link" /\ g.cursor = d
    BY <2>1, <2>6, <2>7, <2>8
  <2>14. live' \in SUBSET Ctx
    BY <1>3, <1>5
  <2> QED
    BY <1>2, <1>3, <2>1, <2>3, <2>9, <2>10, <2>11, <2>12, <2>13, <2>14, Assemble
<1> QED
  BY <1>4, <1>5 DEF Insert

\* The entry of a call that is solo is the only one that is not in the list.
LEMMA OneDetached ==
  ASSUME ListInv, NEW t \in Task, Solo(t)
  PROVE  \A e \in Allocated \ Linked : e = task[t].cursor
  BY DEF ListInv, AllocatedOK, Solo, Detached, Idle

\* entry->next is written before the entry can be reached.
LEMMA StepLink ==
  ASSUME ListInv, NEW t \in Task, Link(t)
  PROVE  ListInv'
<1> PICK f : f = task[t]
  OBVIOUS
<1> PICK e : e = f.cursor
  OBVIOUS
<1>1. /\ FrameType(f) /\ FrameOK(f) /\ f.at = "link" /\ f.op = "get" /\ f.arg \in Pk
      /\ \A d \in Linked : mem[d].pk # f.arg
      /\ e \in Allocated \ Linked /\ mem[e].pk = f.arg /\ mem[e].ctx = f.ctx
  BY Types DEF Link, At, ListInv, FrameOK
<1>2. Solo(t) /\ UNCHANGED <<head, live, held>>
  BY <1>1, InCallIsSolo DEF At, Link
<1>3. /\ mem \in [Cell -> CellCtx \cup {Free}] /\ live' \in SUBSET Ctx
      /\ held' \in [Pk -> Ctx \cup {Null}] /\ head \in Cell \cup {Null}
      /\ e \in Cell /\ mem[e] \in CellCtx
  BY <1>1, <1>2, Types DEF ListInv, TypeOK
<1>4. PICK g : Left(f, g, "publish", Null) /\ Goto(t, g)
  BY <1>1, LeaveType DEF Line, Link
<1>5. mem' = [mem EXCEPT ![e] = [mem[e] EXCEPT !.next = head]]
  BY DEF Link
<1>6. [mem[e] EXCEPT !.next = head] \in CellCtx
  BY <1>3 DEF CellCtx
<1>7. /\ mem'[e] \in CellCtx /\ mem'[e].pk = mem[e].pk /\ mem'[e].ctx = mem[e].ctx
      /\ mem'[e].next = head
      /\ \A d \in Cell : d # e => mem'[d] = mem[d]
      /\ mem' \in [Cell -> CellCtx \cup {Free}]
  BY <1>3, <1>5, <1>6 DEF CellCtx
<1>8. mem'[e] # Free /\ mem[e] # Free
  BY <1>1, <1>7, PkCacheTasksAssumption DEF CellCtx, Allocated
<1>9. Linked \subseteq Cell
  BY DEF Linked
<1>10. Linked' = Linked
  BY <1>1, <1>2, <1>7, <1>9, LinkedStays DEF ListInv
<1>11. Allocated' = Allocated
  BY <1>3, <1>7, <1>8 DEF Allocated
<1>12. \A d \in Allocated : mem'[d].pk = mem[d].pk /\ mem'[d].ctx = mem[d].ctx
  BY <1>7 DEF Allocated
<1>13. ListOK'
  BY <1>1, <1>2, <1>7, <1>9, <1>10, <1>11 DEF ListInv, ListOK
<1>14. EntriesOK'
  BY <1>2, <1>11, <1>12 DEF ListInv, EntriesOK
<1>15. HeldOK'
  BY <1>1, <1>2, <1>7, <1>9, <1>10 DEF ListInv, HeldOK
<1>16. FrameOK(g)'
  BY <1>1, <1>2, <1>4, <1>7, <1>9, <1>10, <1>11 DEF FrameOK, Left
<1>17. \A d \in (Allocated \ Linked)' : g.at = "publish" /\ g.cursor = d
  BY <1>2, <1>4, <1>10, <1>11, OneDetached DEF Left
<1>18. head' \in Cell \cup {Null}
  BY <1>2, <1>3
<1> QED
  BY <1>2, <1>3, <1>4, <1>7, <1>13, <1>14, <1>15, <1>16, <1>17, <1>18, Assemble DEF Left

\* The new entry becomes the head of the list.
LEMMA StepPublish ==
  ASSUME ListInv, NEW t \in Task, Publish(t)
  PROVE  ListInv'
<1> PICK f : f = task[t]
  OBVIOUS
<1> PICK e : e = f.cursor
  OBVIOUS
<1>1. /\ FrameType(f) /\ FrameOK(f) /\ f.at = "publish" /\ f.op = "get" /\ f.arg \in Pk
      /\ e \in Allocated \ Linked /\ mem[e].pk = f.arg /\ mem[e].ctx = f.ctx
      /\ mem[e].next = head
  BY Types DEF Publish, At, ListInv, FrameOK
<1>2. Solo(t) /\ UNCHANGED <<mem, live, held>> /\ head' = e
  BY <1>1, InCallIsSolo DEF At, Publish
<1>3. /\ mem' \in [Cell -> CellCtx \cup {Free}] /\ live' \in SUBSET Ctx
      /\ held' \in [Pk -> Ctx \cup {Null}] /\ head' \in Cell \cup {Null}
      /\ e # Null
  BY <1>1, <1>2, Types DEF ListInv, TypeOK
<1>4. PICK g : Left(f, g, "return", f.ctx) /\ Goto(t, g)
  <2>1. f.ctx \in Ctx \cup {Null}
    BY <1>1 DEF FrameType, Frame
  <2> QED
    BY <1>1, <2>1, LeaveType DEF Line, Publish
<1>5. Linked' = Linked \cup {e} /\ Allocated' = Allocated
  BY <1>1, <1>2, LinkedGrows DEF ListInv, Allocated
<1>6. /\ \A d \in Linked : mem[d].next \in Linked \cup {Null}
      /\ head \in Linked \cup {Null}
  BY LinkedIsClosed DEF ListInv, ListOK, Allocated, TypeOK
<1>7. ListOK'
  BY <1>1, <1>2, <1>3, <1>5, <1>6 DEF ListInv, ListOK
<1>8. EntriesOK'
  BY <1>2, <1>5 DEF ListInv, EntriesOK
<1>9. HeldOK'
  BY <1>2, <1>5 DEF ListInv, HeldOK
<1>10. FrameOK(g)'
  BY <1>1, <1>2, <1>4, <1>5 DEF FrameOK, Left
<1>11. \A d \in (Allocated \ Linked)' : FALSE
  BY <1>2, <1>5, OneDetached
<1> QED
  BY <1>2, <1>3, <1>4, <1>7, <1>8, <1>9, <1>10, <1>11, Assemble DEF Left

\* The entry of the pk context that is freed leaves the list.
LEMMA StepUnlink ==
  ASSUME ListInv, NEW t \in Task, Unlink(t)
  PROVE  ListInv'
<1> PICK f : f = task[t]
  OBVIOUS
<1> PICK e : e = f.cursor
  OBVIOUS
<1> PICK q : q = f.prev
  OBVIOUS
<1>1. /\ FrameType(f) /\ FrameOK(f) /\ f.at = "unlink" /\ f.op = "free" /\ f.arg \in Pk
      /\ e \in Linked /\ mem[e].pk = f.arg /\ held[f.arg] = Null /\ PrevOK(f)
  BY Types DEF Unlink, At, ListInv, FrameOK
<1>2. Solo(t) /\ ~Detached(t) /\ UNCHANGED <<live, held>>
  BY <1>1, InCallIsSolo DEF At, Detached, Unlink
<1>3. PICK g : Left(f, g, "release", Null) /\ Goto(t, g)
  BY <1>1, LeaveType DEF Line, Unlink
<1>4. /\ e \in Cell /\ e \in Allocated /\ Null \notin Cell /\ mem[e] \in CellCtx
      /\ \A d \in Linked : d \in Cell /\ d \in Allocated /\ mem[d] \in CellCtx
      /\ mem[e].next \in Cell \cup {Null}
      /\ mem \in [Cell -> CellCtx \cup {Free}] /\ head \in Cell \cup {Null}
  BY <1>1, Types DEF ListInv, ListOK, Linked, TypeOK
<1>5. IF q = Null
        THEN /\ head = e /\ head' = mem[e].next /\ mem' = mem
        ELSE /\ q \in Linked /\ mem[q].next = e /\ head' = head
             /\ mem' = [mem EXCEPT ![q].next = mem[e].next]
  BY <1>1 DEF Unlink, WriteCursor, PrevOK
<1>6. /\ mem' \in [Cell -> CellCtx \cup {Free}]
      /\ \A d \in Cell : d # q => mem'[d] = mem[d]
      /\ q # Null => /\ mem'[q] \in CellCtx
                     /\ mem'[q].pk = mem[q].pk /\ mem'[q].ctx = mem[q].ctx
                     /\ mem'[q].next = mem[e].next
  <2>1. CASE q = Null
    BY <1>4, <1>5, <2>1
  <2>2. CASE q # Null
    <3>1. q \in Cell /\ mem[q] \in CellCtx
      BY <1>4, <1>5, <2>2
    <3>2. mem' = [mem EXCEPT ![q] = [mem[q] EXCEPT !.next = mem[e].next]]
      BY <1>5, <2>2
    <3>3. [mem[q] EXCEPT !.next = mem[e].next] \in CellCtx
      BY <1>4, <3>1 DEF CellCtx
    <3> QED
      BY <1>4, <3>1, <3>2, <3>3 DEF CellCtx
  <2> QED
    BY <2>1, <2>2
<1>7. /\ head' \in Cell \cup {Null} /\ live' \in SUBSET Ctx
      /\ held' \in [Pk -> Ctx \cup {Null}]
  BY <1>2, <1>4, <1>5 DEF ListInv, TypeOK
<1>8. TypeOK'
  <2>1. FrameType(g)
    BY <1>3 DEF Left
  <2>2. task' = [task EXCEPT ![t] = g]
    BY <1>3 DEF Goto
  <2> QED
    BY <1>6, <1>7, <2>1, <2>2 DEF ListInv, TypeOK, FrameType
<1>9. /\ Linked' = Linked \ {e}
      /\ q # Null => q # e
      /\ \A d \in Linked : (d # e /\ mem[d].next = e) => d = q
  BY <1>1, <1>5, <1>8, LinkedShrinks DEF ListInv
<1>10. Allocated' = Allocated /\ Allocated \subseteq Linked
  <2>1. q # Null => mem'[q] # Free /\ mem[q] # Free
    BY <1>4, <1>5, <1>6, PkCacheTasksAssumption DEF CellCtx
  <2>2. Allocated' = Allocated
    BY <1>4, <1>6, <2>1 DEF Allocated
  <2> QED
    BY <1>2, <2>2 DEF ListInv, AllocatedOK, Solo, Detached, Idle
<1>11. \A d \in Allocated : mem'[d].pk = mem[d].pk /\ mem'[d].ctx = mem[d].ctx
  BY <1>4, <1>6 DEF Allocated
<1>12. \A d \in Linked : mem'[d].next = IF d = q THEN mem[e].next ELSE mem[d].next
  BY <1>4, <1>6
<1>13. \A d \in Linked : mem[d].next \in Linked \cup {Null}
  BY <1>4, LinkedIsClosed DEF ListInv, Allocated
<1>14. ListOK'
  <2>1. \A d \in Linked' : mem'[d].next # head'
    <3>1. CASE q = Null
      <4>1. CASE head' = Null
        <5>1. Closed({})'
          BY <4>1 DEF Closed
        <5>2. Linked' = {}
          BY <5>1 DEF Linked
        <5> QED
          BY <5>2
      <4>2. CASE head' # Null
        BY <1>1, <1>5, <1>9, <1>12, <3>1, <4>2 DEF ListInv, ListOK
      <4> QED
        BY <4>1, <4>2
    <3>2. CASE q # Null
      BY <1>1, <1>5, <1>9, <1>12, <3>2 DEF ListInv, ListOK
    <3> QED
      BY <3>1, <3>2
  <2>2. ASSUME NEW d \in Linked', NEW c \in Linked',
               mem'[d].next = mem'[c].next, mem'[d].next # Null
        PROVE  d = c
    BY <1>1, <1>9, <1>12, <2>2 DEF ListInv, ListOK
  <2>3. Linked' \subseteq Allocated'
    BY <1>9, <1>10 DEF ListInv, ListOK
  <2> QED
    BY <2>1, <2>2, <2>3 DEF ListOK
<1>15. EntriesOK'
  BY <1>2, <1>10, <1>11 DEF ListInv, EntriesOK
<1>16. HeldOK'
  BY <1>1, <1>2, <1>4, <1>9, <1>11 DEF ListInv, HeldOK
<1>17. FrameOK(g)'
  <2>1. q # e /\ mem'[e] = mem[e]
    BY <1>4, <1>6, <1>9
  <2> QED
    BY <1>1, <1>2, <1>3, <1>4, <1>9, <1>10, <2>1 DEF FrameOK, Left
<1>18. \A d \in (Allocated \ Linked)' : g.at = "release" /\ g.cursor = d
  BY <1>3, <1>9, <1>10 DEF Left
<1> QED
  BY <1>2, <1>3, <1>6, <1>7, <1>14, <1>15, <1>16, <1>17, <1>18, Assemble DEF Left

\* The key context and the entry are freed when nothing leads to them.
LEMMA StepRelease ==
  ASSUME ListInv, NEW t \in Task, Release(t)
  PROVE  ListInv'
<1> PICK f : f = task[t]
  OBVIOUS
<1> PICK e : e = f.cursor
  OBVIOUS
<1>1. /\ FrameType(f) /\ FrameOK(f) /\ f.at = "release" /\ f.op = "free" /\ f.arg \in Pk
      /\ e \in Allocated \ Linked /\ held[f.arg] = Null
  BY Types DEF Release, At, ListInv, FrameOK
<1>2. Solo(t) /\ UNCHANGED <<head, held>>
  BY <1>1, InCallIsSolo DEF At, Release
<1>3. PICK g : Left(f, g, "return", Null) /\ Goto(t, g)
  BY <1>1, LeaveType DEF Line, Release
<1>4. live' = live \ {mem[e].ctx} /\ mem' = [mem EXCEPT ![e] = Free]
  BY DEF Release
<1>5. /\ mem \in [Cell -> CellCtx \cup {Free}] /\ live \in SUBSET Ctx
      /\ held' \in [Pk -> Ctx \cup {Null}] /\ head' \in Cell \cup {Null}
      /\ e \in Cell
  BY <1>1, <1>2 DEF ListInv, TypeOK, Allocated
<1>6. /\ mem'[e] = Free /\ \A d \in Cell : d # e => mem'[d] = mem[d]
      /\ mem' \in [Cell -> CellCtx \cup {Free}]
      /\ live' \in SUBSET Ctx
  BY <1>4, <1>5
<1>7. Linked' = Linked /\ Linked \subseteq Cell
  <2>1. Linked \subseteq Cell
    BY DEF Linked
  <2> QED
    BY <1>1, <1>2, <1>6, <2>1, LinkedStays DEF ListInv
<1>8. Allocated' = Allocated \ {e}
  BY <1>6 DEF Allocated
<1>9. Allocated' \subseteq Linked'
  BY <1>2, <1>7, <1>8, OneDetached
<1>10. ListOK'
  BY <1>1, <1>2, <1>6, <1>7, <1>8 DEF ListInv, ListOK
<1>11. EntriesOK'
  <2>1. \A d \in Allocated' : mem'[d] = mem[d]
    BY <1>6, <1>8 DEF Allocated
  <2>2. /\ live = {mem[d].ctx : d \in Allocated}
        /\ \A d, c \in Allocated : mem[d].ctx = mem[c].ctx => d = c
    BY DEF ListInv, EntriesOK
  <2>3. live' = {mem[d].ctx : d \in Allocated'}
    BY <1>1, <1>4, <1>8, <2>2
  <2> QED
    BY <1>8, <2>1, <2>3 DEF ListInv, EntriesOK
<1>12. HeldOK'
  BY <1>1, <1>2, <1>6, <1>7 DEF ListInv, HeldOK
<1>13. FrameOK(g)'
  BY <1>1, <1>2, <1>3 DEF FrameOK, Left
<1> QED
  BY <1>2, <1>3, <1>5, <1>6, <1>9, <1>10, <1>11, <1>12, <1>13, Assemble DEF Left

-----------------------------------------------------------------------------
LEMMA ListInit ==
  ASSUME Init
  PROVE  ListInv
<1>1. TypeOK
  <2>1. FrameType(Idle)
    BY IdleIsOK
  <2> QED
    BY <2>1 DEF Init, TypeOK, FrameType
<1>2. Allocated = {}
  BY DEF Init, Allocated
<1>3. Linked = {}
  <2>1. Closed({})
    BY DEF Init, Closed
  <2> QED
    BY <2>1 DEF Linked
<1>4. \A t \in Task : FrameOK(task[t])
  BY IdleIsOK DEF Init
<1>5. live = {mem[e].ctx : e \in Allocated}
  BY <1>2 DEF Init
<1> QED
  BY <1>1, <1>2, <1>3, <1>4, <1>5
  DEF Init, ListInv, ListOK, EntriesOK, OneCall, AllocatedOK, HeldOK, At, Idle

\* Every step preserves the invariant.
LEMMA ListNext ==
  ASSUME Serial, ListInv, [Next]_vars
  PROVE  ListInv'
<1>1. ASSUME NEW t \in Task, NEW p \in Pk, CallGet(t, p) \/ CallFree(t, p)
      PROVE  ListInv'
  BY <1>1, StepCall DEF CallGet, CallFree
<1>2. ASSUME NEW t \in Task, NEW c \in Ctx, CallSync(t, c)
      PROVE  ListInv'
  BY <1>2, StepCall DEF CallSync
<1>3. ASSUME NEW t \in Task, Statement(t)
      PROVE  ListInv'
  BY <1>3, StepFind, StepInsert, StepLink, StepPublish, StepRemove, StepUnlink,
     StepRelease, StepReturn DEF Statement
<1>4. ASSUME UNCHANGED vars
      PROVE  ListInv'
  <2>1. Linked' = Linked /\ Allocated' = Allocated
    BY <1>4, AheadStays DEF ListInv, vars
  <2>2. \A t \in Task : FrameOK(task[t])'
    <3> SUFFICES ASSUME NEW t \in Task PROVE FrameOK(task[t])'
      OBVIOUS
    <3> PICK f : f = task[t] /\ f = task'[t]
      BY <1>4 DEF vars
    <3>1. FrameOK(f)
      BY DEF ListInv
    <3>2. Ahead(f) => Ahead(f)'
      BY <1>4, AheadStays DEF ListInv, vars
    <3>3. PrevOK(f) => PrevOK(f)'
      BY <1>4, AheadStays DEF ListInv, vars
    <3>4. FrameOK(f)'
      BY <1>4, <2>1, <3>1, <3>2, <3>3 DEF FrameOK, vars
    <3> QED
      BY <3>4 DEF FrameOK, Ahead, PrevOK, Wanted
  <2>3. TypeOK' /\ OneCall'
    BY <1>4 DEF ListInv, TypeOK, OneCall, At, vars
  <2>4. ListOK' /\ EntriesOK' /\ AllocatedOK' /\ HeldOK'
    BY <1>4, <2>1 DEF ListInv, ListOK, EntriesOK, AllocatedOK, Detached, HeldOK, vars
  <2> QED
    BY <2>2, <2>3, <2>4 DEF ListInv
<1> QED
  BY <1>1, <1>2, <1>3, <1>4 DEF Next

\* The invariant of the list, when callers let one call end before another
\* begins: for any number of tasks, pk contexts and addresses.
THEOREM ListInvariance ==
  ASSUME Serial
  PROVE  Spec => []ListInv
<1>1. Init => ListInv
  BY ListInit
<1>2. ListInv /\ [Next]_vars => ListInv'
  BY ListNext
<1> QED
  BY <1>1, <1>2, PTL DEF Spec

\* The list and the calls are what they are declared to be.
THEOREM ListTypeCorrect ==
  ASSUME Serial
  PROVE  Spec => []TypeOK
<1>1. ListInv => TypeOK
  BY DEF ListInv
<1> QED
  BY <1>1, ListInvariance, PTL

\* No statement of a call is about an entry that was freed.
LEMMA ListIsNotFreed ==
  ASSUME ListInv
  PROVE  NoFreedAccess
<1> SUFFICES ASSUME NEW t \in Task PROVE ~TouchesFreed(t)
  BY DEF NoFreedAccess
<1> PICK f : f = task[t]
  OBVIOUS
<1>1. FrameOK(f) /\ Linked \subseteq Allocated
  BY DEF ListInv, ListOK
<1>2. f.at \in {"find", "remove"} => f.cursor \in Linked \cup {Null}
  BY <1>1 DEF FrameOK, Ahead
<1>3. f.at = "unlink" => f.cursor \in Linked /\ f.prev \in Linked \cup {Null}
  BY <1>1 DEF FrameOK, PrevOK
<1>4. f.at = "release" => f.cursor \in Allocated
  BY <1>1 DEF FrameOK
<1> QED
  BY <1>1, <1>2, <1>3, <1>4 DEF TouchesFreed, At, Allocated

\* cache_find, cache_remove and the search by key context never read or write an
\* entry that was freed, and free none twice.
THEOREM WalksTouchNothingFreed ==
  ASSUME Serial
  PROVE  Spec => []NoFreedAccess
<1>1. ListInv => NoFreedAccess
  BY ListIsNotFreed
<1> QED
  BY <1>1, ListInvariance, PTL

\* When no call is in progress the list reaches every entry and key context
\* that is allocated, and no two entries share a pk context or a key context.
THEOREM ListLeaksNothing ==
  ASSUME Serial
  PROVE  Spec => []NothingLeaks
<1>1. ListInv => NothingLeaks
  <2> SUFFICES ASSUME ListInv, \A t \in Task : At(t, "idle")
               PROVE  /\ Allocated = Linked
                      /\ live = {mem[e].ctx : e \in Linked}
                      /\ \A e, d \in Linked :
                           mem[e].pk = mem[d].pk \/ mem[e].ctx = mem[d].ctx => e = d
    BY DEF NothingLeaks, Allocated
  <2>1. Allocated = Linked
    BY DEF ListInv, ListOK, AllocatedOK, Detached, At
  <2> QED
    BY <2>1 DEF ListInv, EntriesOK
<1> QED
  BY <1>1, ListInvariance, PTL

\* The entry of p is the one that the list, as a map, gives for p.
LEMMA CachedIsTheEntry ==
  ASSUME ListInv, NEW e \in Linked, NEW p \in Pk, mem[e].pk = p
  PROVE  Cached[p] = mem[e].ctx
<1>1. \A d \in Linked : mem[d] # Free /\ (mem[d].pk = p => d = e)
  BY DEF ListInv, ListOK, EntriesOK, Allocated
<1>2. EntriesOf(p) = {e}
  BY <1>1 DEF EntriesOf
<1>3. (CHOOSE d \in EntriesOf(p) : TRUE) = e
  BY <1>2
<1> QED
  BY <1>2, <1>3 DEF Cached

\* The pointer that mbedtls_pk_rsa gave is in the list until its pk context is
\* freed.
THEOREM PointersAreKept ==
  ASSUME Serial
  PROVE  Spec => []PointersStayCached
<1>1. ListInv => PointersStayCached
  BY CachedIsTheEntry DEF ListInv, HeldOK, PointersStayCached
<1> QED
  BY <1>1, ListInvariance, PTL

-----------------------------------------------------------------------------
(* The walks end.  What has no proof here is that a task which can take a  *)
(* step takes one, the fairness of CallsReturn.                            *)

\* The cells that a walk from c visits.
From(c) == {e \in Cell : \A S \in SUBSET Cell : ClosedFrom(c, S) => e \in S}

\* They are the least set that holds c and, with an entry, the next one.
LEMMA FromIsClosed ==
  ASSUME TypeOK, NEW c \in Cell \cup {Null}
  PROVE  /\ From(c) \in SUBSET Cell /\ ClosedFrom(c, From(c))
         /\ \A S \in SUBSET Cell : ClosedFrom(c, S) => From(c) \subseteq S
<1>1. c # Null => c \in From(c)
  BY DEF From, ClosedFrom
<1>2. ASSUME NEW e \in From(c), mem[e] # Free, mem[e].next # Null
      PROVE  mem[e].next \in From(c)
  <2>1. e \in Allocated
    BY <1>2 DEF From, Allocated
  <2>2. mem[e].next \in Cell
    BY <1>2, <2>1, Types
  <2> QED
    BY <1>2, <2>2 DEF From, ClosedFrom
<1>3. \A S \in SUBSET Cell : ClosedFrom(c, S) => From(c) \subseteq S
  BY DEF From
<1> QED
  BY <1>1, <1>2, <1>3 DEF From, ClosedFrom

\* A walk does not come back to an entry of the list that it has left: the
\* entries of a cycle would each have their predecessor in it, so that the head,
\* which has none, would lead to none of them.
LEMMA NoWayBack ==
  ASSUME TypeOK, ListOK, NEW c \in Linked
  PROVE  c \notin From(mem[c].next)
<1> DEFINE n == mem[c].next
           C == From(n)
<1> SUFFICES ASSUME c \in C PROVE FALSE
  OBVIOUS
<1>0. /\ c \in Cell /\ Null \notin Cell /\ n \in Linked \cup {Null} /\ Linked \in SUBSET Cell
      /\ \A e \in Linked : /\ e \in Cell /\ mem[e] # Free /\ mem[e] \in CellCtx
                           /\ mem[e].next \in Linked \cup {Null}
  BY LinkedIsClosed, Types DEF ListOK, Allocated
<1>1. C \in SUBSET Cell /\ ClosedFrom(n, C)
      /\ \A S \in SUBSET Cell : ClosedFrom(n, S) => C \subseteq S
  BY <1>0, FromIsClosed
<1>2. C \subseteq Linked
  <2>1. ClosedFrom(n, Linked)
    BY <1>0 DEF ClosedFrom
  <2> QED
    BY <1>0, <1>1, <2>1
<1> HIDE DEF C
<1>3. \A e \in C : \E d \in C : mem[d].next = e
  <2> DEFINE D == {e \in C : \E d \in C : mem[d].next = e}
  <2>1. n # Null => n \in D
    BY <1>1 DEF ClosedFrom
  <2>2. \A e \in D : mem[e] # Free /\ mem[e].next # Null => mem[e].next \in D
    BY <1>1 DEF ClosedFrom
  <2>3. ClosedFrom(n, D) /\ D \in SUBSET Cell
    BY <1>1, <2>1, <2>2 DEF ClosedFrom
  <2> QED
    BY <1>1, <2>3
<1>4. head \notin C
  BY <1>2, <1>3 DEF ListOK
<1>5. Closed(Linked \ C)
  <2>1. head # Null => head \in Linked \ C
    BY <1>4, LinkedIsClosed
  <2>2. ASSUME NEW e \in Linked \ C, mem[e].next # Null PROVE mem[e].next \in Linked \ C
    <3>1. mem[e].next \in Linked
      BY <1>0, <2>2
    <3>2. ASSUME mem[e].next \in C PROVE FALSE
      <4>1. PICK d \in C : mem[d].next = mem[e].next
        BY <1>3, <3>2
      <4>2. d \in Linked /\ e \in Linked
        BY <1>2, <4>1
      <4>3. e = d
        BY <2>2, <4>1, <4>2 DEF ListOK
      <4> QED
        BY <2>2, <4>3
    <3> QED
      BY <3>1, <3>2
  <2> QED
    BY <2>1, <2>2 DEF Closed
<1>6. Linked \subseteq Linked \ C
  BY <1>0, <1>5, LinkedIsClosed
<1> QED
  BY <1>6

\* How many entries the walk of a frame can still visit.
Way(f) == IF f.at \in {"find", "remove"} THEN Cardinality(From(f.cursor)) ELSE 0

\* How many statements a call still has after the walk.
Rest(l) ==
  CASE l = "find" -> 5 [] l = "insert" -> 4 [] l = "link" -> 3 [] l = "publish" -> 2
    [] l = "remove" -> 4 [] l = "unlink" -> 3 [] l = "release" -> 2
    [] l = "return" -> 1 [] OTHER -> 0

ToGo(t) == Rest(task[t].at) + Way(task[t])

\* It is a number, as memory is finite.
LEMMA WayType ==
  ASSUME IsFiniteSet(Cell), NEW f
  PROVE  Way(f) \in Nat
<1>1. From(f.cursor) \in SUBSET Cell
  BY DEF From
<1> QED
  BY <1>1, FS_Subset, FS_CardinalityType DEF Way

\* Moving on leaves fewer entries ahead.
LEMMA WayShrinks ==
  ASSUME IsFiniteSet(Cell), TypeOK, ListOK, NEW c \in Linked
  PROVE  Cardinality(From(mem[c].next)) < Cardinality(From(c))
<1> DEFINE n == mem[c].next
<1>0. c \in Cell /\ mem[c] # Free /\ n \in Cell \cup {Null} /\ c # Null
  BY LinkedIsClosed, Types DEF ListOK, Allocated
<1>1. /\ From(c) \in SUBSET Cell /\ ClosedFrom(c, From(c))
      /\ \A S \in SUBSET Cell : ClosedFrom(n, S) => From(n) \subseteq S
  BY <1>0, FromIsClosed
<1>2. ClosedFrom(n, From(c)) /\ c \in From(c)
  BY <1>0, <1>1 DEF ClosedFrom
<1>3. From(n) \subseteq From(c) /\ From(n) # From(c)
  BY <1>1, <1>2, NoWayBack
<1>4. IsFiniteSet(From(c)) /\ Cardinality(From(c)) \in Nat
  BY <1>1, FS_Subset, FS_CardinalityType
<1>5. /\ Cardinality(From(n)) \in Nat /\ Cardinality(From(n)) <= Cardinality(From(c))
      /\ Cardinality(From(n)) # Cardinality(From(c))
  BY <1>3, <1>4, FS_Subset, FS_CardinalityType
<1> QED
  BY <1>4, <1>5

\* A statement of t goes to the line l, which has less after it than any walk.
LEMMA LeavingIsNearer ==
  ASSUME IsFiniteSet(Cell), NEW t \in Task, task'[t].at \notin {"find", "remove"},
         Rest(task'[t].at) < Rest(task[t].at)
  PROVE  ToGo(t)' < ToGo(t)
<1>1. Way(task[t]) \in Nat
  BY WayType
<1>2. ToGo(t)' = Rest(task'[t].at) + 0
  BY DEF ToGo, Way
<1>3. Rest(task[t].at) \in Nat /\ Rest(task'[t].at) \in Nat
  BY DEF Rest
<1> QED
  BY <1>1, <1>2, <1>3 DEF ToGo

\* Every statement of a call brings it nearer to its end.
LEMMA StatementIsNearer ==
  ASSUME IsFiniteSet(Cell), ListInv, NEW t \in Task, Statement(t)
  PROVE  ToGo(t)' < ToGo(t)
<1>1. task \in [Task -> Frame] /\ task[t] \in Frame
  BY DEF ListInv, TypeOK
<1>2. ASSUME NEW l \in Line, NEW r, Leave(t, l, r) PROVE task'[t].at = l
  BY <1>1, <1>2 DEF Leave, Goto, Frame
<1>3. ASSUME task[t].at \in {"find", "remove"}, AtEntry(t), Advance(t), mem' = mem
      PROVE  ToGo(t)' < ToGo(t)
  <2> DEFINE c == task[t].cursor
  <2>1. c \in Linked
    BY <1>3 DEF ListInv, FrameOK, Ahead, AtEntry
  <2>2. task'[t].at = task[t].at /\ task'[t].cursor = mem[c].next
    BY <1>1, <1>3 DEF Advance, Goto, Frame
  <2>3. Cardinality(From(mem[c].next)) < Cardinality(From(c))
    BY <2>1, WayShrinks DEF ListInv
  <2>4. \A d : From(d)' = From(d)
    BY <1>3 DEF From, ClosedFrom
  <2>5. Way(task[t]) \in Nat /\ Rest(task[t].at) \in Nat
    BY WayType DEF Rest
  <2>6. Way(task[t]) = Cardinality(From(c))
    BY <1>3 DEF Way
  <2>7. ToGo(t)' = Rest(task[t].at) + Cardinality(From(mem[c].next))
    BY <1>3, <2>2, <2>4 DEF ToGo, Way
  <2>8. Cardinality(From(mem[c].next)) \in Nat
    BY WayType, FS_Subset, FS_CardinalityType DEF From
  <2> HIDE DEF c
  <2> QED
    BY <2>3, <2>5, <2>6, <2>7, <2>8 DEF ToGo
<1>4. CASE Find(t)
  <2>1. CASE AtEntry(t) /\ Advance(t)
    BY <1>3, <1>4, <2>1 DEF Find, At
  <2>2. CASE \E r : Leave(t, "return", r) \/ Leave(t, "insert", r)
    <3>1. task'[t].at \in {"return", "insert"}
      BY <1>2, <2>2 DEF Line
    <3> QED
      BY <1>4, <3>1, LeavingIsNearer DEF Find, At, Rest
  <2> QED
    BY <1>4, <2>1, <2>2 DEF Find
<1>5. CASE Remove(t)
  <2>1. CASE AtEntry(t) /\ Advance(t)
    BY <1>3, <1>5, <2>1 DEF Remove, At
  <2>2. CASE \E r : Leave(t, "return", r) \/ Leave(t, "unlink", r)
    <3>1. task'[t].at \in {"return", "unlink"}
      BY <1>2, <2>2 DEF Line
    <3> QED
      BY <1>5, <3>1, LeavingIsNearer DEF Remove, At, Rest
  <2> QED
    BY <1>5, <2>1, <2>2 DEF Remove
<1>6. CASE Insert(t)
  <2>1. task[t].at = "insert"
    BY <1>6 DEF Insert, At
  <2>2. ASSUME NEW c, NEW e, Goto(t, [task[t] EXCEPT !.at = "link", !.cursor = e, !.ctx = c])
        PROVE  task'[t].at = "link"
    BY <1>1, <2>2 DEF Goto, Frame
  <2>3. Leave(t, "return", Null) => task'[t].at = "return"
    BY <1>2 DEF Line
  <2>4. task'[t].at \in {"link", "return"}
    BY <1>6, <2>2, <2>3 DEF Insert
  <2> QED
    BY <2>1, <2>4, LeavingIsNearer DEF Rest
<1>7. CASE Link(t) \/ Publish(t) \/ Unlink(t) \/ Release(t)
  <2>1. \/ task[t].at = "link" /\ task'[t].at = "publish"
        \/ task[t].at = "publish" /\ task'[t].at = "return"
        \/ task[t].at = "unlink" /\ task'[t].at = "release"
        \/ task[t].at = "release" /\ task'[t].at = "return"
    BY <1>2, <1>7 DEF Link, Publish, Unlink, Release, At, Line
  <2> QED
    BY <2>1, LeavingIsNearer DEF Rest
<1>8. CASE Return(t)
  <2>1. task[t].at = "return" /\ task'[t].at = "idle"
    BY <1>1, <1>8 DEF Return, Goto, At, Idle
  <2> QED
    BY <2>1, LeavingIsNearer DEF Rest
<1> QED
  BY <1>4, <1>5, <1>6, <1>7, <1>8 DEF Statement

\* Every step that is taken while a call is in progress brings that call nearer
\* to its end: no walk of cache_find, cache_remove or the search by key context
\* goes in a circle, and nothing else comes between.
THEOREM WalksEnd ==
  ASSUME Serial, IsFiniteSet(Cell)
  PROVE  Spec => /\ [](\A t \in Task : ToGo(t) \in Nat)
                 /\ [][\A t \in Task : ~At(t, "idle") => ToGo(t)' < ToGo(t)]_vars
<1>1. \A t \in Task : ToGo(t) \in Nat
  BY WayType DEF ToGo, Rest
<1>2. ASSUME ListInv, [Next]_vars
      PROVE  [\A t \in Task : ~At(t, "idle") => ToGo(t)' < ToGo(t)]_vars
  <2>1. ASSUME NEW u \in Task, Statement(u), NEW t \in Task, ~At(t, "idle")
        PROVE  ToGo(t)' < ToGo(t)
    <3>1. ~At(u, "idle")
      BY <2>1 DEF Statement, Find, Insert, Link, Publish, Remove, Unlink, Release, Return, At
    <3>2. u = t
      BY <1>2, <2>1, <3>1 DEF ListInv, OneCall
    <3> QED
      BY <1>2, <2>1, <3>2, StatementIsNearer
  <2>2. ASSUME NEW u \in Task, NEW p \in Pk, CallGet(u, p) \/ CallFree(u, p)
        PROVE  \A t \in Task : At(t, "idle")
    BY <2>2 DEF CallGet, CallFree, Enter
  <2>3. ASSUME NEW u \in Task, NEW c \in Ctx, CallSync(u, c)
        PROVE  \A t \in Task : At(t, "idle")
    BY <2>3 DEF CallSync, Enter
  <2> QED
    BY <1>2, <2>1, <2>2, <2>3 DEF Next
<1> QED
  BY <1>1, <1>2, ListInvariance, PTL DEF Spec

-----------------------------------------------------------------------------
(* The list implements a map on which each call takes effect in one step.  *)

\* The map that the list is.
CachedOK ==
  /\ Cached = [p \in Pk |-> Cached[p]]
  /\ \A e \in Linked : Cached[mem[e].pk] = mem[e].ctx
  /\ \A p \in Pk : \/ Cached[p] = Null /\ \A e \in Linked : mem[e].pk # p
                   \/ \E e \in Linked : mem[e].pk = p /\ mem[e].ctx = Cached[p]

LEMMA ListIsMap == ListInv => CachedOK
<1> SUFFICES ASSUME ListInv PROVE CachedOK
  OBVIOUS
<1>1. Cached = [p \in Pk |-> Cached[p]]
  BY DEF Cached
<1>2. \A e \in Linked : Cached[mem[e].pk] = mem[e].ctx
  BY CachedIsTheEntry, Types DEF ListInv, ListOK
<1>3. ASSUME NEW p \in Pk, \A e \in Linked : mem[e].pk # p
      PROVE  Cached[p] = Null
  <2>1. EntriesOf(p) = {}
    BY <1>3 DEF EntriesOf
  <2> QED
    BY <2>1 DEF Cached
<1>4. ASSUME NEW p \in Pk, NEW e \in Linked, mem[e].pk = p
      PROVE  mem[e].ctx = Cached[p]
  BY <1>4, CachedIsTheEntry
<1> QED
  BY <1>1, <1>2, <1>3, <1>4 DEF CachedOK

\* A step that leaves the entries of the list and what they map alone.
LEMMA MapStays ==
  ASSUME ListInv, ListInv', Linked' = Linked,
         \A e \in Linked : mem'[e].pk = mem[e].pk /\ mem'[e].ctx = mem[e].ctx
  PROVE  Cached' = Cached
<1>1. CachedOK /\ CachedOK'
  BY ListIsMap, PTL
<1>2. ASSUME NEW p \in Pk PROVE Cached'[p] = Cached[p]
  BY <1>1 DEF CachedOK
<1>3. Cached' = [p \in Pk |-> Cached'[p]] /\ Cached = [p \in Pk |-> Cached[p]]
  BY <1>1 DEF CachedOK
<1> QED
  BY <1>2, <1>3

\* The call of a frame, as a caller sees it.
AsCall(f) ==
  [op |-> f.op, arg |-> f.arg, done |-> f.at \in {"release", "return"},
   res |-> IF f.at \in {"release", "return"} THEN f.res ELSE Null]

LEMMA CallsStep ==
  ASSUME TypeOK, NEW t \in Task, NEW g, Goto(t, g)
  PROVE  /\ Calls = [u \in Task |-> AsCall(task[u])]
         /\ Calls' = [Calls EXCEPT ![t] = AsCall(g)]
<1>1. Calls = [u \in Task |-> AsCall(task[u])]
  BY DEF Calls, AsCall, Effective
<1>2. Calls' = [u \in Task |-> AsCall(task'[u])]
  BY DEF Calls, AsCall, Effective
<1>3. \A u \in Task : task'[u] = IF u = t THEN g ELSE task[u]
  BY DEF Goto, TypeOK
<1> HIDE DEF AsCall
<1> QED
  BY <1>1, <1>2, <1>3

LEMMA CallStays ==
  ASSUME TypeOK, NEW t \in Task, NEW g, Goto(t, g), AsCall(g) = AsCall(task[t])
  PROVE  Calls' = Calls
  BY CallsStep

\* A statement after which its call has taken effect is the answer of it.
LEMMA CallAnswers ==
  ASSUME TypeOK, NEW t \in Task, NEW g, Goto(t, g),
         g.op = task[t].op, g.arg = task[t].arg,
         task[t].at \notin {"release", "return"}, g.at \in {"release", "return"}
  PROVE  /\ Abstract!Answer(t, g.res)
         /\ Calls[t].op = task[t].op /\ Calls[t].arg = task[t].arg
         /\ Calls[t].done = FALSE
<1> PICK f : f = task[t]
  OBVIOUS
<1>1. AsCall(g) = Abstract!Answered(AsCall(f), g.res)
  <2>1. (g.at \in {"release", "return"}) = TRUE
    OBVIOUS
  <2>2. AsCall(g) = [op |-> f.op, arg |-> f.arg, done |-> TRUE, res |-> g.res]
    BY <2>1, Zenon DEF AsCall
  <2>3. AsCall(f).op = f.op /\ AsCall(f).arg = f.arg
    BY DEF AsCall
  <2> QED
    BY <2>2, <2>3 DEF Abstract!Answered
<1>2. AsCall(f).op = f.op /\ AsCall(f).arg = f.arg /\ AsCall(f).done = FALSE
  <2>1. (f.at \in {"release", "return"}) = FALSE
    OBVIOUS
  <2>2. AsCall(f) = [op |-> f.op, arg |-> f.arg, done |-> FALSE, res |-> Null]
    BY <2>1, Zenon DEF AsCall
  <2> QED
    BY <2>2
<1>3. Calls[t] = AsCall(f) /\ Calls' = [Calls EXCEPT ![t] = AsCall(g)]
  <2>1. Calls = [u \in Task |-> AsCall(task[u])] /\ Calls' = [Calls EXCEPT ![t] = AsCall(g)]
    BY CallsStep
  <2> HIDE DEF AsCall
  <2> QED
    BY <2>1
<1> QED
  BY <1>1, <1>2, <1>3 DEF Abstract!Answer

\* What a step of the list is to its callers: a step of the map, or none.
MapStep == Abstract!Next \/ UNCHANGED <<Cached, Calls>>

LEMMA SameCall ==
  ASSUME NEW f, NEW g, g.op = f.op, g.arg = f.arg,
         \/ f.at \notin {"release", "return"} /\ g.at \notin {"release", "return"}
         \/ /\ f.at \in {"release", "return"} /\ g.at \in {"release", "return"}
            /\ g.res = f.res
  PROVE  AsCall(g) = AsCall(f)
<1>1. (g.at \in {"release", "return"}) = (f.at \in {"release", "return"})
  OBVIOUS
<1>2. CASE f.at \in {"release", "return"}
  BY <1>1, <1>2, Zenon DEF AsCall
<1>3. CASE f.at \notin {"release", "return"}
  BY <1>1, <1>3, Zenon DEF AsCall
<1> QED
  BY <1>2, <1>3

\* A step that callers do not see.
LEMMA MapStutters ==
  ASSUME ListInv, ListInv', NEW t \in Task, NEW g, Goto(t, g),
         AsCall(g) = AsCall(task[t]), Linked' = Linked,
         \A e \in Linked : mem'[e].pk = mem[e].pk /\ mem'[e].ctx = mem[e].ctx
  PROVE  MapStep
<1>1. Calls' = Calls
  BY CallStays DEF ListInv
<1> QED
  BY <1>1, MapStays DEF MapStep

LEMMA IdleIsNoCall == AsCall(Idle) = Abstract!NoCall
<1>1. (Idle.at \in {"release", "return"}) = FALSE
  BY DEF Idle
<1>2. AsCall(Idle) = [op |-> Idle.op, arg |-> Idle.arg, done |-> FALSE, res |-> Null]
  BY <1>1, Zenon DEF AsCall
<1> QED
  BY <1>2 DEF Idle, Abstract!NoCall, Abstract!Asked

\* The beginning of a call.
LEMMA MapCall ==
  ASSUME ListInv, ListInv', NEW t \in Task, NEW op, NEW x,
         NEW l \in {"find", "remove"}, Enter(t, op, x, l),
         \/ op \in {"get", "free"} /\ x \in Pk
         \/ op = "sync" /\ x \in Ctx
  PROVE  MapStep
<1> PICK f : f = [Idle EXCEPT !.at = l, !.op = op, !.arg = x, !.cursor = head]
  OBVIOUS
<1>1. /\ f.at = l /\ f.op = op /\ f.arg = x
      /\ Goto(t, f) /\ UNCHANGED <<head, mem, live>>
  BY DEF Enter, Idle
<1>2. task[t] = Idle
  BY DEF ListInv, FrameOK, Enter, At
<1>3. AsCall(Idle) = Abstract!NoCall
  BY IdleIsNoCall
<1>4. AsCall(f) = Abstract!Asked(op, x)
  <2>1. (f.at \in {"release", "return"}) = FALSE
    BY <1>1
  <2> QED
    BY <1>1, <2>1, Zenon DEF AsCall, Abstract!Asked
<1>5. Calls[t] = Abstract!NoCall /\ Calls' = [Calls EXCEPT ![t] = AsCall(f)]
  <2>1. /\ Calls = [u \in Task |-> AsCall(task[u])]
        /\ Calls' = [Calls EXCEPT ![t] = AsCall(f)]
    BY <1>1, CallsStep DEF ListInv
  <2> HIDE DEF AsCall
  <2> QED
    BY <1>2, <1>3, <2>1
<1>6. Cached' = Cached
  <2>1. Linked' = Linked
    BY <1>1, AheadStays DEF ListInv
  <2> QED
    BY <1>1, <2>1, MapStays
<1>7. Abstract!Begin(t, op, x)
  BY <1>4, <1>5, <1>6, Zenon DEF Abstract!Begin
<1> QED
  BY <1>7, Zenon DEF MapStep, Abstract!Next

\* Three ways for a call to take effect.
LEMMA MapGet ==
  ASSUME NEW t \in Task, NEW p \in Pk, NEW r, Calls[t].arg = p,
         Abstract!Pending(t, "get"), Abstract!Answer(t, r),
         \/ Cached[p] # Null /\ r = Cached[p] /\ Cached' = Cached
         \/ Cached[p] = Null /\ r = Null /\ Cached' = Cached
         \/ /\ Cached[p] = Null /\ r \in Ctx /\ \A q \in Pk : Cached[q] # r
            /\ Cached' = [Cached EXCEPT ![p] = r]
  PROVE  MapStep
<1>1. Abstract!Get(t)
  BY DEF Abstract!Get
<1> QED
  BY <1>1 DEF MapStep, Abstract!Next, Abstract!TakeEffect

LEMMA MapFree ==
  ASSUME NEW t \in Task, NEW p \in Pk, Calls[t].arg = p,
         Abstract!Pending(t, "free"), Abstract!Answer(t, Null),
         Cached' = [Cached EXCEPT ![p] = Null]
  PROVE  MapStep
<1>1. Abstract!FreePk(t)
  BY DEF Abstract!FreePk
<1> QED
  BY <1>1 DEF MapStep, Abstract!Next, Abstract!TakeEffect

LEMMA MapSync ==
  ASSUME NEW t \in Task, NEW c, NEW r, Calls[t].arg = c,
         Abstract!Pending(t, "sync"), Abstract!Answer(t, r), Cached' = Cached,
         \/ r \in Pk /\ Cached[r] = c
         \/ r = Null /\ \A p \in Pk : Cached[p] # c
  PROVE  MapStep
<1>1. Abstract!Sync(t)
  BY DEF Abstract!Sync
<1> QED
  BY <1>1 DEF MapStep, Abstract!Next, Abstract!TakeEffect

\* The statement of a task that ends its walk.
LEMMA MapLeaves ==
  ASSUME ListInv, NEW t \in Task, NEW g, NEW l, NEW r,
         Left(task[t], g, l, r), Goto(t, g),
         task[t].at \notin {"release", "return"}, l \in {"release", "return"}
  PROVE  /\ Abstract!Answer(t, r) /\ Abstract!Pending(t, task[t].op)
         /\ Calls[t].arg = task[t].arg
<1>1. TypeOK /\ g.op = task[t].op /\ g.arg = task[t].arg /\ g.at \in {"release", "return"}
      /\ g.res = r
  BY DEF ListInv, Left
<1> QED
  BY <1>1, CallAnswers DEF Abstract!Pending

LEMMA MapAdvances ==
  ASSUME ListInv, ListInv', NEW t \in Task, task[t].at \in {"find", "remove"},
         Advance(t), UNCHANGED <<head, mem>>
  PROVE  MapStep
<1> PICK f : f = task[t]
  OBVIOUS
<1> PICK g : g = [f EXCEPT !.cursor = mem[f.cursor].next, !.prev = f.cursor]
  OBVIOUS
<1>1. FrameType(f) /\ Goto(t, g)
  BY Types DEF Advance, ListInv
<1>2. g.at = f.at /\ g.op = f.op /\ g.arg = f.arg
  BY <1>1 DEF FrameType, Frame
<1>3. AsCall(g) = AsCall(f)
  BY <1>2, SameCall
<1>4. Linked' = Linked
  BY AheadStays DEF ListInv
<1> QED
  BY <1>1, <1>3, <1>4, MapStutters

LEMMA MapFind ==
  ASSUME ListInv, ListInv', NEW t \in Task, Find(t)
  PROVE  MapStep
<1> PICK f : f = task[t]
  OBVIOUS
<1>1. FrameType(f) /\ FrameOK(f) /\ f.at = "find" /\ f.op \in {"get", "sync"} /\ Ahead(f)
  BY Types DEF Find, At, ListInv, FrameOK
<1>2. UNCHANGED <<head, mem, live, held>>
  BY DEF Find
<1>3. Linked' = Linked /\ Cached' = Cached /\ CachedOK
  <2>1. Linked' = Linked
    BY <1>2, AheadStays DEF ListInv
  <2> QED
    BY <1>2, <2>1, MapStays, ListIsMap
<1>4. f.op = "get" => f.arg \in Pk
  BY <1>1 DEF FrameOK
<1>5. f.op = "sync" => f.arg \in Ctx /\ f.arg # Null
  BY <1>1, PkCacheTasksAssumption DEF FrameOK
<1>6. ASSUME AtEntry(t), Matches(f), Leave(t, "return", Found(t))
      PROVE  MapStep
  <2> PICK r : r = Found(t)
    OBVIOUS
  <2>1. f.cursor \in Linked /\ f.cursor \in Allocated
    BY <1>1, <1>6 DEF AtEntry, Ahead, ListInv, ListOK
  <2>2. r = (IF f.op = "sync" THEN mem[f.cursor].pk ELSE mem[f.cursor].ctx)
    BY DEF Found
  <2>3. mem[f.cursor].pk \in Pk /\ mem[f.cursor].ctx \in Ctx /\ mem[f.cursor].ctx # Null
    BY <2>1, Types, PkCacheTasksAssumption DEF ListInv
  <2>4. Cached[mem[f.cursor].pk] = mem[f.cursor].ctx
    BY <1>3, <2>1 DEF CachedOK
  <2>5. PICK g : Left(f, g, "return", r) /\ Goto(t, g)
    BY <1>1, <1>6, <2>2, <2>3, LeaveType DEF Line
  <2>6. /\ Abstract!Answer(t, r) /\ Abstract!Pending(t, f.op)
        /\ Calls[t].arg = f.arg
    BY <1>1, <2>5, MapLeaves
  <2>7. CASE f.op = "get"
    <3>1. Cached[f.arg] # Null /\ r = Cached[f.arg]
      BY <1>6, <2>2, <2>3, <2>4, <2>7 DEF Matches
    <3> QED
      BY <1>3, <1>4, <2>6, <2>7, <3>1, MapGet
  <2>8. CASE f.op = "sync"
    <3>1. r \in Pk /\ Cached[r] = f.arg
      BY <1>6, <2>2, <2>3, <2>4, <2>8 DEF Matches
    <3> QED
      BY <1>3, <2>6, <2>8, <3>1, MapSync
  <2> QED
    BY <1>1, <2>7, <2>8
<1>7. ASSUME f.cursor = Null, f.op = "sync", Leave(t, "return", Null)
      PROVE  MapStep
  <2>1. PICK g : Left(f, g, "return", Null) /\ Goto(t, g)
    BY <1>1, <1>7, LeaveType DEF Line
  <2>2. /\ Abstract!Answer(t, Null) /\ Abstract!Pending(t, f.op)
        /\ Calls[t].arg = f.arg
    BY <1>1, <2>1, MapLeaves
  <2>3. \A p \in Pk : Cached[p] # f.arg
    <3>1. ClosedFrom(f.cursor, {})
      BY <1>7 DEF ClosedFrom
    <3>2. \A e \in Linked : ~Wanted(f, e)
      BY <1>1, <3>1 DEF Ahead
    <3> QED
      BY <1>3, <1>5, <1>7, <3>2 DEF Wanted, CachedOK
  <2> QED
    BY <1>3, <1>7, <2>2, <2>3, MapSync
<1>8. ASSUME f.cursor = Null, f.op # "sync", Leave(t, "insert", Null)
      PROVE  MapStep
  <2>1. PICK g : Left(f, g, "insert", Null) /\ Goto(t, g)
    BY <1>1, <1>8, LeaveType DEF Line
  <2>2. AsCall(g) = AsCall(f)
    BY <1>1, <2>1, SameCall DEF Left
  <2> QED
    BY <1>2, <1>3, <2>1, <2>2, MapStutters
<1>9. ASSUME Advance(t)
      PROVE  MapStep
  BY <1>1, <1>2, <1>9, MapAdvances
<1> QED
  BY <1>6, <1>7, <1>8, <1>9 DEF Find

LEMMA MapInsert ==
  ASSUME ListInv, ListInv', NEW t \in Task, Insert(t)
  PROVE  MapStep
<1> PICK f : f = task[t]
  OBVIOUS
<1>1. /\ FrameType(f) /\ FrameOK(f) /\ f.at = "insert" /\ f.op = "get" /\ f.arg \in Pk
      /\ \A e \in Linked : mem[e].pk # f.arg
  BY Types DEF Insert, At, ListInv, FrameOK
<1>2. UNCHANGED <<head, held>> /\ CachedOK
  BY ListIsMap DEF Insert
<1>3. ASSUME Leave(t, "return", Null), UNCHANGED <<mem, live>>
      PROVE  MapStep
  <2>1. PICK g : Left(f, g, "return", Null) /\ Goto(t, g)
    BY <1>1, <1>3, LeaveType DEF Line
  <2>2. /\ Abstract!Answer(t, Null) /\ Abstract!Pending(t, "get")
        /\ Calls[t].arg = f.arg
    BY <1>1, <2>1, MapLeaves
  <2>3. Linked' = Linked
    BY <1>2, <1>3, AheadStays DEF ListInv
  <2>4. Cached' = Cached
    BY <1>3, <2>3, MapStays
  <2>5. Cached[f.arg] = Null
    BY <1>1, <1>2 DEF CachedOK
  <2> QED
    BY <1>1, <2>2, <2>4, <2>5, MapGet
<1>4. ASSUME NEW c \in Ctx, NEW e \in Cell, mem[e] = Free,
             mem' = [mem EXCEPT ![e] = [pk |-> f.arg, ctx |-> c, next |-> Null]],
             Goto(t, [f EXCEPT !.at = "link", !.cursor = e, !.ctx = c])
      PROVE  MapStep
  <2> PICK g : g = [f EXCEPT !.at = "link", !.cursor = e, !.ctx = c]
    OBVIOUS
  <2>1. g.at = "link" /\ g.op = f.op /\ g.arg = f.arg /\ Goto(t, g)
    BY <1>1, <1>4 DEF FrameType, Frame
  <2>2. AsCall(g) = AsCall(f)
    BY <1>1, <2>1, SameCall
  <2>3. e \notin Linked /\ Linked \subseteq Cell
    BY <1>4 DEF ListInv, ListOK, Allocated, Linked
  <2>4. \A d \in Linked : mem'[d] = mem[d]
    BY <1>4, <2>3 DEF ListInv, TypeOK
  <2>5. Linked' = Linked
    BY <1>2, <2>4, LinkedStays DEF ListInv
  <2> QED
    BY <2>1, <2>2, <2>4, <2>5, MapStutters
<1> QED
  BY <1>3, <1>4 DEF Insert

LEMMA MapLink ==
  ASSUME ListInv, ListInv', NEW t \in Task, Link(t)
  PROVE  MapStep
<1> PICK f : f = task[t]
  OBVIOUS
<1> PICK e : e = f.cursor
  OBVIOUS
<1>1. FrameType(f) /\ f.at = "link" /\ e \in Allocated \ Linked
  BY Types DEF Link, At, ListInv, FrameOK
<1>2. PICK g : Left(f, g, "publish", Null) /\ Goto(t, g)
  BY <1>1, LeaveType DEF Line, Link
<1>3. AsCall(g) = AsCall(f)
  BY <1>1, <1>2, SameCall DEF Left
<1>4. \A d \in Linked : mem'[d] = mem[d]
  <2>1. \A d \in Cell : d # e => mem'[d] = mem[d]
    BY DEF Link, ListInv, TypeOK
  <2> QED
    BY <1>1, <2>1 DEF Linked
<1>5. Linked' = Linked
  BY <1>4, LinkedStays DEF ListInv, Link
<1> QED
  BY <1>2, <1>3, <1>4, <1>5, MapStutters

LEMMA MapPublish ==
  ASSUME ListInv, ListInv', NEW t \in Task, Publish(t)
  PROVE  MapStep
<1> PICK f : f = task[t]
  OBVIOUS
<1> PICK e : e = f.cursor
  OBVIOUS
<1>1. /\ FrameType(f) /\ f.at = "publish" /\ f.op = "get" /\ f.arg \in Pk
      /\ \A d \in Linked : mem[d].pk # f.arg
      /\ e \in Allocated \ Linked /\ mem[e].pk = f.arg /\ mem[e].ctx = f.ctx
      /\ mem[e].next = head
  BY Types DEF Publish, At, ListInv, FrameOK
<1>2. UNCHANGED mem /\ head' = e
  BY DEF Publish
<1>3. f.ctx \in Ctx /\ f.ctx # Null
  BY <1>1, Types, PkCacheTasksAssumption DEF ListInv
<1>4. PICK g : Left(f, g, "return", f.ctx) /\ Goto(t, g)
  BY <1>1, <1>3, LeaveType DEF Line, Publish
<1>5. /\ Abstract!Answer(t, f.ctx) /\ Abstract!Pending(t, "get")
      /\ Calls[t].arg = f.arg
  BY <1>1, <1>4, MapLeaves
<1>6. Linked' = Linked \cup {e}
  BY <1>1, <1>2, LinkedGrows DEF ListInv
<1>7. CachedOK /\ CachedOK'
  BY ListIsMap, PTL
<1>8. \A q \in Pk : Cached[q] # f.ctx
  <2>1. \A d \in Linked : mem[d].ctx # f.ctx
    BY <1>1 DEF ListInv, ListOK, EntriesOK
  <2> QED
    BY <1>3, <1>7, <2>1 DEF CachedOK
<1>9. Cached[f.arg] = Null
  BY <1>1, <1>7 DEF CachedOK
<1>10. Cached' = [Cached EXCEPT ![f.arg] = f.ctx]
  <2>1. Cached'[f.arg] = f.ctx
    BY <1>1, <1>2, <1>6, <1>7 DEF CachedOK
  <2>2. ASSUME NEW q \in Pk, q # f.arg PROVE Cached'[q] = Cached[q]
    BY <1>1, <1>2, <1>6, <1>7, <2>2 DEF CachedOK
  <2>3. Cached' = [q \in Pk |-> Cached'[q]] /\ Cached = [q \in Pk |-> Cached[q]]
    BY <1>7 DEF CachedOK
  <2> QED
    BY <1>1, <2>1, <2>2, <2>3
<1> QED
  BY <1>1, <1>3, <1>5, <1>8, <1>9, <1>10, MapGet

LEMMA MapRemove ==
  ASSUME ListInv, ListInv', NEW t \in Task, Remove(t)
  PROVE  MapStep
<1> PICK f : f = task[t]
  OBVIOUS
<1>1. FrameType(f) /\ FrameOK(f) /\ f.at = "remove" /\ f.op = "free" /\ Ahead(f)
      /\ f.arg \in Pk
  BY Types DEF Remove, At, ListInv, FrameOK
<1>2. UNCHANGED <<head, mem, live, held>>
  BY DEF Remove
<1>3. Linked' = Linked /\ Cached' = Cached /\ CachedOK
  <2>1. Linked' = Linked
    BY <1>2, AheadStays DEF ListInv
  <2> QED
    BY <1>2, <2>1, MapStays, ListIsMap
<1>4. ASSUME Leave(t, "unlink", Null)
      PROVE  MapStep
  <2>1. PICK g : Left(f, g, "unlink", Null) /\ Goto(t, g)
    BY <1>1, <1>4, LeaveType DEF Line
  <2>2. AsCall(g) = AsCall(f)
    BY <1>1, <2>1, SameCall DEF Left
  <2> QED
    BY <1>2, <1>3, <2>1, <2>2, MapStutters
<1>5. ASSUME f.cursor = Null, Leave(t, "return", Null)
      PROVE  MapStep
  <2>1. PICK g : Left(f, g, "return", Null) /\ Goto(t, g)
    BY <1>1, <1>5, LeaveType DEF Line
  <2>2. /\ Abstract!Answer(t, Null) /\ Abstract!Pending(t, "free")
        /\ Calls[t].arg = f.arg
    BY <1>1, <2>1, MapLeaves
  <2>3. \A e \in Linked : mem[e].pk # f.arg
    <3>1. ClosedFrom(f.cursor, {})
      BY <1>5 DEF ClosedFrom
    <3>2. \A e \in Linked : ~Wanted(f, e)
      BY <1>1, <3>1 DEF Ahead
    <3> QED
      BY <1>1, <3>2 DEF Wanted
  <2>4. Cached[f.arg] = Null /\ Cached = [p \in Pk |-> Cached[p]]
    BY <1>1, <1>3, <2>3 DEF CachedOK
  <2>5. Cached' = [Cached EXCEPT ![f.arg] = Null]
    BY <1>3, <2>4
  <2> QED
    BY <1>1, <2>2, <2>5, MapFree
<1>6. ASSUME Advance(t)
      PROVE  MapStep
  BY <1>1, <1>2, <1>6, MapAdvances
<1> QED
  BY <1>4, <1>5, <1>6 DEF Remove

LEMMA MapUnlink ==
  ASSUME ListInv, ListInv', NEW t \in Task, Unlink(t)
  PROVE  MapStep
<1> PICK f : f = task[t]
  OBVIOUS
<1> PICK e : e = f.cursor
  OBVIOUS
<1> PICK q : q = f.prev
  OBVIOUS
<1>1. /\ FrameType(f) /\ f.at = "unlink" /\ f.op = "free" /\ f.arg \in Pk
      /\ e \in Linked /\ mem[e].pk = f.arg /\ PrevOK(f)
  BY Types DEF Unlink, At, ListInv, FrameOK
<1>2. PICK g : Left(f, g, "release", Null) /\ Goto(t, g)
  BY <1>1, LeaveType DEF Line, Unlink
<1>3. /\ Abstract!Answer(t, Null) /\ Abstract!Pending(t, "free")
      /\ Calls[t].arg = f.arg
  BY <1>1, <1>2, MapLeaves
<1>4. IF q = Null
        THEN /\ head = e /\ head' = mem[e].next /\ mem' = mem
        ELSE /\ q \in Linked /\ mem[q].next = e /\ head' = head
             /\ mem' = [mem EXCEPT ![q].next = mem[e].next]
  BY <1>1 DEF Unlink, WriteCursor, PrevOK
<1>5. Linked' = Linked \ {e}
  BY <1>1, <1>4, LinkedShrinks DEF ListInv
<1>6. \A d \in Linked : mem'[d].pk = mem[d].pk /\ mem'[d].ctx = mem[d].ctx
  <2>1. \A d \in Linked : d \in Cell /\ mem[d] \in CellCtx
    BY Types DEF ListInv, ListOK
  <2> QED
    BY <1>4, <2>1 DEF ListInv, TypeOK, CellCtx
<1>7. CachedOK /\ CachedOK'
  BY ListIsMap, PTL
<1>8. Cached' = [Cached EXCEPT ![f.arg] = Null]
  <2>1. \A d \in Linked : mem[d].pk = f.arg => d = e
    BY <1>1 DEF ListInv, ListOK, EntriesOK
  <2>2. Cached'[f.arg] = Null
    BY <1>1, <1>5, <1>6, <1>7, <2>1 DEF CachedOK
  <2>3. ASSUME NEW p \in Pk, p # f.arg PROVE Cached'[p] = Cached[p]
    BY <1>1, <1>5, <1>6, <1>7, <2>3 DEF CachedOK
  <2>4. Cached' = [p \in Pk |-> Cached'[p]] /\ Cached = [p \in Pk |-> Cached[p]]
    BY <1>7 DEF CachedOK
  <2> QED
    BY <1>1, <2>2, <2>3, <2>4
<1> QED
  BY <1>1, <1>3, <1>8, MapFree

LEMMA MapRelease ==
  ASSUME ListInv, ListInv', NEW t \in Task, Release(t)
  PROVE  MapStep
<1> PICK f : f = task[t]
  OBVIOUS
<1> PICK e : e = f.cursor
  OBVIOUS
<1>1. FrameType(f) /\ f.at = "release" /\ e \in Allocated \ Linked
  BY Types DEF Release, At, ListInv, FrameOK
<1>2. PICK g : Left(f, g, "return", Null) /\ Goto(t, g)
  BY <1>1, LeaveType DEF Line, Release
<1>3. f.res = Null
  BY <1>1 DEF ListInv, FrameOK
<1>4. AsCall(g) = AsCall(f)
  BY <1>1, <1>2, <1>3, SameCall DEF Left
<1>5. \A d \in Linked : mem'[d] = mem[d]
  <2>1. \A d \in Cell : d # e => mem'[d] = mem[d]
    BY DEF Release, ListInv, TypeOK
  <2> QED
    BY <1>1, <2>1 DEF Linked
<1>6. Linked' = Linked
  BY <1>5, LinkedStays DEF ListInv, Release
<1> QED
  BY <1>2, <1>4, <1>5, <1>6, MapStutters

LEMMA MapReturn ==
  ASSUME ListInv, ListInv', NEW t \in Task, Return(t)
  PROVE  MapStep
<1>1. task[t].at = "return" /\ Goto(t, Idle) /\ UNCHANGED <<head, mem, live>>
  BY DEF Return, At
<1>2. Cached' = Cached
  <2>1. Linked' = Linked
    BY <1>1, AheadStays DEF ListInv
  <2> QED
    BY <1>1, <2>1, MapStays
<1>3. AsCall(Idle) = Abstract!NoCall
  BY IdleIsNoCall
<1>4. AsCall(task[t]).done = TRUE
  <2>1. (task[t].at \in {"release", "return"}) = TRUE
    BY <1>1
  <2> QED
    BY <2>1 DEF AsCall
<1>5. Calls[t] = AsCall(task[t]) /\ Calls' = [Calls EXCEPT ![t] = AsCall(Idle)]
  <2>1. /\ Calls = [u \in Task |-> AsCall(task[u])]
        /\ Calls' = [Calls EXCEPT ![t] = AsCall(Idle)]
    BY <1>1, CallsStep DEF ListInv
  <2> HIDE DEF AsCall
  <2> QED
    BY <2>1
<1>6. Abstract!Return(t)
  BY <1>2, <1>3, <1>4, <1>5, Zenon DEF Abstract!Return
<1> QED
  BY <1>6 DEF MapStep, Abstract!Next

LEMMA MapInit ==
  ASSUME Init
  PROVE  Abstract!Init
<1>1. ListInv /\ CachedOK
  BY ListInit, ListIsMap
<1>2. Cached = [p \in Pk |-> Null]
  <2>1. Linked = {}
    BY <1>1 DEF Init, ListInv, ListOK, Allocated
  <2> QED
    BY <1>1, <2>1 DEF CachedOK
<1>3. Calls = [t \in Task |-> Abstract!NoCall]
  <2>1. \A t \in Task : task[t] = Idle
    BY DEF Init
  <2>2. Calls = [t \in Task |-> AsCall(task[t])]
    BY DEF Calls, AsCall, Effective
  <2> HIDE DEF AsCall
  <2>3. \A t \in Task : AsCall(task[t]) = Abstract!NoCall
    BY <2>1, IdleIsNoCall
  <2> QED
    BY <2>2, <2>3
<1> QED
  BY <1>2, <1>3 DEF Abstract!Init

\* Every step of the list is a step of the map, or leaves it alone.
LEMMA MapNext ==
  ASSUME ListInv, ListInv', [Next]_vars
  PROVE  MapStep
<1>1. ASSUME NEW t \in Task, NEW p \in Pk, CallGet(t, p) \/ CallFree(t, p)
      PROVE  MapStep
  BY <1>1, MapCall DEF CallGet, CallFree
<1>2. ASSUME NEW t \in Task, NEW c \in Ctx, CallSync(t, c)
      PROVE  MapStep
  BY <1>2, MapCall DEF CallSync
<1>3. ASSUME NEW t \in Task, Statement(t)
      PROVE  MapStep
  BY <1>3, MapFind, MapInsert, MapLink, MapPublish, MapRemove, MapUnlink,
     MapRelease, MapReturn DEF Statement
<1>4. ASSUME UNCHANGED vars
      PROVE  MapStep
  <2>1. Linked' = Linked
    BY <1>4, AheadStays DEF ListInv, vars
  <2>2. Cached' = Cached
    BY <1>4, <2>1, MapStays DEF vars
  <2>3. Calls' = Calls
    BY <1>4 DEF vars, Calls, Effective
  <2> QED
    BY <2>2, <2>3 DEF MapStep
<1> QED
  BY <1>1, <1>2, <1>3, <1>4 DEF Next

\* The list that cache_find, cache_insert and cache_remove walk and write is the
\* map that PkCache promises: every call takes effect in one statement between
\* its start and its return.  That a call ends is WalksEnd, as long as its task
\* goes on with it.
THEOREM ListImplementsTheMap ==
  ASSUME Serial
  PROVE  Spec => Abstract!Init /\ [][Abstract!Next]_(Abstract!vars)
<1>1. Init => Abstract!Init
  BY MapInit
<1>2. ListInv /\ ListInv' /\ [Next]_vars => [Abstract!Next]_(Abstract!vars)
  BY MapNext DEF MapStep, Abstract!vars
<1> QED
  BY <1>1, <1>2, ListInvariance, PTL DEF Spec
=============================================================================
