----------------------------- MODULE PkCacheTasks ----------------------------
(***************************************************************************)
(* The linked list s_pk_rsa_cache of src/src/pk_rsa.c, as tasks walk and   *)
(* change it, one C statement at a time: cache_find, cache_insert,         *)
(* cache_remove and the search of                                          *)
(* mbedtls_v3_shim_pk_rsa_sync_bits_from_ctx, in the calls they are made   *)
(* from.  The list s_pk_ec_cache of src/src/pk_ec.c has the same code.     *)
(***************************************************************************)
CONSTANTS
  Task,    \* the tasks that call the shim
  Pk,      \* addresses of pk contexts
  Ctx,     \* addresses mbedtls_calloc can give to a key context
  Cell,    \* addresses mbedtls_calloc can give to a list entry
  Null,    \* the null pointer
  Free,    \* the content of a cell that is not allocated
  Serial   \* callers let one call end before another begins

ASSUME PkCacheTasksAssumption ==
  /\ Null \notin Pk \cup Ctx \cup Cell
  /\ Free \notin [pk : Pk, ctx : Ctx, next : Cell \cup {Null}]
  /\ Serial \in BOOLEAN

VARIABLES
  head,   \* s_pk_rsa_cache
  mem,    \* mem[e] is the entry at address e, or Free
  live,   \* the key contexts that are allocated
  task,   \* task[t] is where task t is: its call and its local variables
  held    \* held[p] is what mbedtls_pk_rsa of p last returned, Null once p is freed

vars == <<head, mem, live, task, held>>

CellCtx == [pk : Pk, ctx : Ctx, next : Cell \cup {Null}]
Line    == {"idle", "find", "insert", "link", "publish", "remove", "unlink",
            "release", "return"}
Frame   == [at : Line, op : {"none", "get", "free", "sync"},
            arg : Pk \cup Ctx \cup {Null}, cursor : Cell \cup {Null},
            prev : Cell \cup {Null}, ctx : Ctx \cup {Null},
            res : Pk \cup Ctx \cup {Null}]

Idle == [at |-> "idle", op |-> "none", arg |-> Null, cursor |-> Null,
         prev |-> Null, ctx |-> Null, res |-> Null]

At(t, l)  == task[t].at = l
Goto(t, f) == task' = [task EXCEPT ![t] = f]

\* The frame of t at line l, with its result.
Leave(t, l, r) == Goto(t, [task[t] EXCEPT !.at = l, !.res = r])

-----------------------------------------------------------------------------
(* Calls.  Two tasks are never in calls on one pk context.                 *)

InUse(p) == \E u \in Task : task[u].arg # Null /\ task[u].arg \in {p, held[p]}

Enter(t, op, x, l) ==
  /\ At(t, "idle")
  /\ Serial => \A u \in Task : At(u, "idle")
  /\ Goto(t, [Idle EXCEPT !.at = l, !.op = op, !.arg = x, !.cursor = head])
  /\ UNCHANGED <<head, mem, live>>

\* mbedtls_v3_shim_pk_rsa and mbedtls_v3_shim_pk_free start at the head.
CallGet(t, p) ==
  /\ ~InUse(p)
  /\ Enter(t, "get", p, "find")
  /\ UNCHANGED held

CallFree(t, p) ==
  /\ ~InUse(p)
  /\ Enter(t, "free", p, "remove")
  /\ held' = [held EXCEPT ![p] = Null]

\* mbedtls_rsa_complete on a key context that a caller holds.
CallSync(t, c) ==
  /\ \E p \in Pk : held[p] = c /\ ~InUse(p)
  /\ Enter(t, "sync", c, "find")
  /\ UNCHANGED held

\* The caller keeps the pointer that mbedtls_pk_rsa gives it.
Return(t) ==
  /\ At(t, "return")
  /\ held' = IF task[t].op = "get" THEN [held EXCEPT ![task[t].arg] = task[t].res]
                                   ELSE held
  /\ Goto(t, Idle)
  /\ UNCHANGED <<head, mem, live>>

-----------------------------------------------------------------------------
(* Walks.                                                                  *)

\* Is the entry at the cursor the one that is looked for?
Matches(f) ==
  LET e == mem[f.cursor]
  IN  IF f.op = "sync" THEN e.ctx = f.arg ELSE e.pk = f.arg

\* Mutant: the search by key context returns the key context.
FoundCtx(t) == mem[task[t].cursor].ctx

\* What a walk that ends at an entry returns.
Found(t) ==
  LET e == mem[task[t].cursor]
  IN  IF task[t].op = "sync" THEN e.pk ELSE e.ctx

AtEntry(t) == task[t].cursor # Null /\ mem[task[t].cursor] # Free

\* Mutant: the walk does not move on.
StayAt(t) == Goto(t, task[t])

Advance(t) ==
  Goto(t, [task[t] EXCEPT !.cursor = mem[task[t].cursor].next,
                          !.prev = task[t].cursor])

\* cache_find, and the search by key context.
Find(t) ==
  /\ At(t, "find")
  /\ \/ AtEntry(t) /\ Matches(task[t]) /\ Leave(t, "return", Found(t))
     \/ AtEntry(t) /\ ~Matches(task[t]) /\ Advance(t)
     \/ /\ task[t].cursor = Null
        /\ IF task[t].op = "sync" THEN Leave(t, "return", Null)
                                  ELSE Leave(t, "insert", Null)
  /\ UNCHANGED <<head, mem, live, held>>

\* materialize_rsa and the allocation in cache_insert; when the second fails
\* the key context is freed again.
Insert(t) ==
  /\ At(t, "insert")
  /\ \/ \E c \in Ctx \ live, e \in {d \in Cell : mem[d] = Free} :
          /\ live' = live \cup {c}
          /\ mem' = [mem EXCEPT ![e] = [pk |-> task[t].arg, ctx |-> c, next |-> Null]]
          /\ Goto(t, [task[t] EXCEPT !.at = "link", !.cursor = e, !.ctx = c])
     \/ Leave(t, "return", Null) /\ UNCHANGED <<mem, live>>
  /\ UNCHANGED <<head, held>>

\* Mutant: the entry does not point to the rest of the list.
LinkNothing(t) ==
  /\ At(t, "link")
  /\ Leave(t, "publish", Null)
  /\ UNCHANGED <<head, mem, live, held>>

\* entry->next = s_pk_rsa_cache
Link(t) ==
  /\ At(t, "link")
  /\ mem' = [mem EXCEPT ![task[t].cursor].next = head]
  /\ Leave(t, "publish", Null)
  /\ UNCHANGED <<head, live, held>>

\* s_pk_rsa_cache = entry
Publish(t) ==
  /\ At(t, "publish")
  /\ head' = task[t].cursor
  /\ Leave(t, "return", task[t].ctx)
  /\ UNCHANGED <<mem, live, held>>

\* The walk of cache_remove; prev is Null while it is at the head.
Remove(t) ==
  /\ At(t, "remove")
  /\ \/ AtEntry(t) /\ Matches(task[t]) /\ Leave(t, "unlink", Null)
     \/ AtEntry(t) /\ ~Matches(task[t]) /\ Advance(t)
     \/ task[t].cursor = Null /\ Leave(t, "return", Null)
  /\ UNCHANGED <<head, mem, live, held>>

\* Mutant: the entry is not unlinked.
WriteNothing(t, n) == UNCHANGED <<head, mem>>

\* Mutant: n is written to the head of the list, wherever the cursor is.
WriteHead(t, n) == head' = n /\ UNCHANGED mem

\* Writes n through the cursor of cache_remove.
WriteCursor(t, n) ==
  IF task[t].prev = Null
    THEN head' = n /\ UNCHANGED mem
    ELSE mem' = [mem EXCEPT ![task[t].prev].next = n] /\ UNCHANGED head

\* *cursor = dead->next
Unlink(t) ==
  /\ At(t, "unlink") /\ AtEntry(t)
  /\ task[t].prev # Null => mem[task[t].prev] # Free
  /\ WriteCursor(t, mem[task[t].cursor].next)
  /\ Leave(t, "release", Null)
  /\ UNCHANGED <<live, held>>

\* Mutant: the entry is not freed.
ReleaseCtxOnly(t) ==
  /\ At(t, "release") /\ AtEntry(t)
  /\ live' = live \ {mem[task[t].cursor].ctx}
  /\ Leave(t, "return", Null)
  /\ UNCHANGED <<head, mem, held>>

\* The key context and the entry are freed.
Release(t) ==
  /\ At(t, "release") /\ AtEntry(t)
  /\ live' = live \ {mem[task[t].cursor].ctx}
  /\ mem' = [mem EXCEPT ![task[t].cursor] = Free]
  /\ Leave(t, "return", Null)
  /\ UNCHANGED <<head, held>>

\* The next statement of t reads or writes an entry that has been freed.  What
\* it does then is not modelled: t has no step.
TouchesFreed(t) ==
  /\ task[t].at \in {"find", "remove", "unlink", "release"}
  /\ \/ task[t].cursor # Null /\ mem[task[t].cursor] = Free
     \/ At(t, "unlink") /\ task[t].prev # Null /\ mem[task[t].prev] = Free

-----------------------------------------------------------------------------
Init ==
  /\ head = Null
  /\ mem = [e \in Cell |-> Free]
  /\ live = {}
  /\ task = [t \in Task |-> Idle]
  /\ held = [p \in Pk |-> Null]

\* The next statement of a call.
Statement(t) ==
  \/ Find(t) \/ Insert(t) \/ Link(t) \/ Publish(t)
  \/ Remove(t) \/ Unlink(t) \/ Release(t) \/ Return(t)

Next ==
  \E t \in Task :
    \/ \E p \in Pk : CallGet(t, p) \/ CallFree(t, p)
    \/ \E c \in Ctx : CallSync(t, c)
    \/ Statement(t)

\* A task that is in a call goes on with it.
Fairness == \A t \in Task : WF_vars(Statement(t))

Spec == Init /\ [][Next]_vars /\ Fairness

-----------------------------------------------------------------------------
(* The list as a map.                                                      *)

\* A set of cells that holds the head and, with an entry, the next one.
Closed(S) ==
  /\ head # Null => head \in S
  /\ \A e \in S : mem[e] # Free /\ mem[e].next # Null => mem[e].next \in S

\* The cells that a walk from the head visits.
Linked == {e \in Cell : \A S \in SUBSET Cell : Closed(S) => e \in S}

EntriesOf(p) == {e \in Linked : mem[e] # Free /\ mem[e].pk = p}

Cached == [p \in Pk |-> IF EntriesOf(p) = {} THEN Null
                        ELSE mem[CHOOSE e \in EntriesOf(p) : TRUE].ctx]

\* A call has taken effect once it is at its return, or has unlinked its entry.
Effective(t) == task[t].at \in {"release", "return"}

Calls ==
  [t \in Task |->
     [op |-> task[t].op, arg |-> task[t].arg, done |-> Effective(t),
      res |-> IF Effective(t) THEN task[t].res ELSE Null]]

Abstract == INSTANCE PkCache WITH owned <- Cached, call <- Calls

-----------------------------------------------------------------------------
(* Properties.                                                             *)

TypeOK ==
  /\ head \in Cell \cup {Null}
  /\ mem \in [Cell -> CellCtx \cup {Free}]
  /\ live \in SUBSET Ctx
  /\ task \in [Task -> Frame]
  /\ \A t \in Task :
       task[t].res \in {Null} \cup (IF task[t].op = "sync" THEN Pk ELSE Ctx)
  /\ held \in [Pk -> Ctx \cup {Null}]

\* No walk and no removal reads or writes an entry that was freed, and no
\* entry is freed twice.
NoFreedAccess == \A t \in Task : ~TouchesFreed(t)

\* The pointer a caller has is the one in the cache, until the caller frees its
\* pk context: cached "by pk_context pointer until mbedtls_pk_free()", as the
\* comment at the top of pk_rsa.c says.
PointersStayCached ==
  \A p \in Pk : held[p] # Null /\ ~InUse(p) => Cached[p] = held[p]

\* When no call is in progress the memory allocated is what the list reaches:
\* every entry with one key context of its own.
NothingLeaks ==
  (\A t \in Task : At(t, "idle")) =>
    /\ {e \in Cell : mem[e] # Free} = Linked
    /\ live = {mem[e].ctx : e \in Linked}
    /\ \A e, d \in Linked : mem[e].pk = mem[d].pk \/ mem[e].ctx = mem[d].ctx => e = d

\* The walks end: a call that was begun returns.
CallsReturn == \A t \in Task : ~At(t, "idle") ~> At(t, "idle")

\* The list, its walks and the order of the writes in cache_insert and
\* cache_remove implement a map that each call changes in one step, and each
\* call ends.
ImplementsPkCache == Abstract!Spec
=============================================================================
