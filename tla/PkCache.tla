------------------------------- MODULE PkCache -------------------------------
(***************************************************************************)
(* What a materialization cache promises to its callers: a map from pk     *)
(* contexts to key contexts, on which each call of a task takes effect in  *)
(* one step between its start and its return.                              *)
(***************************************************************************)
CONSTANTS
  Task,   \* the tasks that call the shim
  Pk,     \* addresses of pk contexts
  Ctx,    \* addresses of key contexts
  Null    \* no address

VARIABLES
  owned,  \* owned[p] is the key context cached for p, or Null
  call    \* call[t] is the call that task t is in

vars == <<owned, call>>

\* The calls: mbedtls_pk_rsa on a pk context, mbedtls_pk_free of one, and
\* mbedtls_rsa_complete on a key context.
Ops  == {"get", "free", "sync"}
Call == [op : Ops \cup {"none"}, arg : Pk \cup Ctx \cup {Null},
         done : BOOLEAN, res : Pk \cup Ctx \cup {Null}]

\* A call of op on a that has not taken effect.
Asked(op, a) == [op |-> op, arg |-> a, done |-> FALSE, res |-> Null]

NoCall == Asked("none", Null)

Begin(t, op, a) ==
  /\ call[t] = NoCall
  /\ call' = [call EXCEPT ![t] = Asked(op, a)]
  /\ UNCHANGED owned

Pending(t, op) == call[t].op = op /\ ~call[t].done

\* The call c, answered with r.
Answered(c, r) == [op |-> c.op, arg |-> c.arg, done |-> TRUE, res |-> r]

Answer(t, r) == call' = [call EXCEPT ![t] = Answered(@, r)]

\* The key context of p, the same one at each call, or a new one; a new one
\* may not be to be had.
Get(t) ==
  LET p == call[t].arg
  IN  /\ Pending(t, "get")
      /\ \/ owned[p] # Null /\ Answer(t, owned[p]) /\ UNCHANGED owned
         \/ /\ owned[p] = Null
            /\ \/ Answer(t, Null) /\ UNCHANGED owned
               \/ \E c \in Ctx : /\ \A q \in Pk : owned[q] # c
                                 /\ owned' = [owned EXCEPT ![p] = c]
                                 /\ Answer(t, c)

FreePk(t) ==
  /\ Pending(t, "free")
  /\ owned' = [owned EXCEPT ![call[t].arg] = Null]
  /\ Answer(t, Null)

\* The pk context that owns the key context, if there is one.
Sync(t) ==
  /\ Pending(t, "sync")
  /\ \/ \E p \in Pk : owned[p] = call[t].arg /\ Answer(t, p)
     \/ (\A p \in Pk : owned[p] # call[t].arg) /\ Answer(t, Null)
  /\ UNCHANGED owned

Return(t) ==
  /\ call[t].done
  /\ call' = [call EXCEPT ![t] = NoCall]
  /\ UNCHANGED owned

TakeEffect(t) == Get(t) \/ FreePk(t) \/ Sync(t)

Init ==
  /\ owned = [p \in Pk |-> Null]
  /\ call = [t \in Task |-> NoCall]

Next ==
  \E t \in Task :
    \/ \E p \in Pk : Begin(t, "get", p) \/ Begin(t, "free", p)
    \/ \E c \in Ctx : Begin(t, "sync", c)
    \/ TakeEffect(t) \/ Return(t)

\* A call that was begun takes effect and returns.
Fairness == \A t \in Task : WF_vars(TakeEffect(t)) /\ WF_vars(Return(t))

Spec == Init /\ [][Next]_vars /\ Fairness
=============================================================================
