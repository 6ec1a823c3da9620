----------------------------- MODULE AssocArray -----------------------------
(***************************************************************************)
(* What poplar::map promises: an updatable associative array.  find gives  *)
(* the value of a registered key and nullptr for any other; update gives   *)
(* the value of the key, registering it with value 0 first if need be, and *)
(* what is written through the pointer it returns is the key's value from  *)
(* then on.  A key that is empty or not null-terminated is refused by an   *)
(* exception.  A call takes effect at one point between call and return.   *)
(***************************************************************************)
EXTENDS Naturals

CONSTANTS
  Key, Values,
  LegalKey,    \* non-empty, null-terminated keys
  MayThrow     \* whether update may also throw on a legal key

VARIABLES
  store,    \* the registered keys, each in a pair with its value
  call,     \* the call being made, or the last one made
  ret       \* what it returned

vars == <<store, call, ret>>

NoCall == [op |-> "none", key |-> <<>>]

Answer(kind, v) == [kind |-> kind, value |-> v]
Pending == Answer("pending", 0)
Thrown == Answer("thrown", 0)
Null == Answer("null", 0)
Found(v) == Answer("value", v)

Init ==
  /\ store = {}
  /\ call = NoCall
  /\ ret = Null

Registered == {e[1] : e \in store}

Invoke(op, k) ==
  /\ ret # Pending
  /\ call' = [op |-> op, key |-> k]
  /\ ret' = Pending
  /\ UNCHANGED store

\* The running call returns.
Returns == ret = Pending /\ ret' # Pending

Refuse ==
  /\ Returns /\ ret' = Thrown
  /\ call.key \notin LegalKey \/ (MayThrow /\ call.op = "update" /\ call.key \notin Registered)
  /\ UNCHANGED <<store, call>>

Find ==
  /\ Returns /\ call.op = "find" /\ call.key \in LegalKey
  /\ \/ \E e \in store : e[1] = call.key /\ ret' = Found(e[2])
     \/ call.key \notin Registered /\ ret' = Null
  /\ UNCHANGED <<store, call>>

Update ==
  /\ Returns /\ call.op = "update" /\ call.key \in LegalKey
  /\ \/ \E e \in store : e[1] = call.key /\ ret' = Found(e[2]) /\ UNCHANGED store
     \/ call.key \notin Registered /\ ret' = Found(0) /\ store' = store \cup {<<call.key, 0>>}
  /\ UNCHANGED call

\* The caller writes through the pointer that update returned.
Assign(v) ==
  /\ call.op = "update" /\ ret.kind = "value"
  /\ store' = {e \in store : e[1] # call.key} \cup {<<call.key, v>>}
  /\ ret' = Found(v)
  /\ UNCHANGED call

Next ==
  \/ \E op \in {"find", "update"}, k \in Key : Invoke(op, k)
  \/ Refuse \/ Find \/ Update
  \/ \E v \in Values : Assign(v)

Spec == Init /\ [][Next]_vars
=============================================================================
