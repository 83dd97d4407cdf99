------------------------------ MODULE LossyCache ------------------------------
(***************************************************************************)
(* What the Cache trait (src/cache.rs) lets the engine rely on, whatever   *)
(* implements it: a get answers Miss or what the last fill of that key     *)
(* stored; entries may be lost at any moment; an invalidation, by the time *)
(* it returns, has cleared each of its keys at some moment after it was    *)
(* called, so whatever was stored before the call is gone.  It is not      *)
(* atomic: a fill that lands while it runs may survive it.                 *)
(***************************************************************************)
EXTENDS Naturals

CONSTANTS Clients, Keys, Grants, Miss

VARIABLES
  stored,     \* the grants under each key, Miss if none
  pending,    \* the call each client is in
  returned,   \* the answer of its last get
  owed        \* the keys its running invalidation has still to clear

vars == <<stored, pending, returned, owed>>

NoCall == [op |-> "idle"]
FillsAndGets == [op : {"get"}, key : Keys] \cup [op : {"set"}, key : Keys, grants : Grants]
Sweeping == [op |-> "sweep"]

Init ==
  /\ stored = [k \in Keys |-> Miss]
  /\ pending = [c \in Clients |-> NoCall]
  /\ returned = [c \in Clients |-> Miss]
  /\ owed = [c \in Clients |-> {}]

Filled(k) == stored[k] # Miss

Call(c, request) ==
  /\ pending[c] = NoCall
  /\ pending' = [pending EXCEPT ![c] = request]
  /\ returned' = [returned EXCEPT ![c] = Miss]
  /\ UNCHANGED <<stored, owed>>

CallInvalidate(c, target) ==
  /\ pending[c] = NoCall
  /\ pending' = [pending EXCEPT ![c] = Sweeping]
  /\ returned' = [returned EXCEPT ![c] = Miss]
  /\ owed' = [owed EXCEPT ![c] = {k \in target : Filled(k)}]
  /\ UNCHANGED stored

Return(c, answer) ==
  /\ pending' = [pending EXCEPT ![c] = NoCall]
  /\ returned' = [returned EXCEPT ![c] = answer]

(* The entries of lost disappear; nothing stored before is owed there.      *)
Lose(lost) ==
  /\ stored' = [k \in Keys |-> IF k \in lost THEN Miss ELSE stored[k]]
  /\ owed' = [c \in Clients |-> owed[c] \ lost]

Answer(c, lost) ==
  /\ pending[c] # NoCall /\ pending[c].op = "get"
  /\ \/ Return(c, stored[pending[c].key])
     \/ Return(c, Miss)
  /\ Lose(lost)

Fill(c, lost) ==
  /\ pending[c] # NoCall /\ pending[c].op = "set"
  /\ LET key == pending[c].key IN
     /\ stored' = [k \in Keys |-> IF k \in lost THEN Miss
                                  ELSE IF k = key THEN pending[c].grants ELSE stored[k]]
     /\ owed' = [d \in Clients |-> owed[d] \ (lost \cup {key})]
  /\ Return(c, Miss)

Clear(c, lost) ==
  /\ pending[c] = Sweeping
  /\ Lose(lost)
  /\ UNCHANGED <<pending, returned>>

Finish(c, lost) ==
  /\ pending[c] = Sweeping
  /\ owed[c] \subseteq lost
  /\ Lose(lost)
  /\ Return(c, Miss)

Next ==
  \E c \in Clients :
    \/ \E request \in FillsAndGets : Call(c, request)
    \/ \E target \in SUBSET Keys : CallInvalidate(c, target)
    \/ \E lost \in SUBSET Keys :
         Answer(c, lost) \/ Fill(c, lost) \/ Clear(c, lost) \/ Finish(c, lost)

Spec == Init /\ [][Next]_vars
===============================================================================
