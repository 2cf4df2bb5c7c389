----------------------------- MODULE OrderedSet -----------------------------
(***************************************************************************)
(* What the interface of the red-black tree (Filesystem/Utility/rb_tree.h) *)
(* promises its caller: a set of data that is added to, removed from,      *)
(* searched, and walked in order from either end in both directions.       *)
(***************************************************************************)
EXTENDS Integers

CONSTANTS Data, NULL

VARIABLES keys,    \* the data in the set
          answer,  \* the last call, and what it returned
          cursor   \* the datum an iterator is at, or NULL

vars == <<keys, answer, cursor>>

Init == keys = {} /\ answer = <<"alloc", "success">> /\ cursor = NULL

Insert(d) == /\ \/ keys' = keys \cup {d} /\ answer' = <<"insert", "success">>
                \/ keys' = keys /\ answer' = <<"insert", "no space">>
             /\ cursor' = NULL

Remove(d) == /\ keys' = keys \ {d}
             /\ answer' = <<"remove", IF d \in keys THEN "success" ELSE "invalid argument">>
             /\ cursor' = NULL

\* A datum that is found is there.
Find(d) == /\ \/ d \in keys /\ answer' = <<"find", d>>
              \/ answer' = <<"find", NULL>>
           /\ UNCHANGED <<keys, cursor>>

Least(S)    == IF S = {} THEN NULL ELSE CHOOSE d \in S : \A e \in S : d <= e
Greatest(S) == IF S = {} THEN NULL ELSE CHOOSE d \in S : \A e \in S : d >= e

MoveTo(call, d) == cursor' = d /\ answer' = <<call, d>> /\ UNCHANGED keys

Walk == \/ MoveTo("first", Least(keys))
        \/ MoveTo("last", Greatest(keys))
        \/ /\ cursor # NULL
           /\ \/ MoveTo("next", Least({d \in keys : d > cursor}))
              \/ MoveTo("prev", Greatest({d \in keys : d < cursor}))

Clear == keys' = {} /\ cursor' = NULL /\ answer' = <<"alloc", "success">>

Next == (\E d \in Data : Insert(d) \/ Remove(d) \/ Find(d)) \/ Walk \/ Clear

Spec == Init /\ [][Next]_vars
=============================================================================
