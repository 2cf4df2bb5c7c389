------------------------------- MODULE Deque -------------------------------
(***************************************************************************)
(* What a lustre_list promises the threads that share it: a double-ended   *)
(* queue, into which a thread that asked to puts one datum at one end, and *)
(* from which a thread takes one at a time.  List implements it.           *)
(***************************************************************************)
EXTENDS Naturals, Sequences

CONSTANTS Threads, Data, NULL

VARIABLES queue,    \* the data in the list, head first
          putting,  \* putting[t]: the end and the datum t is about to put, or <<>>
          result    \* result[t]: the datum t took out and still has, or NULL

vars == <<queue, putting, result>>

Init == /\ queue = <<>>
        /\ putting = [t \in Threads |-> <<>>]
        /\ result = [t \in Threads |-> NULL]

Ask(t, end, d) == /\ putting[t] = <<>>
                  /\ putting' = [putting EXCEPT ![t] = <<end, d>>]
                  /\ UNCHANGED <<queue, result>>

Put(t) == /\ putting[t] # <<>>
          /\ queue' = IF putting[t][1] = "enqueue_head"
                      THEN <<putting[t][2]>> \o queue
                      ELSE Append(queue, putting[t][2])
          /\ putting' = [putting EXCEPT ![t] = <<>>]
          /\ UNCHANGED result

TakeHead(t) == /\ queue # <<>>
               /\ result[t] = NULL
               /\ result' = [result EXCEPT ![t] = Head(queue)]
               /\ queue' = Tail(queue)
               /\ UNCHANGED putting

TakeTail(t) == /\ queue # <<>>
               /\ result[t] = NULL
               /\ result' = [result EXCEPT ![t] = queue[Len(queue)]]
               /\ queue' = SubSeq(queue, 1, Len(queue) - 1)
               /\ UNCHANGED putting

Empty == /\ queue' = <<>>
         /\ UNCHANGED <<putting, result>>

Release(t) == /\ result' = [result EXCEPT ![t] = NULL]
              /\ UNCHANGED <<queue, putting>>

Next == \/ \E t \in Threads :
             \/ \E end \in {"enqueue_head", "enqueue_tail"}, d \in Data : Ask(t, end, d)
             \/ Put(t) \/ TakeHead(t) \/ TakeTail(t) \/ Release(t)
        \/ Empty

Spec == Init /\ [][Next]_vars
=============================================================================
