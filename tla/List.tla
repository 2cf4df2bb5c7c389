-------------------------------- MODULE List --------------------------------
(***************************************************************************)
(* The linked list of the extension (Filesystem/Utility/list.c): entries   *)
(* allocated from a pool of addresses that are used again, links between   *)
(* them, a size, a mutex, and the reference the list holds on each datum.  *)
(* What is done with the mutex held is one step; an enqueue allocates its  *)
(* entry in a step before.  Nothing in the extension uses the list yet, so *)
(* its callers are any threads that follow the interface.                  *)
(***************************************************************************)
EXTENDS Integers, FiniteSets

CONSTANTS Threads, Data,
          Entries,      \* addresses an entry can be allocated at
          NULL

ASSUME ListAssumption ==
         /\ NULL \notin Threads \cup Data \cup Entries
         /\ IsFiniteSet(Entries)

VARIABLES
  head, tail, size,          \* struct lustre_list; size wraps at 2^64, so -1 is 2^64-1
  allocated,                 \* the addresses that hold an entry
  data, prev, next,          \* struct lustre_list_entry
  refs,                      \* the references on each datum the list has taken
                             \* and neither it nor a caller has given back
  pc,                        \* which enqueue a thread has allocated for, or "idle"
  entry,                     \* its entry
  result,                    \* the datum a thread has dequeued, or NULL
  misused,                   \* memory was read or written after it was freed
  cut,                       \* a dequeue at the tail may have followed a wrong prev
  gone                       \* the list was freed

listVars   == <<head, tail, size>>
entryVars  == <<allocated, data, prev, next>>
threadVars == <<pc, entry, result>>
vars == <<listVars, entryVars, refs, threadVars, misused, cut, gone>>

MaybeEntry == Entries \cup {NULL}

TypeOK ==
  /\ head \in MaybeEntry /\ tail \in MaybeEntry
  /\ size \in Int
  /\ allocated \subseteq Entries
  /\ data \in [Entries -> Data \cup {NULL}]
  /\ prev \in [Entries -> MaybeEntry] /\ next \in [Entries -> MaybeEntry]
  /\ refs \in [Data -> Nat]
  /\ pc \in [Threads -> {"idle", "enqueue_head", "enqueue_tail"}]
  /\ entry \in [Threads -> MaybeEntry]
  /\ result \in [Threads -> Data \cup {NULL}]
  /\ misused \in BOOLEAN /\ cut \in BOOLEAN /\ gone \in BOOLEAN

Init ==
  /\ head = NULL /\ tail = NULL /\ size = 0
  /\ allocated = {}
  /\ data = [e \in Entries |-> NULL]
  /\ prev = [e \in Entries |-> NULL] /\ next = [e \in Entries |-> NULL]
  /\ refs = [d \in Data |-> 0]
  /\ pc = [t \in Threads |-> "idle"]
  /\ entry = [t \in Threads |-> NULL]
  /\ result = [t \in Threads |-> NULL]
  /\ misused = FALSE /\ cut = FALSE /\ gone = FALSE

\* A step reads or writes through these pointers, all of them non-null.
Touch(pointers) == misused' = (misused \/ ~(pointers \ {NULL} \subseteq allocated))

Idle(t) == pc[t] = "idle" /\ result[t] = NULL
-----------------------------------------------------------------------------
\* lustre_list_entry_alloc, before the mutex is taken.  Without memory the
\* enqueue fails and changes nothing.
EntryAlloc(t, op, d) ==
  /\ op \in {"enqueue_head", "enqueue_tail"}
  /\ Idle(t)
  /\ \E e \in Entries \ allocated :
       /\ allocated' = allocated \cup {e}
       /\ data' = [data EXCEPT ![e] = d]
       /\ prev' = [prev EXCEPT ![e] = NULL]
       /\ next' = [next EXCEPT ![e] = NULL]
       /\ entry' = [entry EXCEPT ![t] = e]
  /\ refs' = [refs EXCEPT ![d] = @ + 1]
  /\ pc' = [pc EXCEPT ![t] = op]
  /\ UNCHANGED <<listVars, result, misused, cut, gone>>

\* The end of an enqueue: the entry now belongs to the list.
Linked(t) ==
  /\ size' = size + 1
  /\ pc' = [pc EXCEPT ![t] = "idle"]
  /\ entry' = [entry EXCEPT ![t] = NULL]
  /\ UNCHANGED <<allocated, data, prev, refs, result, cut, gone>>

EnqueueHead(t) ==
  /\ pc[t] = "enqueue_head"
  /\ next' = [next EXCEPT ![entry[t]] = IF head = NULL THEN @ ELSE head]
  /\ head' = entry[t]
  /\ tail' = IF tail = NULL THEN entry[t] ELSE tail
  /\ Linked(t)
  /\ UNCHANGED misused

\* Mutant: put in at the head.
EnqueueTailAtHead(t) ==
  /\ pc[t] = "enqueue_tail"
  /\ next' = [next EXCEPT ![entry[t]] = head]
  /\ head' = entry[t]
  /\ tail' = IF tail = NULL THEN entry[t] ELSE tail
  /\ Linked(t)
  /\ UNCHANGED misused

EnqueueTail(t) ==
  /\ pc[t] = "enqueue_tail"
  /\ Touch({tail})
  /\ next' = IF tail = NULL THEN next ELSE [next EXCEPT ![tail] = entry[t]]
  /\ tail' = entry[t]
  /\ head' = IF head = NULL THEN entry[t] ELSE head
  /\ Linked(t)

\* Mutant: a dequeue gives the list's reference back and hands the datum out.
TakenAndDropped(t, e) ==
  /\ result' = [result EXCEPT ![t] = data[e]]
  /\ refs' = [refs EXCEPT ![data[e]] = @ - 1]
  /\ allocated' = allocated \ {e}
  /\ size' = size - 1
  /\ UNCHANGED <<data, pc, entry, gone>>

\* Mutant: the entry is not freed.
TakenNotFreed(t, e) ==
  /\ result' = [result EXCEPT ![t] = data[e]]
  /\ size' = size - 1
  /\ UNCHANGED <<allocated, data, refs, pc, entry, gone>>

\* The end of a dequeue: the caller has the datum and the list's reference.
Taken(t, e) ==
  /\ result' = [result EXCEPT ![t] = data[e]]
  /\ allocated' = allocated \ {e}
  /\ size' = size - 1
  /\ UNCHANGED <<data, refs, pc, entry, gone>>

\* Mutant: the tail is left behind.
DequeueHeadKeepsTail(t) ==
  /\ Idle(t)
  /\ head # NULL
  /\ head' = next[head]
  /\ Touch({head, head'})
  /\ UNCHANGED <<prev, next, tail, cut>>
  /\ Taken(t, head)

\* The new head's successor gets a prev, not the new head itself.
DequeueHead(t) ==
  /\ Idle(t)
  /\ head # NULL
  /\ head' = next[head]
  /\ LET second == IF head' = NULL THEN NULL ELSE next[head']
     IN  /\ Touch({head, head', second})
         /\ prev' = IF second = NULL THEN prev ELSE [prev EXCEPT ![second] = head']
  /\ tail' = IF tail = head THEN head' ELSE tail
  /\ UNCHANGED <<next, cut>>
  /\ Taken(t, head)

\* prev is NULL in an entry as it was allocated, and may name an entry that has left
\* since: only a lone entry whose prev is NULL is taken out properly.
DequeueTail(t) ==
  /\ Idle(t)
  /\ tail # NULL
  /\ tail' = prev[tail]
  /\ LET before == IF tail' = NULL THEN NULL ELSE prev[tail']
     IN  /\ Touch({tail, tail', before})
         /\ next' = IF before = NULL THEN next ELSE [next EXCEPT ![before] = tail']
  /\ head' = IF head = tail THEN tail' ELSE head
  /\ cut' = (cut \/ head # tail \/ prev[tail] # NULL)
  /\ UNCHANGED prev
  /\ Taken(t, tail)

\* Mutant: the reference is given back twice.
ReleaseTwice(t) ==
  /\ result[t] # NULL
  /\ refs' = [refs EXCEPT ![result[t]] = @ - 2]
  /\ result' = [result EXCEPT ![t] = NULL]
  /\ UNCHANGED <<listVars, entryVars, pc, entry, misused, cut, gone>>

\* The owner of a dequeued datum is done with it.
Release(t) ==
  /\ result[t] # NULL
  /\ refs' = [refs EXCEPT ![result[t]] = @ - 1]
  /\ result' = [result EXCEPT ![t] = NULL]
  /\ UNCHANGED <<listVars, entryVars, pc, entry, misused, cut, gone>>

\* The entries met from h on when the links nx are followed, NULL behind the last.
NthOf(h, nx) ==
  LET nth[n \in Nat] == IF n = 0 THEN h
                        ELSE IF nth[n - 1] = NULL THEN NULL ELSE nx[nth[n - 1]]
  IN  nth

Nth == NthOf(head, next)

Chain == {Nth[n] : n \in 0..Cardinality(Entries)} \ {NULL}

\* Each entry is freed, and then its data and next are read.
Empty ==
  /\ misused' = (head # NULL)
  /\ LET freed == Chain \cap allocated
     IN  /\ allocated' = allocated \ freed
         /\ refs' = [d \in Data |-> refs[d] - Cardinality({e \in freed : data[e] = d})]
  /\ head' = NULL /\ tail' = NULL /\ size' = 0
  /\ UNCHANGED <<data, prev, next, threadVars, cut, gone>>

\* lustre_list_free, by the last user of the list: every entry is dequeued at the
\* head, and the references that came with the data are forgotten.  Where a cut has
\* let the links close into a cycle, it comes to an entry that it has freed.
Free ==
  /\ \A t \in Threads : pc[t] = "idle"
  /\ misused' = (~(Chain \subseteq allocated) \/ Nth[Cardinality(Entries)] # NULL)
  /\ allocated' = allocated \ Chain
  /\ head' = NULL /\ tail' = NULL /\ size' = size - Cardinality(Chain)
  /\ gone' = TRUE
  /\ UNCHANGED <<data, prev, next, refs, threadVars, cut>>
-----------------------------------------------------------------------------
ThreadStep(t) ==
  \/ \E d \in Data, op \in {"enqueue_head", "enqueue_tail"} : EntryAlloc(t, op, d)
  \/ EnqueueHead(t) \/ EnqueueTail(t) \/ DequeueHead(t) \/ DequeueTail(t)
  \/ Release(t)

\* After a use of freed memory anything may happen; a freed list is not used.
Halted == (misused \/ gone) /\ UNCHANGED vars

Next ==
  \/ ~misused /\ ~gone /\ (Empty \/ Free \/ \E t \in Threads : ThreadStep(t))
  \/ Halted

Spec == Init /\ [][Next]_vars
-----------------------------------------------------------------------------
(* Properties                                                              *)

\* The size a reader gets (list.c:241-253) is the number of entries from the
\* head on, and the tail is the last of them, as long as no dequeue at the tail has
\* followed a prev that is not what it should be.
SizeIsLength ==
  ~misused /\ ~cut =>
    /\ \A n \in 0..(size - 1) : Nth[n] # NULL
    /\ Nth[size] = NULL
    /\ tail = IF size = 0 THEN NULL ELSE Nth[size - 1]

\* No entry is lost: the allocated ones are in the list or about to enter it; and
\* a list that is freed leaves none behind (list.c:85-95).
NoEntryLost ==
  ~misused /\ ~cut => allocated = Chain \cup ({entry[t] : t \in Threads} \ {NULL})

\* The references the list takes (list.c:40) follow the data: one per entry, or
\* with the thread that dequeued it; also when dequeues at the tail have broken
\* the links, until freed memory is used or the list is freed.
RefsFollowData ==
  ~misused /\ ~gone => \A d \in Data :
    refs[d] = Cardinality({e \in allocated : data[e] = d})
              + Cardinality({t \in Threads : result[t] = d})

Queue == INSTANCE Deque WITH
  queue   <- [n \in 1..size |-> data[Nth[n - 1]]],
  putting <- [t \in Threads |->
                IF pc[t] = "idle" THEN <<>> ELSE <<pc[t], data[entry[t]]>>]

\* Threads share a queue that loses, doubles and reorders nothing, whatever they
\* call but a dequeue_tail that follows a wrong prev (list.c:97-239).
ImplementsDeque ==
  Queue!Init /\ [][misused' \/ cut' \/ Queue!Next]_(Queue!vars)
=============================================================================
