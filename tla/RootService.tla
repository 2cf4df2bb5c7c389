---------------------------- MODULE RootService ----------------------------
(***************************************************************************)
(* What a mounted Lustre volume promises the VFS layer about its root      *)
(* directory, with no lock, no sleeping and no vnode identifiers: a thread *)
(* asks for the root and is given the one root vnode of the volume; the    *)
(* vnode is given up only when nobody holds it, and the volume forgets its *)
(* users only while it is being taken down.  RootVnode implements this     *)
(* specification.                                                          *)
(***************************************************************************)

CONSTANTS Threads,   \* the threads that enter the file system
          Vnodes,    \* the vnode structures of the kernel
          NULL       \* no vnode

VARIABLES serving,   \* the volume is mounted and takes requests
          asking,    \* the threads whose request has not been answered
          root,      \* the root vnode, or NULL
          held,      \* held[t]: the vnode t has an I/O reference on, or NULL
          open       \* open[t]: the vnode t has opened, or NULL

vars == <<serving, asking, root, held, open>>

TypeOK == /\ serving \in BOOLEAN
          /\ asking \subseteq Threads
          /\ root \in Vnodes \cup {NULL}
          /\ held \in [Threads -> Vnodes \cup {NULL}]
          /\ open \in [Threads -> Vnodes \cup {NULL}]

Nobody == [t \in Threads |-> NULL]

Init == /\ serving = FALSE
        /\ asking = {}
        /\ root = NULL
        /\ held = Nobody
        /\ open = Nobody

Start == /\ ~serving
         /\ serving' = TRUE
         /\ UNCHANGED <<asking, root, held, open>>

Stop == /\ serving
        /\ asking = {}
        /\ serving' = FALSE
        /\ UNCHANGED <<asking, root, held, open>>

Ask(t) == /\ serving
          /\ t \notin asking
          /\ held[t] = NULL
          /\ asking' = asking \cup {t}
          /\ UNCHANGED <<serving, root, held, open>>

\* A request finds no root vnode: a new one is made, for everybody.
Attach(t, v) == /\ t \in asking
                /\ root = NULL
                /\ root' = v
                /\ held' = [held EXCEPT ![t] = v]
                /\ asking' = asking \ {t}
                /\ UNCHANGED <<serving, open>>

\* A request finds the root vnode: it is shared.
Share(t) == /\ t \in asking
            /\ root # NULL
            /\ held' = [held EXCEPT ![t] = root]
            /\ asking' = asking \ {t}
            /\ UNCHANGED <<serving, root, open>>

Release(t) == /\ held[t] # NULL
              /\ held' = [held EXCEPT ![t] = NULL]
              /\ UNCHANGED <<serving, asking, root, open>>

Open(t) == /\ held[t] # NULL
           /\ open' = [open EXCEPT ![t] = held[t]]
           /\ UNCHANGED <<serving, asking, root, held>>

Close(t) == /\ open[t] # NULL
            /\ open' = [open EXCEPT ![t] = NULL]
            /\ UNCHANGED <<serving, asking, root, held>>

\* "." and ".." of the open root directory are the root directory.
Lookup(t) == /\ open[t] # NULL
             /\ t \notin asking
             /\ held[t] = NULL
             /\ held' = [held EXCEPT ![t] = open[t]]
             /\ UNCHANGED <<serving, asking, root, open>>

\* The kernel takes the vnode back for other uses: nobody may be using it.
Recycle == /\ root # NULL
           /\ held = Nobody
           /\ open = Nobody
           /\ root' = NULL
           /\ UNCHANGED <<serving, asking, held, open>>

\* The volume is taken down: whoever still has the root open loses it.
Revoke == /\ ~serving
          /\ held = Nobody
          /\ root' = NULL
          /\ open' = Nobody
          /\ UNCHANGED <<serving, asking, held>>

Next == \/ Start \/ Stop \/ Recycle \/ Revoke
        \/ \E t \in Threads : \/ Ask(t) \/ Share(t) \/ Release(t)
                              \/ Open(t) \/ Close(t) \/ Lookup(t)
                              \/ \E v \in Vnodes : Attach(t, v)

Spec == Init /\ [][Next]_vars
=============================================================================
