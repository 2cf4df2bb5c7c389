------------------------------ MODULE ReadDir ------------------------------
(***************************************************************************)
(* Reading the root directory: lustre_vnop_read_dir, called once for each  *)
(* getdirentries(2) with the file offset the last call left, or the one    *)
(* the client chose with lseek(2), and a buffer that has room for some     *)
(* entries.  Every client has the directory open for itself; VFS locks the *)
(* open file during a call, so a call is one step.                         *)
(***************************************************************************)
EXTENDS Naturals, SequencesExt

CONSTANTS Clients,
          MaxOffset    \* bound: the largest offset lseek is given

ASSUME ReadDirAssumption == MaxOffset \in Nat

VARIABLES
  offset,      \* the offset of the client's open file
  returned,    \* the names returned since the client opened or rewound it
  strayed,     \* it has moved the offset elsewhere since
  eof,         \* eofflag of the last call that succeeded
  panicked     \* the LUSTRE_BUG_ON of vnop.c:335 fired

vars == <<offset, returned, strayed, eof, panicked>>

\* Mutant: the second name is longer than its d_namlen.
DirectoryUncut == <<".", "..?">>

Directory == <<".", "..">>

TypeOK ==
  /\ offset \in [Clients -> Nat]
  /\ returned \in [Clients -> Seq({".", ".."})]
  /\ strayed \in [Clients -> BOOLEAN]
  /\ eof \in [Clients -> BOOLEAN]
  /\ panicked \in BOOLEAN

Init ==
  /\ offset = [c \in Clients |-> 0]
  /\ returned = [c \in Clients |-> <<>>]
  /\ strayed = [c \in Clients |-> FALSE]
  /\ eof = [c \in Clients |-> FALSE]
  /\ panicked = FALSE

\* lseek(2) takes any offset.
Lseek(c, o) ==
  /\ offset' = [offset EXCEPT ![c] = o]
  /\ returned' = [returned EXCEPT ![c] = <<>>]
  /\ strayed' = [strayed EXCEPT ![c] = o # 0]
  /\ eof' = [eof EXCEPT ![c] = FALSE]
  /\ UNCHANGED panicked

\* The calls of lustre_extension_uio_move: entries from index on, as many as
\* there are and the buffer has room for (an ENOBUFS is swallowed).
Move(index, room) ==
  LET last == IF index >= 2 THEN index
              ELSE IF index + room > 2 THEN 2 ELSE index + room
  IN  [names |-> SubSeq(Directory, index + 1, last), index |-> last]

\* Mutant: the end is looked for one entry too far.
AtEndTooFar(index) == index > 2

AtEnd(index) == index > 1

\* Mutant: the offset counts bytes of the buffer.
ReadDirCallInBytes(c, room) ==
  IF offset[c] % 7 # 0
  THEN /\ panicked' = TRUE
       /\ UNCHANGED <<offset, returned, strayed, eof>>
  ELSE LET moved == Move(offset[c] \div 7, room)
       IN  /\ offset' = [offset EXCEPT ![c] = @ + 12 * Len(moved.names)]
           /\ returned' = [returned EXCEPT ![c] = @ \o moved.names]
           /\ eof' = [eof EXCEPT ![c] = AtEnd(moved.index)]
           /\ UNCHANGED <<strayed, panicked>>

\* One call with room for some entries.  A failed call leaves VFS's offset alone:
\* uiomove fails, or, before the offset is looked at, the flags are those of NFS.
ReadDirCall(c, room) ==
  \/ /\ offset[c] % 7 = 0
     /\ LET moved == Move(offset[c] \div 7, room)
        IN  /\ offset' = [offset EXCEPT ![c] = moved.index * 7]
            /\ returned' = [returned EXCEPT ![c] = @ \o moved.names]
            /\ eof' = [eof EXCEPT ![c] = AtEnd(moved.index)]
            /\ UNCHANGED <<strayed, panicked>>
  \/ /\ offset[c] % 7 # 0
     /\ panicked' = TRUE
     /\ UNCHANGED <<offset, returned, strayed, eof>>
  \/ UNCHANGED vars

Halted == panicked /\ UNCHANGED vars

Next ==
  \/ /\ ~panicked
     /\ \E c \in Clients : \/ \E o \in 0..MaxOffset : Lseek(c, o)
                           \/ \E room \in 0..2 : ReadDirCall(c, room)
  \/ Halted

Spec == Init /\ [][Next]_vars
-----------------------------------------------------------------------------
(* Properties                                                              *)

\* However the buffers of a client cut the directory up and whichever of its calls
\* fail, it reads the entries in order, each once, from a rewind to the end; and the
\* call that gives it the last one says so, and none before (vnop.c:339-376).
EachEntryOnce ==
  \A c \in Clients : ~strayed[c] =>
    /\ IsPrefix(returned[c], Directory)
    /\ eof[c] <=> returned[c] = Directory

\* The offsets the file system hands out are ones it takes back: only a client that
\* has moved its offset itself can stop the machine (vnop.c:335, 372).
OnlyStrayOffsetsPanic == panicked => \E c \in Clients : strayed[c]
=============================================================================
