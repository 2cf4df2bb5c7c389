---------------------------- MODULE ReadDirProofs ----------------------------
(***************************************************************************)
(* ReadDir, for any number of clients and every offset lseek is given: who *)
(* only reads and rewinds gets each entry once, and stops no machine.      *)
(***************************************************************************)
EXTENDS ReadDir, SequenceTheorems, TLAPS

Names == {".", ".."}

\* The offset o of a client that has not moved it stands for the entries it has, r,
\* and the client has been told of the end (e) exactly when it has them all.
Read(o, r, e) ==
  \E i \in 0..2 : o = i * 7 /\ r = SubSeq(Directory, 1, i) /\ (e <=> i = 2)

ReadInv == \A c \in Clients : ~strayed[c] => Read(offset[c], returned[c], eof[c])

IInv == TypeOK /\ ReadInv /\ OnlyStrayOffsetsPanic

LEMMA DirectoryType == Directory \in Seq(Names) /\ Len(Directory) = 2
  BY DEF Directory, Names

\* A client that has just opened or rewound the directory.
LEMMA AtStart == Read(0, <<>>, FALSE)
<1>1. SubSeq(Directory, 1, 0) = <<>>
  BY SubSeqEmpty
<1>. QED  BY <1>1 DEF Read

LEMMA InitIInv == Init => IInv
<1>. SUFFICES ASSUME Init PROVE IInv
  OBVIOUS
<1>1. TypeOK
  <2>1. <<>> \in Seq({".", ".."})
    OBVIOUS
  <2>. QED  BY <2>1 DEF Init, TypeOK
<1>2. ReadInv
  BY AtStart, Zenon DEF Init, ReadInv
<1>3. OnlyStrayOffsetsPanic
  BY DEF Init, OnlyStrayOffsetsPanic
<1>. QED  BY <1>1, <1>2, <1>3 DEF IInv

\* The offsets that are taken: multiples of 7.
LEMMA Indices ==
  ASSUME NEW o \in Nat, o % 7 = 0
  PROVE  o \div 7 \in Nat /\ (o \div 7) * 7 = o
  OBVIOUS

\* What lustre_extension_uio_move hands over, and where it stops: from index on, or
\* nothing if index is past the end.
LEMMA MoveFacts ==
  ASSUME NEW index \in Nat, NEW room \in 0..2
  PROVE  \E last \in Nat :
           /\ Move(index, room) = [names |-> SubSeq(Directory, index + 1, last), index |-> last]
           /\ index <= last
           /\ index <= 2 => last <= 2
           /\ SubSeq(Directory, index + 1, last) \in Seq(Names)
<1>. DEFINE last == IF index >= 2 THEN index
                    ELSE IF index + room > 2 THEN 2 ELSE index + room
<1>1. last \in Nat /\ index <= last /\ (index <= 2 => last <= 2) /\ (index < last => last <= 2)
  OBVIOUS
<1>2. Move(index, room) = [names |-> SubSeq(Directory, index + 1, last), index |-> last]
  BY DEF Move
<1>. HIDE DEF last
<1>3. \A i \in index + 1 .. last : Directory[i] \in Names
  <2>1. \A i \in 1 .. 2 : Directory[i] \in Names
    BY DirectoryType, ElementOfSeq
  <2>2. \A i \in index + 1 .. last : i \in 1 .. 2
    BY <1>1
  <2>. QED  BY <2>1, <2>2
<1>4. SubSeq(Directory, index + 1, last) \in Seq(Names)
  BY <1>1, <1>3, SubSeqProperties
<1>. QED  BY <1>1, <1>2, <1>4

\* A client that has read up to last.
LEMMA ReadTo ==
  ASSUME NEW last \in 0..2, NEW r, r = SubSeq(Directory, 1, last)
  PROVE  Read(last * 7, r, AtEnd(last))
<1>1. ASSUME NEW e, e <=> last = 2 PROVE Read(last * 7, r, e)
  BY <1>1 DEF Read
<1>2. AtEnd(last) <=> last = 2
  BY DEF AtEnd
<1>. QED  BY <1>1, <1>2

LEMMA LseekStep ==
  ASSUME IInv, NEW c \in Clients, NEW o \in 0..MaxOffset, Lseek(c, o), ~panicked
  PROVE  IInv'
<1>1. TypeOK'
  BY DEF Lseek, IInv, TypeOK
<1>2. ReadInv'
  <2>1. /\ offset'[c] = o /\ returned'[c] = <<>> /\ strayed'[c] = (o # 0) /\ eof'[c] = FALSE
        /\ \A d \in Clients : d # c =>
             /\ offset'[d] = offset[d] /\ returned'[d] = returned[d]
             /\ strayed'[d] = strayed[d] /\ eof'[d] = eof[d]
    BY DEF Lseek, IInv, TypeOK
  <2>2. ~strayed'[c] => Read(offset'[c], returned'[c], eof'[c])
    BY <2>1, AtStart
  <2>. QED  BY <2>1, <2>2 DEF IInv, ReadInv
<1>3. OnlyStrayOffsetsPanic'
  BY DEF Lseek, OnlyStrayOffsetsPanic
<1>. QED  BY <1>1, <1>2, <1>3 DEF IInv

LEMMA ReadStep ==
  ASSUME IInv, NEW c \in Clients, NEW room \in 0..2, ReadDirCall(c, room), ~panicked
  PROVE  IInv'
<1>1. offset[c] \in Nat /\ returned[c] \in Seq({".", ".."})
  BY DEF IInv, TypeOK
<1>2. CASE /\ offset[c] % 7 # 0
           /\ panicked' = TRUE /\ UNCHANGED <<offset, returned, strayed, eof>>
  <2>1. strayed[c]
    BY <1>2 DEF IInv, ReadInv, Read
  <2>. QED  BY <1>2, <2>1 DEF IInv, TypeOK, ReadInv, OnlyStrayOffsetsPanic
<1>3. CASE UNCHANGED vars
  BY <1>3 DEF vars, IInv, TypeOK, ReadInv, OnlyStrayOffsetsPanic
<1>4. CASE /\ offset[c] % 7 = 0
           /\ LET moved == Move(offset[c] \div 7, room)
              IN  /\ offset' = [offset EXCEPT ![c] = moved.index * 7]
                  /\ returned' = [returned EXCEPT ![c] = @ \o moved.names]
                  /\ eof' = [eof EXCEPT ![c] = AtEnd(moved.index)]
                  /\ UNCHANGED <<strayed, panicked>>
  <2>1. offset[c] \div 7 \in Nat /\ (offset[c] \div 7) * 7 = offset[c]
    BY <1>1, <1>4, Indices
  <2>2. PICK last \in Nat :
          /\ Move(offset[c] \div 7, room)
               = [names |-> SubSeq(Directory, offset[c] \div 7 + 1, last), index |-> last]
          /\ offset[c] \div 7 <= last
          /\ offset[c] \div 7 <= 2 => last <= 2
          /\ SubSeq(Directory, offset[c] \div 7 + 1, last) \in Seq(Names)
    BY <2>1, MoveFacts
  <2>. DEFINE names == SubSeq(Directory, offset[c] \div 7 + 1, last)
  <2>3. /\ offset' = [offset EXCEPT ![c] = last * 7]
        /\ returned' = [returned EXCEPT ![c] = @ \o names]
        /\ eof' = [eof EXCEPT ![c] = AtEnd(last)]
        /\ UNCHANGED <<strayed, panicked>>
    <3>. DEFINE moved == Move(offset[c] \div 7, room)
    <3>1. moved.index = last /\ moved.names = names
      BY <2>2
    <3>2. /\ offset' = [offset EXCEPT ![c] = moved.index * 7]
          /\ returned' = [returned EXCEPT ![c] = @ \o moved.names]
          /\ eof' = [eof EXCEPT ![c] = AtEnd(moved.index)]
          /\ UNCHANGED <<strayed, panicked>>
      BY <1>4
    <3>. HIDE DEF moved, names
    <3>. QED  BY <3>1, <3>2
  <2>4. names \in Seq({".", ".."})
    BY <2>2 DEF Names
  <2>5. ~strayed[c] => Read(last * 7, returned[c] \o names, AtEnd(last))
    <3>. SUFFICES ASSUME ~strayed[c] PROVE Read(last * 7, returned[c] \o names, AtEnd(last))
      OBVIOUS
    <3>1. PICK i \in 0..2 : offset[c] = i * 7 /\ returned[c] = SubSeq(Directory, 1, i)
      BY DEF IInv, ReadInv, Read
    <3>2. offset[c] \div 7 = i
      BY <3>1, <2>1
    <3>3. last \in i .. 2
      BY <2>2, <3>2
    <3>4. SubSeq(Directory, 1, i) \o SubSeq(Directory, i + 1, last) = SubSeq(Directory, 1, last)
      BY <3>3, DirectoryType, ConcatAdjacentSubSeq
    <3>5. returned[c] \o names = SubSeq(Directory, 1, last)
      BY <3>1, <3>2, <3>4
    <3>6. last \in 0..2
      BY <3>3
    <3>. QED  BY <3>5, <3>6, ReadTo
  <2>. HIDE DEF names
  <2>6. TypeOK'
    <3>1. last * 7 \in Nat /\ returned[c] \o names \in Seq({".", ".."}) /\ AtEnd(last) \in BOOLEAN
      BY <1>1, <2>2, <2>4 DEF AtEnd
    <3>. QED  BY <2>3, <3>1 DEF IInv, TypeOK
  <2>7. ReadInv'
    <3>1. /\ offset'[c] = last * 7 /\ returned'[c] = returned[c] \o names
          /\ eof'[c] = AtEnd(last)
          /\ \A d \in Clients : d # c =>
               offset'[d] = offset[d] /\ returned'[d] = returned[d] /\ eof'[d] = eof[d]
      BY <2>3 DEF IInv, TypeOK
    <3>. SUFFICES ASSUME NEW d \in Clients, ~strayed[d]
                  PROVE  Read(offset'[d], returned'[d], eof'[d])
      BY <2>3 DEF ReadInv
    <3>2. CASE d = c
      BY <2>5, <3>1, <3>2
    <3>3. CASE d # c
      BY <3>1, <3>3 DEF IInv, ReadInv
    <3>. QED  BY <3>2, <3>3
  <2>8. OnlyStrayOffsetsPanic'
    BY <2>3 DEF IInv, OnlyStrayOffsetsPanic
  <2>. QED  BY <2>6, <2>7, <2>8 DEF IInv
<1>. QED  BY <1>2, <1>3, <1>4 DEF ReadDirCall

LEMMA StepIInv == IInv /\ [Next]_vars => IInv'
<1>. SUFFICES ASSUME IInv, [Next]_vars PROVE IInv'
  OBVIOUS
<1>1. CASE UNCHANGED vars
  BY <1>1 DEF vars, IInv, TypeOK, ReadInv, OnlyStrayOffsetsPanic
<1>. QED  BY <1>1, LseekStep, ReadStep DEF Next, Halted

\* IInv holds in every reachable state of the clients.
THEOREM Invariance == Spec => []IInv
  BY InitIInv, StepIInv, PTL DEF Spec

\* The variables keep their types, wherever lseek goes.
THEOREM TypeCorrect == Spec => []TypeOK
<1>1. IInv => TypeOK
  BY DEF IInv
<1>. QED  BY <1>1, Invariance, PTL

\* A client that only reads and rewinds gets the entries in order and each once, and
\* is told of the end exactly when it has them all, whatever the buffers it brings and
\* the calls that fail (vnop.c:339-376).
THEOREM EachOnce == Spec => []EachEntryOnce
<1>1. ASSUME NEW o, NEW r, NEW e, Read(o, r, e)
      PROVE  IsPrefix(r, Directory) /\ (e <=> r = Directory)
  <2>1. PICK i \in 0..2 : r = SubSeq(Directory, 1, i) /\ (e <=> i = 2)
    BY <1>1 DEF Read
  <2>2. \A j \in 1 .. i : Directory[j] \in Names
    BY DirectoryType, ElementOfSeq
  <2>3. Len(r) = i
    BY <2>1, <2>2, SubSeqProperties
  <2>4. SubSeq(Directory, 1, 2) = Directory
    BY DirectoryType, SubSeqFull
  <2>5. SubSeq(r, 1, i) = r
    BY <2>1, <2>2, <2>3, SubSeqProperties, SubSeqFull
  <2>6. IsPrefix(r, Directory)
    BY <2>1, <2>3, <2>5, DirectoryType DEF IsPrefix
  <2>7. r = Directory <=> i = 2
    BY <2>1, <2>3, <2>4, DirectoryType
  <2>. QED  BY <2>1, <2>6, <2>7
<1>2. IInv => EachEntryOnce
  BY <1>1 DEF IInv, ReadInv, EachEntryOnce
<1>. QED  BY <1>2, Invariance, PTL

\* Only an offset that lseek chose stops the machine (vnop.c:335).
THEOREM StrayOffsets == Spec => []OnlyStrayOffsetsPanic
<1>1. IInv => OnlyStrayOffsetsPanic
  BY DEF IInv
<1>. QED  BY <1>1, Invariance, PTL
=============================================================================
