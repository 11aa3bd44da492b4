---------------------------- MODULE KeyboardProofs -----------------------------
(******************************************************************************)
(* Proofs about a key's way from the interrupt controller to the prompt: the  *)
(* ring and the prompt that reads it (KeyRing, ShellLine), for every size of  *)
(* the ring and of the line and every set of characters; then the way of an   *)
(* interrupt (Interrupts) and the decoding of the keyboard's bytes            *)
(* (Keyboard), for every vector the kernel may choose, every layout of the    *)
(* keyboard and every size of its buffer.                                     *)
(*                                                                            *)
(* The argument for the ring: the handler writes only the slot at the tail,   *)
(* which holds nothing while the ring is not full, and only the reader moves  *)
(* the head; so what the reader has seen of the head, and the character it    *)
(* has read, stay true until it moves the head itself.                        *)
(******************************************************************************)
EXTENDS ShellLine, Interrupts, SequenceTheorems, TLAPS

\* The reader was told that a character waits.
Told == at \in {"call", "test", "read", "move"}

\* Slot i lies between head and tail.
InRing(i) == IF g_KeyHead <= g_KeyTail THEN g_KeyHead <= i /\ i < g_KeyTail
             ELSE g_KeyHead <= i \/ i < g_KeyTail

\* What a slot between head and tail holds is a character.
Filled == \A i \in Index : InRing(i) => g_KeyBuffer[i] \in Char

\* The reader's copies agree with the ring.
ReaderAgrees ==
    /\ at \in {"has", "test"} => head_read = g_KeyHead
    /\ Told => g_KeyHead # g_KeyTail
    /\ at = "move" => c = g_KeyBuffer[g_KeyHead]

RingIInv == TypeOK /\ Filled /\ ReaderAgrees

\* The next index without the remainder (keyboard.c:48,60).
LEMMA SuccNext ==
    ASSUME NEW i \in Index
    PROVE  /\ Succ(i) = IF i = KEY_BUFFER_SIZE - 1 THEN 0 ELSE i + 1
           /\ Succ(i) \in Index
           /\ Succ(i) # i
<1>1. KEY_BUFFER_SIZE \in Nat /\ KEY_BUFFER_SIZE >= 2 /\ i \in 0 .. KEY_BUFFER_SIZE - 1
  BY KeyRingAssumption DEF Index
<1>2. CASE i = KEY_BUFFER_SIZE - 1
  <2>1. Succ(i) = KEY_BUFFER_SIZE % KEY_BUFFER_SIZE
    BY <1>1, <1>2 DEF Succ
  <2>2. KEY_BUFFER_SIZE % KEY_BUFFER_SIZE = 0
    BY <1>1
  <2> QED BY <1>1, <1>2, <2>1, <2>2 DEF Index
<1>3. CASE i # KEY_BUFFER_SIZE - 1
  <2>1. i + 1 \in 0 .. KEY_BUFFER_SIZE - 1
    BY <1>1, <1>3
  <2>2. (i + 1) % KEY_BUFFER_SIZE = i + 1
    BY <1>1, <2>1
  <2> QED BY <1>1, <1>3, <2>1, <2>2 DEF Index, Succ
<1> QED BY <1>2, <1>3

--------------------------------------------------------------------------------
LEMMA InitRingIInv == RingInit => RingIInv
BY KeyRingAssumption
   DEF RingInit, RingIInv, TypeOK, Filled, InRing, ReaderAgrees, Told, Index, ReaderPlaces

\* A step of the handler: the slot it fills is outside the ring before and in
\* the ring after it; every other slot keeps its place and its character.
LEMMA PutKeeps ==
    ASSUME RingIInv, NEW ch \in Char, Keyboard_PutChar(ch)
    PROVE  RingIInv'
<1> USE KeyRingAssumption DEF Index
<1>1. CASE Succ(g_KeyTail) = g_KeyHead
  <2>1. UNCHANGED keyVars
    BY <1>1 DEF Keyboard_PutChar, keyVars, ringVars, readerVars
  <2> QED
    BY <2>1 DEF RingIInv, TypeOK, Filled, InRing, ReaderAgrees, Told, keyVars, ringVars, readerVars
<1>2. CASE Succ(g_KeyTail) # g_KeyHead
  <2>1. /\ g_KeyBuffer' = [g_KeyBuffer EXCEPT ![g_KeyTail] = ch]
        /\ g_KeyTail' = Succ(g_KeyTail)
        /\ UNCHANGED <<g_KeyHead, readerVars>>
    BY <1>2 DEF Keyboard_PutChar
  <2>2. /\ Succ(g_KeyTail) = IF g_KeyTail = KEY_BUFFER_SIZE - 1 THEN 0 ELSE g_KeyTail + 1
        /\ Succ(g_KeyTail) \in Index
    BY SuccNext DEF RingIInv, TypeOK
  <2>3. TypeOK'
    BY <2>1, <2>2 DEF RingIInv, TypeOK, readerVars
  <2>4. Filled'
    <3> SUFFICES ASSUME NEW i \in Index, InRing(i)'
                 PROVE  g_KeyBuffer'[i] \in Char
      BY DEF Filled
    <3>1. CASE i = g_KeyTail
      BY <2>1, <3>1 DEF RingIInv, TypeOK
    <3>2. CASE i # g_KeyTail
      <4>1. g_KeyHead \in Index /\ g_KeyTail \in Index /\ g_KeyHead' = g_KeyHead
        BY <2>1 DEF RingIInv, TypeOK
      <4>2. InRing(i)
        BY <1>2, <2>1, <2>2, <3>2, <4>1 DEF InRing
      <4> QED
        BY <2>1, <3>2, <4>2 DEF RingIInv, TypeOK, Filled
    <3> QED BY <3>1, <3>2
  <2>5. ReaderAgrees'
    <3>1. Told' => g_KeyHead' # g_KeyTail'
      BY <1>2, <2>1
    <3>2. at = "move" => g_KeyBuffer'[g_KeyHead] = g_KeyBuffer[g_KeyHead]
      BY <2>1 DEF RingIInv, TypeOK, ReaderAgrees, Told
    <3> QED
      BY <2>1, <3>1, <3>2 DEF RingIInv, ReaderAgrees, readerVars
  <2> QED BY <2>3, <2>4, <2>5 DEF RingIInv
<1> QED BY <1>1, <1>2

\* The step that moves the head: the slot it leaves was in the ring, the others
\* keep their places.
LEMMA MoveKeeps ==
    ASSUME RingIInv, GetCharMove
    PROVE  RingIInv'
<1> USE KeyRingAssumption DEF Index
<1>1. /\ at = "move" /\ at' = "away"
      /\ g_KeyHead' = Succ(g_KeyHead)
      /\ got' = c
      /\ UNCHANGED <<g_KeyBuffer, g_KeyTail, head_read, c>>
  BY DEF GetCharMove
<1>2. /\ Succ(g_KeyHead) = IF g_KeyHead = KEY_BUFFER_SIZE - 1 THEN 0 ELSE g_KeyHead + 1
      /\ Succ(g_KeyHead) \in Index
  BY SuccNext DEF RingIInv, TypeOK
<1>3. TypeOK'
  BY <1>1, <1>2 DEF RingIInv, TypeOK, ReaderPlaces
<1>4. g_KeyHead # g_KeyTail
  BY <1>1 DEF RingIInv, ReaderAgrees, Told
<1>5. Filled'
  <2> SUFFICES ASSUME NEW i \in Index, InRing(i)'
               PROVE  g_KeyBuffer'[i] \in Char
    BY DEF Filled
  <2>1. g_KeyHead \in Index /\ g_KeyTail \in Index /\ g_KeyTail' = g_KeyTail
    BY <1>1 DEF RingIInv, TypeOK
  <2>2. InRing(i)
    BY <1>1, <1>2, <1>4, <2>1 DEF InRing
  <2> QED
    BY <1>1, <2>2 DEF RingIInv, Filled
<1>6. ReaderAgrees'
  BY <1>1 DEF ReaderAgrees, Told
<1> QED BY <1>3, <1>5, <1>6 DEF RingIInv

LEMMA StepRingIInv == RingIInv /\ [RingNext]_keyVars => RingIInv'
<1> SUFFICES ASSUME RingIInv, [RingNext]_keyVars PROVE RingIInv'
  OBVIOUS
<1>1. CASE HasCharHead
  BY <1>1 DEF RingIInv, TypeOK, Filled, InRing, ReaderAgrees, Told, ReaderPlaces, HasCharHead, ringVars
<1>2. CASE HasCharTail
  BY <1>2 DEF RingIInv, TypeOK, Filled, InRing, ReaderAgrees, Told, ReaderPlaces, HasCharTail, ringVars
<1>3. CASE GetCharHead
  BY <1>3 DEF RingIInv, TypeOK, Filled, InRing, ReaderAgrees, Told, ReaderPlaces, GetCharHead, ringVars
<1>4. CASE GetCharTest
  BY <1>4 DEF RingIInv, TypeOK, Filled, InRing, ReaderAgrees, Told, ReaderPlaces, GetCharTest, ringVars
<1>5. CASE GetCharRead
  BY <1>5 DEF RingIInv, TypeOK, Filled, InRing, ReaderAgrees, Told, ReaderPlaces, GetCharRead, ringVars
<1>6. CASE GetCharMove
  BY <1>6, MoveKeeps
<1>7. ASSUME NEW ch \in Char, Keyboard_PutChar(ch)
      PROVE  RingIInv'
  BY <1>7, PutKeeps
<1>8. CASE UNCHANGED keyVars
  BY <1>8 DEF RingIInv, TypeOK, Filled, InRing, ReaderAgrees, Told, keyVars, ringVars, readerVars
<1> QED BY <1>1, <1>2, <1>3, <1>4, <1>5, <1>6, <1>7, <1>8 DEF RingNext, Reader

\* What is between head and tail are characters, and what the shell has loaded
\* is still so (keyboard.c:47-64).
THEOREM RingInvariance == RingSpec => []RingIInv
BY InitRingIInv, StepRingIInv, PTL DEF RingSpec

\* Neither index leaves the array and the shell is nowhere but in ReaderPlaces.
THEOREM RingTypeCorrect == RingSpec => []TypeOK
BY RingInvariance, PTL DEF RingIInv

\* GetChar reads the oldest character and the handler never overwrites it before
\* the head is moved (keyboard.c:59-60).
THEOREM ReadsOldest == RingSpec => []ReadIsOldest
<1>1. ASSUME RingIInv, at = "move" PROVE c = g_KeyBuffer[g_KeyHead] /\ c \in Char
  <2>1. g_KeyHead # g_KeyTail /\ c = g_KeyBuffer[g_KeyHead]
    BY <1>1 DEF RingIInv, ReaderAgrees, Told
  <2>2. InRing(g_KeyHead) /\ g_KeyHead \in Index
    BY <1>1, <2>1, KeyRingAssumption DEF RingIInv, TypeOK, InRing, Index
  <2> QED BY <1>1, <2>1, <2>2 DEF RingIInv, Filled
<1>2. RingIInv => ReadIsOldest
  BY <1>1 DEF ReadIsOldest
<1> QED BY <1>2, RingInvariance, PTL

\* Once HasChar has answered yes GetChar never finds the ring empty
\* (shell.c:1142-1149).
THEOREM AnswerStands == RingSpec => []NeverEmptyHanded
<1>1. RingIInv => NeverEmptyHanded
  BY DEF RingIInv, ReaderAgrees, Told, NeverEmptyHanded
<1> QED BY <1>1, RingInvariance, PTL

--------------------------------------------------------------------------------
\* The ring read as a sequence: as long as the distance from head to tail, all
\* of it characters, empty when the indices meet.
LEMMA WaitingIs ==
    ASSUME RingIInv
    PROVE  /\ Count \in 0 .. KEY_BUFFER_SIZE - 1
           /\ Count = 0 <=> g_KeyHead = g_KeyTail
           /\ \A i \in 1 .. Count : Slot(i) \in Index /\ InRing(Slot(i))
           /\ Waiting \in Seq(Char)
           /\ Len(Waiting) = Count
<1>1. /\ KEY_BUFFER_SIZE \in Nat /\ KEY_BUFFER_SIZE >= 2
      /\ g_KeyHead \in Index /\ g_KeyTail \in Index
  BY KeyRingAssumption DEF RingIInv, TypeOK
<1>2. Count \in 0 .. KEY_BUFFER_SIZE - 1 /\ (Count = 0 <=> g_KeyHead = g_KeyTail)
  BY <1>1 DEF Count, Index
<1>3. \A i \in 1 .. Count : Slot(i) \in Index /\ InRing(Slot(i))
  BY <1>1 DEF Count, Slot, InRing, Index
<1>4. \A i \in 1 .. Count : g_KeyBuffer[Slot(i)] \in Char
  BY <1>3 DEF RingIInv, Filled
<1>5. Count \in Nat
  BY <1>1, <1>2
<1>6. Waiting \in [1 .. Count -> Char]
  BY <1>4 DEF Waiting
<1>7. Waiting \in Seq(Char) /\ Len(Waiting) = Count
  BY <1>5, <1>6
<1> QED BY <1>2, <1>3, <1>7

\* The same of the next state.
IsSequence == Waiting \in Seq(Char) /\ Len(Waiting) = Count

LEMMA WaitingIsNext == RingIInv' => IsSequence'
<1>1. RingIInv => IsSequence
  BY WaitingIs DEF IsSequence
<1> QED BY <1>1, PTL

\* The handler appends to that sequence while it is shorter than the capacity.
LEMMA PutAppends ==
    ASSUME RingIInv, RingIInv', NEW ch \in Char, Keyboard_PutChar(ch)
    PROVE  Waiting' = IF Len(Waiting) < KEY_BUFFER_SIZE - 1
                      THEN Append(Waiting, ch) ELSE Waiting
<1>1. /\ KEY_BUFFER_SIZE \in Nat /\ KEY_BUFFER_SIZE >= 2
      /\ g_KeyHead \in Index /\ g_KeyTail \in Index
      /\ Succ(g_KeyTail) = IF g_KeyTail = KEY_BUFFER_SIZE - 1 THEN 0 ELSE g_KeyTail + 1
  BY KeyRingAssumption, SuccNext DEF RingIInv, TypeOK
<1>2. Len(Waiting) = Count /\ Count \in 0 .. KEY_BUFFER_SIZE - 1 /\ Waiting \in Seq(Char)
  BY WaitingIs
<1>3. CASE Succ(g_KeyTail) = g_KeyHead
  <2>1. Count = KEY_BUFFER_SIZE - 1
    BY <1>1, <1>3 DEF Count, Index
  <2>2. Waiting' = Waiting
    BY <1>3 DEF Keyboard_PutChar, Waiting, Count, Slot
  <2> QED BY <1>1, <1>2, <2>1, <2>2
<1>4. CASE Succ(g_KeyTail) # g_KeyHead
  <2>1. /\ g_KeyBuffer' = [g_KeyBuffer EXCEPT ![g_KeyTail] = ch]
        /\ g_KeyTail' = Succ(g_KeyTail)
        /\ g_KeyHead' = g_KeyHead
        /\ g_KeyBuffer \in [Index -> Char \cup {None}]
    BY <1>4 DEF Keyboard_PutChar, RingIInv, TypeOK
  <2>2. PICK n \in Nat : n = Count
    BY <1>2
  <2>3. n < KEY_BUFFER_SIZE - 1 /\ Count' = n + 1
    BY <1>1, <1>4, <2>1, <2>2 DEF Count, Index
  <2>4. \A i \in 1 .. n : Slot(i)' = Slot(i) /\ Slot(i) # g_KeyTail /\ Slot(i) \in Index
    BY <1>1, <2>1, <2>2 DEF Slot, Count, Index
  <2>5. Slot(n + 1)' = g_KeyTail
    BY <1>1, <2>1, <2>2 DEF Slot, Count, Index
  <2>6. \A i \in 1 .. n : g_KeyBuffer'[Slot(i)'] = Waiting[i]
    BY <2>1, <2>2, <2>4 DEF Waiting
  <2>7. g_KeyBuffer'[Slot(n + 1)'] = ch
    BY <1>1, <2>1, <2>5
  <2>8. \A i \in 1 .. n + 1 : Waiting'[i] = g_KeyBuffer'[Slot(i)']
    BY <2>3 DEF Waiting
  <2>9. /\ Append(Waiting, ch) \in Seq(Char)
        /\ Len(Append(Waiting, ch)) = n + 1
        /\ \A i \in 1 .. n : Append(Waiting, ch)[i] = Waiting[i]
        /\ Append(Waiting, ch)[n + 1] = ch
    BY <1>2, <2>2, AppendProperties
  <2>10. Waiting' \in Seq(Char) /\ Len(Waiting)' = n + 1
    BY <2>3, WaitingIsNext DEF IsSequence
  <2>11. \A i \in 1 .. n + 1 : Waiting'[i] = Append(Waiting, ch)[i]
    <3> SUFFICES ASSUME NEW i \in 1 .. n + 1
                 PROVE  Waiting'[i] = Append(Waiting, ch)[i]
      OBVIOUS
    <3>1. CASE i \in 1 .. n
      BY <2>6, <2>8, <2>9, <3>1
    <3>2. CASE i = n + 1
      <4>1. Waiting'[n + 1] = ch
        BY <2>2, <2>7, <2>8
      <4>2. Append(Waiting, ch)[n + 1] = ch
        BY <2>9
      <4> QED BY <3>2, <4>1, <4>2, Zenon
    <3>3. i \in 1 .. n \/ i = n + 1
      OBVIOUS
    <3> QED BY <3>1, <3>2, <3>3
  <2>12. Waiting' = Append(Waiting, ch)
    BY <2>9, <2>10, <2>11, SeqEqual
  <2> QED BY <1>2, <2>2, <2>3, <2>12
<1> QED BY <1>3, <1>4

\* Moving the head takes the oldest character off that sequence.
LEMMA MoveTakes ==
    ASSUME RingIInv, RingIInv', GetCharMove
    PROVE  Waiting # << >> /\ got' = Head(Waiting) /\ Waiting' = Tail(Waiting)
<1>1. /\ KEY_BUFFER_SIZE \in Nat /\ KEY_BUFFER_SIZE >= 2
      /\ g_KeyHead \in Index /\ g_KeyTail \in Index
      /\ Succ(g_KeyHead) = IF g_KeyHead = KEY_BUFFER_SIZE - 1 THEN 0 ELSE g_KeyHead + 1
  BY KeyRingAssumption, SuccNext DEF RingIInv, TypeOK
<1>2. /\ at = "move" /\ got' = c /\ c = g_KeyBuffer[g_KeyHead]
      /\ g_KeyHead # g_KeyTail
      /\ g_KeyHead' = Succ(g_KeyHead)
      /\ g_KeyBuffer' = g_KeyBuffer /\ g_KeyTail' = g_KeyTail
  BY DEF GetCharMove, RingIInv, ReaderAgrees, Told
<1>3. /\ Waiting \in Seq(Char) /\ Len(Waiting) = Count
      /\ Count \in 0 .. KEY_BUFFER_SIZE - 1 /\ Count # 0
  BY <1>2, WaitingIs
<1>4. PICK n \in Nat : n + 1 = Count
  <2>1. Count - 1 \in Nat /\ (Count - 1) + 1 = Count
    BY <1>1, <1>3
  <2> QED BY <2>1
<1>5. Waiting # << >>
  BY <1>3, EmptySeq
<1>6. Head(Waiting) = g_KeyBuffer[g_KeyHead]
  <2>1. Head(Waiting) = Waiting[1]
    BY <1>3, <1>5, HeadTailProperties
  <2>2. Waiting[1] = g_KeyBuffer[Slot(1)] /\ Slot(1) = g_KeyHead
    BY <1>1, <1>4 DEF Waiting, Slot, Index
  <2> QED BY <2>1, <2>2
<1>7. Count' = n /\ \A i \in 1 .. n : Slot(i)' = Slot(i + 1)
  BY <1>1, <1>2, <1>4 DEF Count, Slot, Index
<1>8. \A i \in 1 .. n : Waiting'[i] = Waiting[i + 1]
  <2>1. \A i \in 1 .. n : Waiting'[i] = g_KeyBuffer[Slot(i)']
    BY <1>2, <1>7 DEF Waiting
  <2>2. \A i \in 1 .. n + 1 : Waiting[i] = g_KeyBuffer[Slot(i)]
    BY <1>4 DEF Waiting
  <2> QED BY <1>7, <2>1, <2>2
<1>9. /\ Tail(Waiting) \in Seq(Char)
      /\ Len(Tail(Waiting)) = n
      /\ \A i \in 1 .. n : Tail(Waiting)[i] = Waiting[i + 1]
  BY <1>3, <1>4, <1>5, HeadTailProperties
<1>10. Waiting' \in Seq(Char) /\ Len(Waiting)' = n
  BY <1>7, WaitingIsNext DEF IsSequence
<1>11. Waiting' = Tail(Waiting)
  BY <1>8, <1>9, <1>10, SeqEqual
<1> QED BY <1>2, <1>5, <1>6, <1>11

--------------------------------------------------------------------------------
LEMMA InitMaps == RingInit => Q!Init
<1> SUFFICES ASSUME RingInit PROVE Q!Init
  OBVIOUS
<1>1. Waiting = << >>
  <2>1. RingIInv
    BY InitRingIInv
  <2>2. Waiting \in Seq(Char) /\ Len(Waiting) = 0
    BY <2>1, WaitingIs DEF RingInit
  <2> QED BY <2>2, EmptySeq
<1> QED BY <1>1 DEF RingInit, Q!Init

LEMMA StepMaps ==
    RingIInv /\ RingIInv' /\ [RingNext]_keyVars => [Q!Next]_(Q!queueVars)
<1> SUFFICES ASSUME RingIInv, RingIInv', [RingNext]_keyVars
             PROVE  Q!Next \/ UNCHANGED Q!queueVars
  OBVIOUS
<1> USE DEF Q!queueVars
<1>1. ASSUME UNCHANGED ringVars PROVE Waiting' = Waiting
  BY <1>1 DEF ringVars, Waiting, Count, Slot
<1>2. CASE HasCharHead
  BY <1>1, <1>2 DEF HasCharHead
<1>3. CASE HasCharTail
  <2>1. Waiting' = Waiting /\ at = "has" /\ got' = got
    BY <1>1, <1>3 DEF HasCharTail
  <2>2. CASE head_read # g_KeyTail
    <3>1. Waiting # << >>
      <4>1. Len(Waiting) # 0
        BY <1>3, <2>2, WaitingIs DEF HasCharTail, RingIInv, ReaderAgrees
      <4> QED BY <4>1, EmptySeq
    <3> QED BY <1>3, <2>1, <2>2, <3>1 DEF HasCharTail, Q!Ask, Q!Next
  <2>3. CASE head_read = g_KeyTail
    BY <1>3, <2>1, <2>3 DEF HasCharTail
  <2> QED BY <2>2, <2>3
<1>4. CASE GetCharHead
  BY <1>1, <1>4 DEF GetCharHead
<1>5. CASE GetCharTest
  BY <1>1, <1>5 DEF GetCharTest, RingIInv, ReaderAgrees, Told
<1>6. CASE GetCharRead
  BY <1>1, <1>6 DEF GetCharRead
<1>7. CASE GetCharMove
  BY <1>7, MoveTakes DEF GetCharMove, Q!Take, Q!Next
<1>8. ASSUME NEW ch \in Char, Keyboard_PutChar(ch)
      PROVE  Q!Next
  <2>1. Q!Put(ch)
    BY <1>8, PutAppends DEF Keyboard_PutChar, readerVars, Q!Put
  <2> QED BY <2>1 DEF Q!Next
<1>9. CASE UNCHANGED keyVars
  BY <1>1, <1>9 DEF keyVars, readerVars
<1> QED BY <1>2, <1>3, <1>4, <1>5, <1>6, <1>7, <1>8, <1>9 DEF RingNext, Reader

\* The ring with its unlocked indices is a first-in first-out queue of
\* KEY_BUFFER_SIZE - 1 characters (keyboard.c:47-64), for every size.
THEOREM RingIsQueue == RingSpec => IsQueue
BY InitMaps, StepMaps, RingInvariance, PTL DEF RingSpec, IsQueue, Q!Spec

--------------------------------------------------------------------------------
(* The prompt.  What the shell will make of the keys that are under way is told *)
(* by the lines it goes through: from g_Line to what the screen shows.          *)

\* The keys under way: the one being handled, and those in the ring.
UnderWay == IF doing = "key" THEN <<got>> \o Waiting ELSE Waiting

\* A key that was echoed grows the line.
Grown(line, key) == IF key \in Plain THEN Append(line, key) ELSE line

NonePlain(keys, k) == \A j \in k .. Len(keys) : keys[j] \notin Plain

\* The keys make s of the line, and from where no plain key comes any more the
\* line is s already.
Echoes(line, keys, s) ==
    \E path \in [1 .. Len(keys) + 1 -> Seq(Plain)] :
        /\ path[1] = line
        /\ \A k \in 1 .. Len(keys) : path[k + 1] = Grown(path[k], keys[k])
        /\ \A k \in 1 .. Len(keys) + 1 : NonePlain(keys, k) => path[k] = s

\* No plain key comes behind one that changes the row.
InOrder(keys) ==
    \A i, j \in 1 .. Len(keys) : i < j /\ keys[i] \in {Backspace, Enter} => keys[j] \notin Plain

LInv ==
    /\ g_Line \in Seq(Plain) /\ shown \in Seq(Plain) /\ Len(g_Line) < LINE_MAX
    /\ doing \in {"wait", "key", "dispatch"} /\ astray \in BOOLEAN
    /\ doing = "key" => got \in Char
    /\ ~astray /\ doing # "dispatch" => Echoes(g_Line, UnderWay, shown) /\ InOrder(UnderWay)

\* The end of the path is what is shown.
LEMMA EchoesNone ==
    ASSUME NEW line \in Seq(Plain), NEW keys \in Seq(Char), NonePlain(keys, 1)
    PROVE  Echoes(line, keys, line) /\ InOrder(keys)
<1> DEFINE n == Len(keys)
           path == [k \in 1 .. n + 1 |-> line]
<1>1. n \in Nat
  BY LenProperties
<1>2. \A k \in 1 .. n : keys[k] \notin Plain
  BY DEF NonePlain
<1> HIDE DEF n
<1>3. path \in [1 .. n + 1 -> Seq(Plain)] /\ \A k \in 1 .. n + 1 : path[k] = line
  OBVIOUS
<1>4. 1 \in 1 .. n + 1 /\ \A k \in 1 .. n : k \in 1 .. n + 1 /\ k + 1 \in 1 .. n + 1
  BY <1>1
<1> HIDE DEF path
<1>5. path[1] = line /\ \A k \in 1 .. n : path[k + 1] = Grown(path[k], keys[k])
  BY <1>2, <1>3, <1>4, Zenon DEF Grown
<1>6. Echoes(line, keys, line)
  BY <1>3, <1>5, Zenon DEF Echoes, n
<1>7. InOrder(keys)
  BY <1>2, Zenon DEF InOrder, n
<1> QED BY <1>6, <1>7

\* When nothing plain is under way the line is what is shown.
LEMMA EchoesDone ==
    ASSUME NEW line, NEW keys \in Seq(Char), NEW s, Echoes(line, keys, s), NonePlain(keys, 1)
    PROVE  s = line
<1>1. Len(keys) \in Nat /\ 1 \in 1 .. Len(keys) + 1
  BY LenProperties
<1> QED BY <1>1, Zenon DEF Echoes

\* One key more.
LEMMA EchoesMore ==
    ASSUME NEW line, NEW keys \in Seq(Char), NEW s \in Seq(Plain), NEW key \in Char,
           Echoes(line, keys, s), InOrder(keys),
           key \in Plain => \A i \in 1 .. Len(keys) : keys[i] \notin {Backspace, Enter}
    PROVE  Echoes(line, Append(keys, key), Grown(s, key)) /\ InOrder(Append(keys, key))
<1> DEFINE n == Len(keys)
           more == Append(keys, key)
           t == Grown(s, key)
<1>1. n \in Nat /\ Len(more) = n + 1 /\ more[n + 1] = key /\ \A k \in 1 .. n : more[k] = keys[k]
  BY AppendProperties, LenProperties
<1>2. PICK path \in [1 .. n + 1 -> Seq(Plain)] :
        /\ path[1] = line
        /\ \A k \in 1 .. n : path[k + 1] = Grown(path[k], keys[k])
        /\ \A k \in 1 .. n + 1 : NonePlain(keys, k) => path[k] = s
  BY DEF Echoes
<1>3. t \in Seq(Plain)
  BY DEF Grown
<1>4. path[n + 1] = s
  <2>1. NonePlain(keys, n + 1)
    BY <1>1 DEF NonePlain
  <2> QED BY <1>1, <1>2, <2>1
<1> DEFINE longer == [k \in 1 .. n + 2 |-> IF k = n + 2 THEN t ELSE path[k]]
<1> HIDE DEF n, more, t
<1>5. /\ longer \in [1 .. (n + 1) + 1 -> Seq(Plain)] /\ longer[n + 2] = t
      /\ \A k \in 1 .. n + 1 : longer[k] = path[k]
  BY <1>1, <1>2, <1>3
<1> HIDE DEF longer
<1>6. longer[1] = line
  BY <1>1, <1>2, <1>5
<1>7. ASSUME NEW k \in 1 .. n + 1 PROVE longer[k + 1] = Grown(longer[k], more[k])
  <2>1. CASE k \in 1 .. n
    <3>1. k \in 1 .. n + 1 /\ k + 1 \in 1 .. n + 1
      BY <1>1, <2>1
    <3> QED BY <1>1, <1>2, <1>5, <2>1, <3>1
  <2>2. CASE k = n + 1
    <3>1. longer[n + 1] = s /\ longer[n + 2] = t /\ more[n + 1] = key /\ k + 1 = n + 2
      BY <1>1, <1>4, <1>5, <2>2
    <3> QED BY <2>2, <3>1 DEF t
  <2> QED BY <1>1, <2>1, <2>2
<1>8. ASSUME NEW k \in 1 .. (n + 1) + 1, NonePlain(more, k) PROVE longer[k] = t
  <2>1. CASE k = n + 2
    BY <1>5, <2>1
  <2>2. CASE k \in 1 .. n + 1
    <3>1. n + 1 \in k .. n + 1
      BY <1>1, <2>2
    <3>2. key \notin Plain
      BY <1>1, <1>8, <3>1 DEF NonePlain
    <3>3. NonePlain(keys, k)
      <4> SUFFICES ASSUME NEW j \in k .. n PROVE keys[j] \notin Plain
        BY DEF NonePlain, n
      <4>1. j \in k .. n + 1 /\ j \in 1 .. n
        BY <1>1, <2>2
      <4> QED BY <1>1, <1>8, <4>1 DEF NonePlain
    <3>4. longer[k] = s
      BY <1>2, <1>5, <2>2, <3>3
    <3> QED BY <3>2, <3>4 DEF t, Grown
  <2> QED BY <1>1, <2>1, <2>2
<1>9. Echoes(line, more, t)
  BY <1>1, <1>5, <1>6, <1>7, <1>8, ZenonT(40) DEF Echoes
<1>10. InOrder(more)
  <2> SUFFICES ASSUME NEW i \in 1 .. n + 1, NEW j \in 1 .. n + 1, i < j,
                      more[i] \in {Backspace, Enter}
               PROVE  more[j] \notin Plain
    BY <1>1 DEF InOrder
  <2>1. i \in 1 .. n
    BY <1>1
  <2>2. CASE j \in 1 .. n
    BY <1>1, <2>1, <2>2 DEF InOrder, n
  <2>3. CASE j = n + 1
    BY <1>1, <2>1, <2>3 DEF n
  <2> QED BY <1>1, <2>2, <2>3
<1> QED BY <1>9, <1>10 DEF more, t

\* The first key is done.
LEMMA EchoesRest ==
    ASSUME NEW line \in Seq(Plain), NEW keys \in Seq(Char), NEW s, NEW key \in Char,
           Echoes(line, <<key>> \o keys, s), InOrder(<<key>> \o keys)
    PROVE  /\ Echoes(Grown(line, key), keys, s) /\ InOrder(keys)
           /\ key \in {Backspace, Enter} => NonePlain(keys, 1)
           /\ key \notin Plain /\ NonePlain(keys, 1) => s = line
<1> DEFINE n == Len(keys)
           all == <<key>> \o keys
<1>1. n \in Nat /\ Len(all) = n + 1 /\ all[1] = key /\ \A k \in 1 .. n : all[k + 1] = keys[k]
  <2>1. <<key>> \in Seq(Char) /\ Len(<<key>>) = 1 /\ <<key>>[1] = key /\ n \in Nat
    BY LenProperties
  <2>2. /\ Len(all) = 1 + n
        /\ \A i \in 1 .. 1 + n : all[i] = IF i <= 1 THEN <<key>>[i] ELSE keys[i - 1]
    BY <2>1, ConcatProperties
  <2> QED BY <2>1, <2>2
<1> HIDE DEF all
<1>2. PICK path \in [1 .. (n + 1) + 1 -> Seq(Plain)] :
        /\ path[1] = line
        /\ \A k \in 1 .. n + 1 : path[k + 1] = Grown(path[k], all[k])
        /\ \A k \in 1 .. (n + 1) + 1 : NonePlain(all, k) => path[k] = s
  BY <1>1 DEF Echoes, all
<1> HIDE DEF n
<1> DEFINE rest == [k \in 1 .. n + 1 |-> path[k + 1]]
<1>3. rest \in [1 .. n + 1 -> Seq(Plain)] /\ \A k \in 1 .. n + 1 : rest[k] = path[k + 1]
  BY <1>1, <1>2
<1> HIDE DEF rest
<1>4. rest[1] = Grown(line, key)
  <2>1. 1 \in 1 .. n + 1
    BY <1>1
  <2> QED BY <1>1, <1>2, <1>3, <2>1
<1>5. ASSUME NEW k \in 1 .. n PROVE rest[k + 1] = Grown(rest[k], keys[k])
  <2>1. k \in 1 .. n + 1 /\ k + 1 \in 1 .. n + 1
    BY <1>1
  <2> QED BY <1>1, <1>2, <1>3, <2>1
<1>6. ASSUME NEW k \in 1 .. n + 1, NonePlain(keys, k) PROVE NonePlain(all, k + 1)
  <2> SUFFICES ASSUME NEW j \in k + 1 .. n + 1 PROVE all[j] \notin Plain
    BY <1>1 DEF NonePlain
  <2>1. j - 1 \in k .. n /\ j - 1 \in 1 .. n /\ (j - 1) + 1 = j
    BY <1>1
  <2> QED BY <1>1, <1>6, <2>1 DEF NonePlain, n
<1>7. ASSUME NEW k \in 1 .. n + 1, NonePlain(keys, k) PROVE rest[k] = s
  <2>1. k + 1 \in 1 .. (n + 1) + 1
    BY <1>1
  <2> QED BY <1>2, <1>3, <1>6, <1>7, <2>1
<1>8. Echoes(Grown(line, key), keys, s)
  BY <1>3, <1>4, <1>5, <1>7, Zenon DEF Echoes, n
<1>9. InOrder(keys)
  <2> SUFFICES ASSUME NEW i \in 1 .. n, NEW j \in 1 .. n, i < j, keys[i] \in {Backspace, Enter}
               PROVE  keys[j] \notin Plain
    BY DEF InOrder, n
  <2>1. i + 1 \in 1 .. n + 1 /\ j + 1 \in 1 .. n + 1 /\ i + 1 < j + 1
    BY <1>1
  <2> QED BY <1>1, <2>1 DEF InOrder, all
<1>10. ASSUME key \in {Backspace, Enter} PROVE NonePlain(keys, 1)
  <2> SUFFICES ASSUME NEW j \in 1 .. n PROVE keys[j] \notin Plain
    BY DEF NonePlain, n
  <2>1. 1 \in 1 .. n + 1 /\ j + 1 \in 1 .. n + 1 /\ 1 < j + 1
    BY <1>1
  <2> QED BY <1>1, <1>10, <2>1 DEF InOrder, all
<1>11. ASSUME key \notin Plain, NonePlain(keys, 1) PROVE s = line
  <2>1. rest[1] = s /\ rest[1] = line
    <3>1. 1 \in 1 .. n + 1
      BY <1>1
    <3> QED BY <1>4, <1>7, <1>11, <3>1 DEF Grown
  <2> QED BY <2>1
<1> QED BY <1>8, <1>9, <1>10, <1>11

--------------------------------------------------------------------------------
LEMMA InitLInv == LineInit => LInv
<1> SUFFICES ASSUME LineInit PROVE LInv
  OBVIOUS
<1>1. RingInit /\ g_Line = <<>> /\ shown = <<>> /\ doing = "wait" /\ astray = FALSE
  BY DEF LineInit
<1>2. RingIInv
  BY <1>1, InitRingIInv
<1>3. Waiting \in Seq(Char) /\ Len(Waiting) = 0
  BY <1>1, <1>2, WaitingIs DEF RingInit
<1>4. <<>> \in Seq(Plain) /\ Len(<<>>) = 0 /\ 0 < LINE_MAX
  BY ShellLineAssumption
<1>5. NonePlain(Waiting, 1)
  BY <1>3 DEF NonePlain
<1>6. Echoes(g_Line, UnderWay, shown) /\ InOrder(UnderWay)
  <2>1. UnderWay = Waiting
    BY <1>1 DEF UnderWay
  <2> QED BY <1>1, <1>3, <1>4, <1>5, <2>1, EchoesNone
<1> QED BY <1>1, <1>4, <1>6 DEF LInv

\* A key in the handler.
LEMMA StepType ==
    ASSUME RingIInv, RingIInv', LInv, NEW ch \in Char, Type(ch)
    PROVE  LInv'
<1>1. /\ Keyboard_PutChar(ch) /\ g_Line' = g_Line /\ doing' = doing
      /\ astray' = (\/ astray
                    \/ ch \in Plain /\ (ChangeWaits \/ Full)
                    \/ ch = Enter /\ Full)
      /\ shown' = IF astray' THEN <<>> ELSE IF ch \in Plain THEN Append(shown, ch) ELSE shown
  BY Zenon DEF Type, Shows
<1>2. got' = got
  BY <1>1 DEF Keyboard_PutChar, readerVars
<1>3. /\ Waiting \in Seq(Char) /\ Len(Waiting) = Count /\ Count \in 0 .. KEY_BUFFER_SIZE - 1
      /\ Waiting' = IF Len(Waiting) < KEY_BUFFER_SIZE - 1 THEN Append(Waiting, ch) ELSE Waiting
  BY <1>1, WaitingIs, PutAppends
<1>4. /\ g_Line \in Seq(Plain) /\ shown \in Seq(Plain) /\ Len(g_Line) < LINE_MAX
      /\ doing \in {"wait", "key", "dispatch"} /\ astray \in BOOLEAN
      /\ doing = "key" => got \in Char
  BY DEF LInv
<1>5. astray' \in BOOLEAN
  BY <1>1, <1>4, Zenon
<1>6. shown' \in Seq(Plain)
  <2>1. CASE astray'
    <3>1. shown' = <<>>
      BY <1>1, <2>1, Zenon
    <3> QED BY <3>1
  <2>2. CASE ~astray'
    <3>1. shown' = IF ch \in Plain THEN Append(shown, ch) ELSE shown
      BY <1>1, <2>2, Zenon
    <3> QED BY <1>4, <3>1
  <2> QED BY <2>1, <2>2
<1>7. Len(Waiting) < KEY_BUFFER_SIZE - 1 <=> ~Full
  <2>1. /\ KEY_BUFFER_SIZE \in Nat /\ KEY_BUFFER_SIZE >= 2
        /\ g_KeyHead \in Index /\ g_KeyTail \in Index
        /\ Succ(g_KeyTail) = IF g_KeyTail = KEY_BUFFER_SIZE - 1 THEN 0 ELSE g_KeyTail + 1
    BY KeyRingAssumption, SuccNext DEF RingIInv, TypeOK
  <2> QED BY <1>3, <2>1 DEF Full, Count, Index
<1>8. ASSUME ~astray', doing # "dispatch"
      PROVE  Echoes(g_Line, UnderWay', shown') /\ InOrder(UnderWay')
  <2>1. /\ ~astray /\ (ch \in Plain => ~ChangeWaits /\ ~Full) /\ (ch = Enter => ~Full)
        /\ shown' = Grown(shown, ch)
    BY <1>1, <1>8, Zenon DEF Grown
  <2>2. Echoes(g_Line, UnderWay, shown) /\ InOrder(UnderWay)
    BY <1>8, <2>1 DEF LInv
  <2>3. UnderWay \in Seq(Char)
    BY <1>3, <1>4 DEF UnderWay
  <2>4. CASE ~Full
    <3>1. Waiting' = Append(Waiting, ch)
      BY <1>3, <1>7, <2>4
    <3>2. UnderWay' = Append(UnderWay, ch)
      <4>1. CASE doing # "key"
        BY <1>1, <3>1, <4>1 DEF UnderWay
      <4>2. CASE doing = "key"
        <5> DEFINE q == Waiting
                   r == <<got>>
        <5>1. q \in Seq(Char) /\ r \in Seq(Char)
          BY <1>3, <1>4, <4>2
        <5>2. UnderWay = r \o q /\ UnderWay' = r \o Append(q, ch)
          BY <1>1, <1>2, <3>1, <4>2 DEF UnderWay
        <5> HIDE DEF q, r
        <5>3. <<ch>> \in Seq(Char) /\ r \o q \in Seq(Char)
          BY <5>1
        <5>4. Append(q, ch) = q \o <<ch>> /\ Append(r \o q, ch) = (r \o q) \o <<ch>>
          BY <5>1, <5>3, AppendIsConcat
        <5>5. r \o (q \o <<ch>>) = (r \o q) \o <<ch>>
          BY <5>1, <5>3, ConcatAssociative
        <5> QED BY <5>2, <5>4, <5>5
      <4> QED BY <4>1, <4>2
    <3>3. ASSUME ch \in Plain
          PROVE  \A i \in 1 .. Len(UnderWay) : UnderWay[i] \notin {Backspace, Enter}
      <4>1. /\ \A i \in DOMAIN Waiting : Waiting[i] \notin {Backspace, Enter}
            /\ doing = "key" => got \notin {Backspace, Enter}
        BY <2>1, <3>3, Zenon DEF ChangeWaits
      <4>2. CASE doing # "key"
        BY <1>3, <4>1, <4>2 DEF UnderWay
      <4>3. CASE doing = "key"
        <5> DEFINE q == Waiting
                   r == <<got>>
        <5>1. q \in Seq(Char) /\ r \in Seq(Char) /\ UnderWay = r \o q /\ Len(r) = 1 /\ r[1] = got
          BY <1>3, <1>4, <4>3 DEF UnderWay
        <5> HIDE DEF q, r
        <5>2. Len(q) \in Nat /\ Len(r \o q) = Len(r) + Len(q)
          BY <5>1, ConcatProperties, LenProperties
        <5>3. \A i \in 1 .. Len(r) + Len(q) :
                  (r \o q)[i] = IF i <= Len(r) THEN r[i] ELSE q[i - Len(r)]
          BY <5>1, ConcatProperties
        <5>4. ASSUME NEW i \in 1 .. Len(UnderWay) PROVE UnderWay[i] \notin {Backspace, Enter}
          <6>1. CASE i = 1
            BY <4>1, <4>3, <5>1, <5>2, <5>3, <6>1
          <6>2. CASE i # 1
            <7>1. i - 1 \in 1 .. Len(q) /\ UnderWay[i] = q[i - 1]
              BY <5>1, <5>2, <5>3, <6>2
            <7>2. i - 1 \in DOMAIN Waiting
              BY <1>3, <7>1 DEF q
            <7> QED BY <4>1, <7>1, <7>2 DEF q
          <6> QED BY <6>1, <6>2
        <5> QED BY <5>4
      <4> QED BY <4>2, <4>3
    <3> QED BY <1>4, <2>1, <2>2, <2>3, <3>2, <3>3, EchoesMore
  <2>5. CASE Full
    <3>1. Waiting' = Waiting
      BY <1>3, <1>7, <2>5
    <3>2. UnderWay' = UnderWay
      BY <1>1, <1>2, <3>1 DEF UnderWay
    <3>3. shown' = shown
      BY <2>1, <2>5 DEF Grown
    <3> QED BY <2>2, <3>2, <3>3
  <2> QED BY <2>4, <2>5
<1> QED BY <1>1, <1>2, <1>4, <1>5, <1>6, <1>8 DEF LInv

\* The wait: a key leaves the ring for the shell's hands.
LEMMA StepWait ==
    ASSUME RingIInv, RingIInv', LInv, Wait
    PROVE  LInv'
<1>1. /\ doing = "wait" /\ Reader /\ g_Line' = g_Line /\ shown' = shown /\ astray' = astray
      /\ doing' = IF at \in {"test", "move"} /\ at' = "away" THEN "key" ELSE "wait"
  BY DEF Wait, screenVars
<1>2. CASE GetCharMove
  <2>1. Waiting # <<>> /\ got' = Head(Waiting) /\ Waiting' = Tail(Waiting) /\ Waiting \in Seq(Char)
    BY <1>2, MoveTakes, WaitingIs
  <2>2. doing' = "key"
    BY <1>1, <1>2 DEF GetCharMove
  <2>3. got' \in Char /\ Waiting = <<got'>> \o Waiting'
    BY <2>1
  <2>4. UnderWay' = UnderWay
    BY <1>1, <2>2, <2>3 DEF UnderWay
  <2> QED BY <1>1, <2>2, <2>3, <2>4 DEF LInv
<1>3. CASE HasCharHead \/ HasCharTail \/ GetCharHead \/ GetCharTest \/ GetCharRead
  <2>1. UNCHANGED ringVars
    BY <1>3, Zenon DEF HasCharHead, HasCharTail, GetCharHead, GetCharTest, GetCharRead
  <2>2. ~(at \in {"test", "move"} /\ at' = "away")
    <3>1. at = "test" => head_read # g_KeyTail
      BY DEF RingIInv, ReaderAgrees, Told
    <3> QED BY <1>3, <3>1 DEF HasCharHead, HasCharTail, GetCharHead, GetCharTest, GetCharRead
  <2>3. doing' = "wait" /\ Waiting' = Waiting
    <3>1. doing' = "wait"
      BY <1>1, <2>2, Zenon
    <3> QED BY <2>1, <3>1 DEF ringVars, Waiting, Count, Slot
  <2>4. UnderWay' = UnderWay
    BY <1>1, <2>3 DEF UnderWay
  <2> QED BY <1>1, <2>3, <2>4 DEF LInv
<1> QED BY <1>1, <1>2, <1>3 DEF Reader

\* The keys that the shell handles, and the new prompt.
LEMMA StepKeys ==
    ASSUME RingIInv, LInv, PageKey \/ EnterKey \/ Prompt \/ BackspaceKey \/ PlainKey
    PROVE  LInv'
<1>1. UNCHANGED keyVars
  BY Zenon DEF PageKey, EnterKey, Prompt, BackspaceKey, PlainKey
<1>2. Waiting' = Waiting /\ got' = got
  BY <1>1 DEF keyVars, ringVars, readerVars, Waiting, Count, Slot
<1>3. /\ g_Line \in Seq(Plain) /\ shown \in Seq(Plain) /\ Len(g_Line) < LINE_MAX
      /\ astray \in BOOLEAN /\ (doing = "key" => got \in Char)
      /\ ~astray /\ doing # "dispatch" => Echoes(g_Line, UnderWay, shown) /\ InOrder(UnderWay)
  BY DEF LInv
<1>4. Waiting \in Seq(Char) /\ LINE_MAX \in Nat /\ LINE_MAX > 0
  BY WaitingIs, ShellLineAssumption
<1>5. /\ doing = "key" /\ ~astray =>
            /\ Echoes(Grown(g_Line, got), Waiting, shown) /\ InOrder(Waiting)
            /\ got \in {Backspace, Enter} => NonePlain(Waiting, 1)
            /\ got \notin Plain /\ NonePlain(Waiting, 1) => shown = g_Line
  <2> SUFFICES ASSUME doing = "key", ~astray
               PROVE  /\ Echoes(Grown(g_Line, got), Waiting, shown) /\ InOrder(Waiting)
                      /\ got \in {Backspace, Enter} => NonePlain(Waiting, 1)
                      /\ got \notin Plain /\ NonePlain(Waiting, 1) => shown = g_Line
    OBVIOUS
  <2>1. UnderWay = <<got>> \o Waiting
    BY DEF UnderWay
  <2> QED BY <1>3, <1>4, <2>1, EchoesRest
<1>6. doing' = "wait" => UnderWay' = Waiting
  BY <1>2 DEF UnderWay
<1>7. CASE PageKey
  <2>1. /\ doing = "key" /\ got = Page /\ doing' = "wait"
        /\ g_Line' = g_Line /\ shown' = shown /\ astray' = astray
    BY <1>7 DEF PageKey, screenVars
  <2>2. Grown(g_Line, got) = g_Line
    BY <2>1 DEF Grown, Plain
  <2> QED BY <1>3, <1>5, <1>6, <2>1, <2>2 DEF LInv
<1>8. CASE EnterKey
  <2>1. doing' = "dispatch" /\ g_Line' = g_Line /\ shown' = shown /\ astray' = astray
    BY <1>8 DEF EnterKey
  <2> QED BY <1>3, <2>1 DEF LInv
<1>9. CASE Prompt
  <2>1. /\ doing' = "wait" /\ g_Line' = <<>>
        /\ astray' = \E i \in DOMAIN Waiting : Waiting[i] \in Plain
        /\ shown' = <<>>
    BY <1>9, Zenon DEF Prompt, Shows
  <2>2. astray' \in BOOLEAN /\ <<>> \in Seq(Plain) /\ Len(<<>>) < LINE_MAX
    <3>1. astray' \in BOOLEAN
      BY <2>1, Zenon
    <3> QED BY <1>4, <3>1
  <2>3. ASSUME ~astray' PROVE Echoes(<<>>, Waiting, <<>>) /\ InOrder(Waiting)
    <3>1. \A i \in DOMAIN Waiting : Waiting[i] \notin Plain
      BY <2>1, <2>3, Zenon
    <3>2. NonePlain(Waiting, 1)
      BY <1>4, <3>1 DEF NonePlain
    <3> QED BY <1>4, <2>2, <3>2, EchoesNone
  <2> QED BY <1>6, <2>1, <2>2, <2>3 DEF LInv
<1>10. CASE BackspaceKey
  <2>1. /\ doing = "key" /\ got = Backspace /\ doing' = "wait" /\ astray' \in BOOLEAN
        /\ ~astray' => ~astray
        /\ IF g_Line = <<>>
           THEN g_Line' = g_Line /\ shown' = shown
           ELSE /\ g_Line' = Front(g_Line)
                /\ shown' = IF astray' THEN <<>> ELSE IF shown = <<>> THEN shown ELSE Front(shown)
    <3>1. CASE g_Line = <<>>
      BY <1>3, <1>10, <3>1, Zenon DEF BackspaceKey, screenVars
    <3>2. CASE g_Line # <<>>
      <4>1. astray' = (astray \/ g_ScreenX = 0)
        BY <1>10, <3>2, Zenon DEF BackspaceKey
      <4>2. astray' \in BOOLEAN /\ (~astray' => ~astray)
        BY <1>3, <4>1, Zenon
      <4> QED BY <1>10, <3>2, <4>2, Zenon DEF BackspaceKey, Shows
    <3> QED BY <3>1, <3>2
  <2>2. ASSUME NEW line \in Seq(Plain), line # <<>>
        PROVE  Front(line) \in Seq(Plain) /\ Len(Front(line)) < Len(line)
    <3>1. Len(line) \in Nat /\ Len(line) # 0 /\ \A i \in 1 .. Len(line) : line[i] \in Plain
      BY <2>2
    <3>2. Front(line) = [i \in 1 .. Len(line) - 1 |-> line[i]]
      BY <3>1 DEF Front
    <3> QED BY <3>1, <3>2
  <2>3. g_Line' \in Seq(Plain) /\ shown' \in Seq(Plain) /\ Len(g_Line') < LINE_MAX
    <3>1. CASE g_Line = <<>>
      BY <1>3, <2>1, <3>1
    <3>2. CASE g_Line # <<>>
      <4>1. Front(g_Line) \in Seq(Plain) /\ Len(Front(g_Line)) < Len(g_Line)
        BY <1>3, <2>2, <3>2
      <4>2. shown' \in Seq(Plain)
        <5>1. shown # <<>> => Front(shown) \in Seq(Plain)
          BY <1>3, <2>2
        <5>2. <<>> \in Seq(Plain)
          OBVIOUS
        <5> QED BY <1>3, <2>1, <3>2, <5>1, <5>2, Zenon
      <4>3. Len(Front(g_Line)) \in Nat /\ Len(g_Line) \in Nat
        BY <1>3, <4>1
      <4> QED BY <1>3, <1>4, <2>1, <3>2, <4>1, <4>2, <4>3
    <3> QED BY <3>1, <3>2
  <2>4. ASSUME ~astray' PROVE Echoes(g_Line', Waiting, shown') /\ InOrder(Waiting)
    <3>1. NonePlain(Waiting, 1) /\ shown = g_Line
      BY <1>5, <2>1, <2>4 DEF Plain
    <3>2. shown' = g_Line'
      BY <2>1, <2>4, <3>1
    <3> QED BY <1>4, <2>3, <3>1, <3>2, EchoesNone
  <2> QED BY <1>6, <2>1, <2>3, <2>4 DEF LInv
<1>11. CASE PlainKey
  <2> DEFINE room == Len(g_Line) < LINE_MAX - 1
  <2>1. /\ doing = "key" /\ got \notin {Backspace, Enter, Page} /\ doing' = "wait"
        /\ g_Line' = IF room THEN Append(g_Line, got) ELSE g_Line
        /\ astray' = (astray \/ ~room)
        /\ shown' = IF astray' THEN <<>> ELSE shown
    BY <1>11, Zenon DEF PlainKey, Shows
  <2>2. got \in Plain
    BY <1>3, <2>1 DEF Plain
  <2>3. astray' \in BOOLEAN /\ (~astray' => ~astray /\ room)
    BY <1>3, <2>1, Zenon
  <2>4. g_Line' \in Seq(Plain) /\ Len(g_Line') < LINE_MAX
    <3>1. Len(g_Line) \in Nat
      BY <1>3
    <3>2. Append(g_Line, got) \in Seq(Plain) /\ Len(Append(g_Line, got)) = Len(g_Line) + 1
      BY <1>3, <2>2
    <3> QED BY <1>3, <1>4, <2>1, <3>1, <3>2
  <2> HIDE DEF room
  <2>5. shown' \in Seq(Plain)
    BY <1>3, <2>1
  <2>6. ASSUME ~astray' PROVE Echoes(g_Line', Waiting, shown') /\ InOrder(Waiting)
    <3>1. g_Line' = Grown(g_Line, got) /\ shown' = shown
      BY <2>1, <2>2, <2>3, <2>6, Zenon DEF Grown
    <3> QED BY <1>5, <2>1, <2>3, <2>6, <3>1
  <2> QED BY <1>6, <2>1, <2>3, <2>4, <2>5, <2>6 DEF LInv
<1> QED BY <1>7, <1>8, <1>9, <1>10, <1>11

LEMMA StepLine == RingIInv /\ LInv /\ [LineNext]_shellVars => RingIInv' /\ LInv'
<1> SUFFICES ASSUME RingIInv, LInv, [LineNext]_shellVars PROVE RingIInv' /\ LInv'
  OBVIOUS
<1>1. [RingNext]_keyVars
  <2>1. CASE \E ch \in Char : Type(ch)
    BY <2>1 DEF Type, RingNext
  <2>2. CASE Wait
    BY <2>2 DEF Wait, RingNext
  <2>3. CASE PageKey \/ EnterKey \/ Prompt \/ BackspaceKey \/ PlainKey
    <3>1. UNCHANGED keyVars
      BY <2>3 DEF PageKey, EnterKey, Prompt, BackspaceKey, PlainKey, keyVars, ringVars, readerVars
    <3> QED BY <3>1
  <2>4. CASE UNCHANGED shellVars
    BY <2>4 DEF shellVars
  <2> QED BY <2>1, <2>2, <2>3, <2>4 DEF LineNext, Shell_Run
<1>2. RingIInv'
  BY <1>1, StepRingIInv
<1>3. CASE UNCHANGED shellVars
  <2>1. UNCHANGED keyVars /\ UNCHANGED lineVars
    BY <1>3 DEF shellVars
  <2>2. Waiting' = Waiting /\ got' = got
    BY <2>1 DEF keyVars, ringVars, readerVars, Waiting, Count, Slot
  <2>3. UnderWay' = UnderWay
    BY <2>1, <2>2 DEF UnderWay, lineVars
  <2> QED BY <1>2, <2>1, <2>2, <2>3 DEF LInv, lineVars, screenVars
<1>4. CASE LineNext
  <2>1. CASE \E ch \in Char : Type(ch)
    BY <1>2, <2>1, StepType
  <2>2. CASE Wait
    BY <1>2, <2>2, StepWait
  <2>3. CASE PageKey \/ EnterKey \/ Prompt \/ BackspaceKey \/ PlainKey
    BY <1>2, <2>3, StepKeys
  <2> QED BY <1>2, <1>4, <2>1, <2>2, <2>3 DEF LineNext, Shell_Run
<1> QED BY <1>2, <1>3, <1>4

\* Whenever the shell has caught up, what stands behind the prompt is the line
\* that Enter will run, for every size of the ring and of the line and every
\* interleaving of typing and reading, but for the exceptions that astray names;
\* and the line leaves room for its end (shell.c:1137-1179, keyboard.c:124-127).
THEOREM LineStaysShown == LineSpec => []LineShown
<1>1. RingIInv /\ LInv => LineShown
  <2> SUFFICES ASSUME RingIInv, LInv, doing = "wait", g_KeyHead = g_KeyTail, ~astray
               PROVE  shown = g_Line
    BY DEF LInv, LineShown
  <2>1. Waiting \in Seq(Char) /\ Len(Waiting) = 0 /\ UnderWay = Waiting
    BY WaitingIs DEF UnderWay
  <2>2. NonePlain(Waiting, 1)
    BY <2>1 DEF NonePlain
  <2> QED BY <2>1, <2>2, EchoesDone DEF LInv
<1>2. LineInit => RingIInv
  BY InitRingIInv DEF LineInit
<1> QED BY <1>1, <1>2, InitLInv, StepLine, PTL DEF LineSpec

--------------------------------------------------------------------------------
(* The way of an interrupt, and the keyboard's bytes.                         *)

Places == {"gates", "probe", "configure", "words", "register", "enable", "timer",
           "unmask timer", "main", "unmask main", "keyboard", "unmask keyboard",
           "idle", "wild", "panic"}

\* Interrupts are still disabled.
Disabled == {"gates", "probe", "configure", "words", "register", "enable"}

FrameType == [irq : Line \cup {16}, vector : Nat, flag : BOOLEAN, at : {"handler", "end", "iret"}]

PicType == [mask : SUBSET Line, base : Nat, requests : SUBSET {0, 1}, service : SUBSET Line,
            withdrawn : BOOLEAN]

Vectors == {PIC_REMAP_OFFSET + i : i \in Line}

\* The types of the state; at most one interrupt is being handled.
Shape ==
    /\ pc \in Places
    /\ IF_FLAG \in BOOLEAN /\ has_pic \in BOOLEAN /\ g_Driver \in BOOLEAN
    /\ g_IRQHandlers \in [Line -> {"NULL", "timer.c", "main.c", "keyboard.c"}]
    /\ g_PicMask \subseteq Line
    /\ pic \in PicType
    /\ frames = <<>> \/ (frames[1] \in FrameType /\ frames = <<frames[1]>>)
    /\ port.full \in BOOLEAN

\* How far the start has come.
StartSound ==
    /\ pc \in Disabled => ~IF_FLAG /\ frames = <<>>
    /\ pc \in {"configure", "words", "register", "enable"} => has_pic
    /\ pc \notin {"gates", "probe"} => g_Driver = has_pic
    /\ pc \in {"wild", "panic"} => ~has_pic
    /\ pc \in {"register", "enable"} \cup (Places \ Disabled) /\ has_pic =>
          /\ pic.base = PIC_REMAP_OFFSET
          /\ pic.mask = g_PicMask
          /\ 0 \notin g_PicMask => g_IRQHandlers[0] # "NULL"
          /\ 1 \notin g_PicMask => g_IRQHandlers[1] = "keyboard.c"
    /\ pc = "enable" \/ (pc \notin Disabled /\ has_pic) =>
          g_ISRHandlers = Vectors /\ absent \cap Vectors = {}
    /\ ~has_pic => ~IF_FLAG /\ g_ISRHandlers = {}

\* Handlers are registered before their lines are unmasked.
Registered ==
    /\ pc \in {"unmask timer", "unmask main"} => g_IRQHandlers[0] # "NULL"
    /\ pc = "unmask keyboard" => g_IRQHandlers[1] = "keyboard.c"
    /\ g_IRQHandlers[0] # "keyboard.c"
    /\ \A i \in Line : i > 1 => g_IRQHandlers[i] = "NULL"
    /\ unhandled \subseteq {7}

\* The interrupt that is being handled, and the line in service for it.
FrameSound ==
    /\ 1 \in pic.requests => port.full
    /\ frames = <<>> => pic.service = {}
    /\ frames # <<>> =>
          /\ ~IF_FLAG
          /\ pic.service = IF frames[1].irq < 7 /\ frames[1].at # "iret" THEN {frames[1].irq} ELSE {}
          /\ ~has_pic => frames[1].irq = 16 /\ ~frames[1].flag
          /\ has_pic => frames[1].irq \in {0, 1, 7} /\ frames[1].vector = PIC_REMAP_OFFSET + frames[1].irq
          /\ frames[1].irq = 0 => g_IRQHandlers[0] # "NULL"
          /\ frames[1].irq = 1 => g_IRQHandlers[1] = "keyboard.c"
          /\ frames[1].irq = 1 /\ frames[1].at = "handler" => port.full /\ 1 \notin pic.requests

IInv == Shape /\ StartSound /\ Registered /\ FrameSound

--------------------------------------------------------------------------------
LEMMA InitIInv == Init => IInv
<1> SUFFICES ASSUME Init PROVE IInv
  OBVIOUS
<1> USE DEF Init
<1>1. port.full = FALSE
  BY DEF KeyboardInit, Empty
<1>2. pic = [mask |-> Line, base |-> BIOS_BASE, requests |-> {}, service |-> {}, withdrawn |-> FALSE]
  BY Zenon
<1>3. Shape
  <2>1. pic \in PicType
    <3>1. BIOS_BASE \in Nat
      BY InterruptsAssumption
    <3> QED BY <1>2, <3>1 DEF PicType
  <2>2. g_IRQHandlers \in [Line -> {"NULL", "timer.c", "main.c", "keyboard.c"}]
    OBVIOUS
  <2> QED BY <1>1, <2>1, <2>2 DEF Shape, Places
<1>4. StartSound
  <2>1. pc = "gates" /\ pc \in Disabled
    BY DEF Disabled
  <2> QED BY <2>1 DEF StartSound, Disabled, Places
<1>5. Registered
  BY DEF Registered, Line
<1>6. FrameSound
  BY <1>2 DEF FrameSound
<1> QED BY <1>3, <1>4, <1>5, <1>6 DEF IInv

\* What a device changes leaves the rest of the invariant alone.
LEMMA StepDevice ==
    ASSUME IInv, TimerTurns \/ Press \/ ByteArrives
    PROVE  IInv'
<1> USE DEF IInv
<1>1. /\ UNCHANGED <<pc, IF_FLAG, has_pic, startVars, frames, unhandled>>
      /\ pic' \in PicType
      /\ pic'.mask = pic.mask /\ pic'.base = pic.base /\ pic'.service = pic.service
      /\ port'.full \in BOOLEAN
      /\ port.full => port'.full
      /\ 1 \in pic'.requests => 1 \in pic.requests \/ (port'.full /\ ~port.full)
  <2>1. pic \in PicType /\ port.full \in BOOLEAN
    BY DEF Shape
  <2>2. CASE TimerTurns
    <3>1. /\ port' = port
          /\ UNCHANGED <<pc, IF_FLAG, has_pic, startVars, frames, unhandled>>
      BY <2>2 DEF TimerTurns, keyboardVars, deviceVars
    <3>2. CASE Rises(0)
      BY <2>1, <3>1, <3>2 DEF Rises, PicType
    <3>3. CASE Falls(0)
      <4>1. PICK late \in BOOLEAN :
               pic' = [pic EXCEPT !.requests = @ \ {0}, !.withdrawn = @ \/ late]
        BY <3>3, Zenon DEF Falls
      <4>2. (pic.withdrawn \/ late) \in BOOLEAN
        BY <2>1, Zenon DEF PicType
      <4> QED BY <2>1, <3>1, <4>1, <4>2 DEF PicType
    <3> QED BY <2>2, <3>2, <3>3 DEF TimerTurns
  <2>3. CASE Press
    BY <2>1, <2>3 DEF Press, Stroke
  <2>4. CASE ByteArrives
    BY <2>1, <2>4 DEF ByteArrives, Rises, PicType
  <2> QED BY <2>2, <2>3, <2>4
<1>2. Shape'
  BY <1>1 DEF Shape, startVars
<1>3. StartSound' /\ Registered'
  BY <1>1 DEF StartSound, Registered, startVars
<1>4. FrameSound'
  BY <1>1 DEF FrameSound, startVars
<1> QED BY <1>2, <1>3, <1>4

\* A step of the start: none is in service, and the port stays as it is.
LEMMA StepStart ==
    ASSUME IInv, Start
    PROVE  IInv'
<1> USE DEF IInv
<1>1. /\ UNCHANGED <<has_pic, frames, unhandled, port>>
      /\ frames = <<>>
  <2>1. /\ \/ i686_ISR_Initialize \/ i8259_Probe \/ ConfigureResets \/ ConfigureEnds
           \/ i686_ISR_RegisterHandler \/ i686_EnableInterrupts
           \/ \E here, irq, there, handler :
                 i686_IRQ_RegisterHandler(here, irq, handler, there) \/ i686_IRQ_Unmask(here, irq, there)
        => UNCHANGED <<has_pic, frames, unhandled, port>> /\ frames = <<>>
    BY DEF i686_ISR_Initialize, i8259_Probe, ConfigureResets, ConfigureEnds,
           i686_ISR_RegisterHandler, i686_EnableInterrupts, i686_IRQ_RegisterHandler,
           i686_IRQ_Unmask, Step, Rest, keyboardVars, deviceVars
  <2> QED BY <2>1 DEF Start, i686_Timer_Initialize, start, i686_Keyboard_Initialize
<1>2. /\ pic \in PicType /\ PIC_REMAP_OFFSET \in Nat /\ pic.service = {}
      /\ g_PicMask \in SUBSET Line /\ {} \in SUBSET Line /\ Line \in SUBSET Line
      /\ {0, 1, 2, 4, 5} \in SUBSET Line
  BY <1>1, InterruptsAssumption DEF Shape, FrameSound, Line
<1>3. CASE i686_ISR_Initialize \/ i8259_Probe \/ ConfigureResets \/ ConfigureEnds
  <2> USE DEF i686_ISR_Initialize, i8259_Probe, ConfigureResets, ConfigureEnds, Step
  <2>1. /\ pic' \in PicType /\ pic'.service = {} /\ g_PicMask' \in SUBSET Line
        /\ pic'.requests \subseteq pic.requests
        /\ pc' \in {"probe", "configure", "words", "register", "timer"}
    <3>1. CASE i686_ISR_Initialize
      BY <1>2, <3>1
    <3>2. CASE i8259_Probe
      BY <1>2, <3>2 DEF PicType
    <3>3. CASE ConfigureResets
      BY <1>2, <3>3 DEF PicType
    <3>4. CASE ConfigureEnds
      BY <1>2, <3>4 DEF PicType
    <3> QED BY <1>3, <3>1, <3>2, <3>3, <3>4
  <2>2. UNCHANGED <<IF_FLAG, g_IRQHandlers, g_ISRHandlers>> /\ g_Driver' \in BOOLEAN
    BY <1>3 DEF Shape
  <2>3. Shape'
    BY <1>1, <2>1, <2>2 DEF Shape, Places
  <2>4. Registered' /\ FrameSound'
    BY <1>1, <2>1, <2>2 DEF Registered, FrameSound
  <2>5. pc \in Disabled /\ ~IF_FLAG
    BY <1>3 DEF StartSound, Disabled
  <2>6. CASE i686_ISR_Initialize
    BY <1>1, <2>2, <2>3, <2>4, <2>5, <2>6 DEF StartSound, Disabled, Places
  <2>7. CASE i8259_Probe
    BY <1>1, <2>2, <2>3, <2>4, <2>5, <2>7 DEF StartSound, Disabled, Places, Shape
  <2>8. CASE ConfigureResets
    BY <1>1, <2>2, <2>3, <2>4, <2>5, <2>8 DEF StartSound, Disabled, Places
  <2>9. CASE ConfigureEnds
    <3>1. pic'.base = PIC_REMAP_OFFSET /\ pic'.mask = g_PicMask' /\ g_PicMask' = Line
      BY <1>2, <2>9 DEF PicType
    <3>2. 0 \in Line /\ 1 \in Line
      BY DEF Line
    <3> QED BY <1>1, <2>2, <2>3, <2>4, <2>5, <2>9, <3>1, <3>2 DEF StartSound, Disabled, Places
  <2> QED BY <1>3, <2>3, <2>4, <2>6, <2>7, <2>8, <2>9
<1>4. CASE i686_ISR_RegisterHandler \/ i686_EnableInterrupts
  <2> USE DEF i686_ISR_RegisterHandler, i686_EnableInterrupts, Step, startVars
  <2>1. Shape'
    BY <1>1, <1>2, <1>4 DEF Shape, Places
  <2>2. CASE i686_ISR_RegisterHandler
    <3>1. g_ISRHandlers' = Vectors /\ absent' \cap Vectors = {}
      BY <2>2 DEF Vectors
    <3> QED BY <1>1, <1>2, <2>1, <2>2, <3>1 DEF StartSound, Registered, FrameSound, Disabled, Places
  <2>3. CASE i686_EnableInterrupts
    BY <1>1, <1>2, <2>1, <2>3 DEF StartSound, Registered, FrameSound, Disabled, Places
  <2> QED BY <1>4, <2>2, <2>3
<1>5. CASE /\ UNCHANGED <<IF_FLAG, g_Driver, absent, g_ISRHandlers, g_PicMask, pic>>
           /\ \/ /\ pc \in {"timer", "main"} /\ pc' \in {"unmask timer", "unmask main"}
                 /\ \E handler \in {"timer.c", "main.c"} :
                       g_IRQHandlers' = [g_IRQHandlers EXCEPT ![0] = handler]
              \/ /\ pc = "keyboard" /\ pc' = "unmask keyboard"
                 /\ g_IRQHandlers' = [g_IRQHandlers EXCEPT ![1] = "keyboard.c"]
  <2>1. /\ g_IRQHandlers \in [Line -> {"NULL", "timer.c", "main.c", "keyboard.c"}]
        /\ 0 \in Line /\ 1 \in Line /\ \A i \in Line : i > 1 => i # 0 /\ i # 1
        /\ g_IRQHandlers[0] # "keyboard.c"
    <3>1. 0 \in Line /\ 1 \in Line /\ \A i \in Line : i > 1 => i # 0 /\ i # 1
      BY DEF Line
    <3> QED BY <3>1, Zenon DEF Shape, Registered
  <2>2. /\ g_IRQHandlers' \in [Line -> {"NULL", "timer.c", "main.c", "keyboard.c"}]
        /\ g_IRQHandlers[0] # "NULL" => g_IRQHandlers'[0] # "NULL"
        /\ g_IRQHandlers[1] = "keyboard.c" => g_IRQHandlers'[1] = "keyboard.c"
        /\ pc' \in {"unmask timer", "unmask main"} => g_IRQHandlers'[0] # "NULL"
        /\ pc' = "unmask keyboard" => g_IRQHandlers'[1] = "keyboard.c"
        /\ g_IRQHandlers'[0] # "keyboard.c"
        /\ \A i \in Line : i > 1 => g_IRQHandlers'[i] = g_IRQHandlers[i]
    <3>1. CASE /\ pc' \in {"unmask timer", "unmask main"}
               /\ \E handler \in {"timer.c", "main.c"} :
                       g_IRQHandlers' = [g_IRQHandlers EXCEPT ![0] = handler]
      BY <2>1, <3>1
    <3>2. CASE /\ pc' = "unmask keyboard"
               /\ g_IRQHandlers' = [g_IRQHandlers EXCEPT ![1] = "keyboard.c"]
      <4>1. /\ g_IRQHandlers'[1] = "keyboard.c"
            /\ \A i \in Line : i # 1 => g_IRQHandlers'[i] = g_IRQHandlers[i]
        BY <2>1, <3>2
      <4>2. g_IRQHandlers' \in [Line -> {"NULL", "timer.c", "main.c", "keyboard.c"}]
        BY <2>1, <3>2
      <4>3. g_IRQHandlers'[0] = g_IRQHandlers[0]
        BY <2>1, <4>1
      <4>4. \A i \in Line : i > 1 => g_IRQHandlers'[i] = g_IRQHandlers[i]
        BY <2>1, <4>1
      <4>5. pc' \notin {"unmask timer", "unmask main"}
        BY <3>2
      <4> QED BY <2>1, <4>1, <4>2, <4>3, <4>4, <4>5, Zenon
    <3> QED BY <1>5, <3>1, <3>2
  <2>3. Shape'
    BY <1>1, <1>5, <2>2 DEF Shape, Places
  <2>4. StartSound'
    BY <1>1, <1>5, <2>2 DEF StartSound, Disabled, Places
  <2>5. Registered' /\ FrameSound'
    BY <1>1, <1>5, <2>2 DEF Registered, FrameSound
  <2> QED BY <2>3, <2>4, <2>5
<1>6. CASE /\ UNCHANGED <<IF_FLAG, g_Driver, absent, g_ISRHandlers, g_IRQHandlers>>
           /\ \/ pc \in {"unmask timer", "unmask main"} /\ g_PicMask' \in {g_PicMask, g_PicMask \ {0}}
              \/ pc = "unmask keyboard" /\ g_PicMask' \in {g_PicMask, g_PicMask \ {1}}
           /\ (pc' = "wild" /\ ~g_Driver) \/ pc' \in {"main", "keyboard", "idle"}
           /\ pic' = IF g_Driver THEN [pic EXCEPT !.mask = g_PicMask'] ELSE pic
  <2>1. g_PicMask' \in SUBSET Line
    BY <1>2, <1>6
  <2>2. /\ pic'.base = pic.base /\ pic'.service = pic.service /\ pic'.requests = pic.requests
        /\ pic'.mask = g_PicMask' \/ ~g_Driver
        /\ pic' \in PicType
    BY <1>2, <1>6, <2>1 DEF PicType
  <2>3. Shape'
    BY <1>1, <1>6, <2>1, <2>2 DEF Shape, Places
  <2>4. StartSound'
    <3>1. /\ 0 \notin g_PicMask' => 0 \notin g_PicMask \/ g_IRQHandlers[0] # "NULL"
          /\ 1 \notin g_PicMask' => 1 \notin g_PicMask \/ g_IRQHandlers[1] = "keyboard.c"
      <4>1. /\ pc \in {"unmask timer", "unmask main"} => g_IRQHandlers[0] # "NULL"
            /\ pc = "unmask keyboard" => g_IRQHandlers[1] = "keyboard.c"
        BY Zenon DEF Registered
      <4>2. CASE pc \in {"unmask timer", "unmask main"} /\ g_PicMask' \in {g_PicMask, g_PicMask \ {0}}
        <5>1. g_PicMask' = g_PicMask \/ g_PicMask' = g_PicMask \ {0}
          BY <4>2
        <5>2. 1 \notin g_PicMask' => 1 \notin g_PicMask
          BY <5>1
        <5> QED BY <4>1, <4>2, <5>2, Zenon
      <4>3. CASE pc = "unmask keyboard" /\ g_PicMask' \in {g_PicMask, g_PicMask \ {1}}
        BY <4>1, <4>3
      <4> QED BY <1>6, <4>2, <4>3, Zenon
    <3>2. /\ pc \in Places \ Disabled /\ pc \notin {"wild", "panic"}
          /\ pc' \in Places \ Disabled /\ pc' # "panic" /\ (pc' = "wild" => ~g_Driver)
          /\ g_Driver = has_pic
      BY <1>6 DEF Places, Disabled, StartSound
    <3> HIDE <1>6
    <3>3. UNCHANGED <<IF_FLAG, g_Driver, absent, g_ISRHandlers, g_IRQHandlers>>
      BY <1>6
    <3> QED BY <1>1, <2>2, <3>1, <3>2, <3>3 DEF StartSound, Disabled, Places
  <2>5. Registered' /\ FrameSound'
    BY <1>1, <1>6, <2>2 DEF Registered, FrameSound
  <2> QED BY <2>3, <2>4, <2>5
<1>7. CASE i686_Timer_Initialize
  BY <1>5, <1>6, <1>7 DEF i686_Timer_Initialize, i686_IRQ_RegisterHandler, i686_IRQ_Unmask, Step, Unmasked
<1>8. CASE start
  BY <1>5, <1>6, <1>8 DEF start, i686_IRQ_RegisterHandler, i686_IRQ_Unmask, Step, Unmasked
<1>9. CASE i686_Keyboard_Initialize
  BY <1>5, <1>6, <1>9 DEF i686_Keyboard_Initialize, i686_IRQ_RegisterHandler, i686_IRQ_Unmask, Step, Unmasked
<1> QED BY <1>3, <1>4, <1>7, <1>8, <1>9 DEF Start

\* One interrupt: how it begins, changes and ends.
LEMMA OneFrame ==
    ASSUME NEW f, NEW g
    PROVE  /\ <<f>> \o <<>> = <<f>> /\ <<f>>[1] = f /\ <<f>> # <<>>
           /\ Tail(<<f>>) = <<>> /\ Len(<<f>>) = 1
           /\ [<<f>> EXCEPT ![1] = g] = <<g>>
<1>1. <<f>> \in Seq({f}) /\ <<>> \in Seq({f})
  OBVIOUS
<1>2. <<f>> \o <<>> = <<f>> /\ <<f>>[1] = f /\ <<f>> # <<>>
  BY <1>1
<1>3. Tail(<<f>>) = <<>> /\ Len(<<f>>) = 1
  BY <1>1
<1>4. [<<f>> EXCEPT ![1] = g] = <<g>>
  OBVIOUS
<1> QED BY <1>2, <1>3, <1>4

\* An interrupt begins: its vector is one of the kernel's, its line is unmasked and
\* was not in service, and its gate disables the others.
LEMMA StepTaken ==
    ASSUME IInv, Taken \/ Spurious
    PROVE  IInv'
<1> USE DEF IInv
<1>1. /\ IF_FLAG /\ frames = <<>> /\ has_pic /\ pc \notin Disabled /\ pc \in Places
      /\ pic.service = {} /\ pic \in PicType /\ pic.base = PIC_REMAP_OFFSET
      /\ pic.mask = g_PicMask /\ absent \cap Vectors = {} /\ PIC_REMAP_OFFSET \in 0 .. 248
  BY InterruptsAssumption DEF Taken, Interrupt, Spurious, FrameSound, StartSound, Shape, Places, Disabled
<1>2. PICK irq \in {0, 1, 7} :
        /\ frames' = <<Frame(irq)>> \o frames
        /\ IF_FLAG' = (frames'[1].vector \notin InterruptGates)
        /\ UNCHANGED <<keyboardVars, pc, has_pic, startVars, timer, unhandled, stuck>>
        /\ \/ /\ irq \in {0, 1} /\ irq \in pic.requests \ pic.mask
              /\ pic' = [pic EXCEPT !.requests = @ \ {irq}, !.service = @ \cup {irq}, !.withdrawn = FALSE]
           \/ /\ irq = 7
              /\ pic' = [pic EXCEPT !.withdrawn = FALSE]
  <2>1. CASE Spurious
    BY <2>1 DEF Spurious
  <2>2. ASSUME NEW irq \in Line, Interrupt(irq)
        PROVE  irq \in {0, 1} /\ irq \in pic.requests \ pic.mask
    <3>1. irq \in Shown /\ pic.requests \in SUBSET {0, 1}
      BY <1>1, <2>2 DEF Interrupt, PicType
    <3> QED BY <3>1 DEF Shown
  <2>3. CASE Taken
    <3>1. PICK irq \in Line : Interrupt(irq)
      BY <2>3 DEF Taken
    <3>2. irq \in {0, 1} /\ irq \in pic.requests \ pic.mask
      BY <2>2, <3>1
    <3> QED BY <3>1, <3>2 DEF Interrupt
  <2> QED BY <2>1, <2>3
<1>3. Frame(irq) = [irq |-> irq, vector |-> PIC_REMAP_OFFSET + irq, flag |-> TRUE, at |-> "handler"]
      /\ PIC_REMAP_OFFSET + irq \in 0 .. 255
  <2>1. PIC_REMAP_OFFSET + irq \in Vectors
    BY DEF Vectors, Line
  <2>2. PIC_REMAP_OFFSET + irq \notin absent
    BY <1>1, <2>1
  <2>3. Frame(irq) = [irq |-> irq, vector |-> PIC_REMAP_OFFSET + irq, flag |-> IF_FLAG, at |-> "handler"]
    BY <1>1, <2>2 DEF Frame
  <2>4. IF_FLAG = TRUE
    BY <1>1, Zenon DEF Shape
  <2> QED BY <1>1, <2>3, <2>4
<1>4. frames' = <<Frame(irq)>> /\ frames'[1] = Frame(irq) /\ frames' # <<>>
  BY <1>1, <1>2, OneFrame
<1>5. IF_FLAG' = FALSE
  <2>1. frames'[1].vector \in InterruptGates
    BY <1>3, <1>4 DEF InterruptGates
  <2> QED BY <1>2, <2>1, Zenon
<1>6. /\ pic' \in PicType /\ pic'.mask = pic.mask /\ pic'.base = pic.base
      /\ pic'.requests = pic.requests \ {irq}
      /\ pic'.service = IF irq < 7 THEN {irq} ELSE {}
  <2>1. CASE irq \in {0, 1}
    <3>1. pic' = [pic EXCEPT !.requests = @ \ {irq}, !.service = @ \cup {irq}, !.withdrawn = FALSE]
      BY <1>2, <2>1
    <3>2. irq \in Line /\ irq < 7
      BY <2>1 DEF Line
    <3> QED BY <1>1, <3>1, <3>2, ZenonT(40) DEF PicType
  <2>2. CASE irq = 7
    <3>1. pic' = [pic EXCEPT !.withdrawn = FALSE]
      BY <1>2, <2>2
    <3>2. pic.requests \in SUBSET {0, 1}
      BY <1>1 DEF PicType
    <3>3. pic.requests \ {irq} = pic.requests
      BY <2>2, <3>2
    <3>4. /\ pic' \in PicType /\ pic'.mask = pic.mask /\ pic'.base = pic.base
          /\ pic'.requests = pic.requests /\ pic'.service = {}
      BY <1>1, <3>1 DEF PicType
    <3> QED BY <2>2, <3>3, <3>4
  <2> QED BY <2>1, <2>2
<1>7. Shape'
  <2>1. Frame(irq) \in FrameType
    BY <1>3 DEF FrameType, Line
  <2>2. UNCHANGED <<pc, has_pic, g_Driver, g_IRQHandlers, g_PicMask, port>>
    BY <1>2 DEF startVars, keyboardVars, deviceVars
  <2> QED BY <1>4, <1>5, <1>6, <2>1, <2>2 DEF Shape
<1>8. StartSound' /\ Registered'
  BY <1>1, <1>2, <1>5, <1>6 DEF StartSound, Registered, startVars
<1>9. FrameSound'
  <2>1. frames'[1].irq = irq /\ frames'[1].at = "handler" /\ frames'[1].vector = PIC_REMAP_OFFSET + irq
    BY <1>3, <1>4
  <2>2. /\ irq = 0 => g_IRQHandlers[0] # "NULL"
        /\ irq = 1 => g_IRQHandlers[1] = "keyboard.c" /\ port.full
    BY <1>1, <1>2 DEF StartSound, FrameSound
  <2>3. UNCHANGED <<has_pic, g_IRQHandlers, port>> /\ has_pic
    BY <1>1, <1>2 DEF startVars, keyboardVars, deviceVars
  <2>4. 1 \notin pic'.requests \/ irq # 1
    BY <1>6, <2>3 DEF FrameSound
  <2>5. 1 \in pic'.requests => port'.full
    BY <1>6, <2>3 DEF FrameSound
  <2> QED BY <1>4, <1>5, <1>6, <2>1, <2>2, <2>3, <2>4, <2>5 DEF FrameSound
<1> QED BY <1>7, <1>8, <1>9

\* The processor executes what is at NULL.
LEMMA StepWild ==
    ASSUME IInv, Wild
    PROVE  IInv'
<1> USE DEF IInv
<1>1. /\ frames = <<>> /\ pc = "wild" /\ ~has_pic /\ IF_FLAG = FALSE /\ pic.service = {}
      /\ UNCHANGED <<keyboardVars, pc, IF_FLAG, has_pic, startVars, pic, timer, unhandled, stuck>>
  <2>1. IF_FLAG \in BOOLEAN /\ ~IF_FLAG
    BY DEF Wild, StartSound, Shape
  <2> QED BY <2>1 DEF Wild, StartSound, FrameSound
<1>2. PICK vector \in {6, 64} :
        frames' = <<[irq |-> 16, vector |-> vector, flag |-> IF_FLAG, at |-> "handler"]>>
  BY DEF Wild
<1> DEFINE g == [irq |-> 16, vector |-> vector, flag |-> FALSE, at |-> "handler"]
<1>a. g \in FrameType /\ g.irq = 16 /\ ~g.flag
  BY DEF FrameType
<1>b. frames' = <<g>>
  BY <1>1, <1>2
<1> HIDE DEF g
<1>3. /\ frames'[1] \in FrameType /\ frames' = <<frames'[1]>> /\ frames' # <<>>
      /\ frames'[1].irq = 16 /\ ~frames'[1].flag
  BY <1>a, <1>b, OneFrame
<1>4. UNCHANGED <<pc, IF_FLAG, has_pic, g_Driver, absent, g_ISRHandlers, g_IRQHandlers,
                  g_PicMask, pic, unhandled, port>>
  BY <1>1 DEF startVars, keyboardVars, deviceVars
<1>5. Shape' /\ Registered'
  BY <1>3, <1>4 DEF Shape, Registered
<1>6. StartSound'
  BY <1>1, <1>4 DEF StartSound, Disabled
<1>7. FrameSound'
  BY <1>1, <1>3, <1>4 DEF FrameSound
<1> QED BY <1>5, <1>6, <1>7

\* The interrupt that is being handled is at its handler, its end or its iret.
LEMMA StepHandling ==
    ASSUME IInv, Handling
    PROVE  IInv'
<1> USE DEF IInv
<1> DEFINE f == frames[1]
<1>1. /\ frames # <<>> /\ f \in FrameType /\ frames = <<f>> /\ pc # "panic"
      /\ pc \notin Disabled /\ ~IF_FLAG /\ pic \in PicType
  BY DEF Handling, i686_ISR_Handler, i686_IRQ_Handler, i8259_SendEndOfInterrupt, iret,
         AtPlace, Shape, StartSound, FrameSound
<1>2. ASSUME NEW there \in {"end", "iret"}, Goto(there)
      PROVE  /\ frames' = <<frames'[1]>> /\ frames'[1] \in FrameType /\ frames' # <<>>
             /\ frames'[1] = [f EXCEPT !.at = there]
             /\ frames'[1].irq = f.irq /\ frames'[1].vector = f.vector /\ frames'[1].at = there
             /\ frames'[1].flag = f.flag
  <2> DEFINE g == [f EXCEPT !.at = there]
  <2>1. frames' = [<<f>> EXCEPT ![1] = g]
    BY <1>1, <1>2 DEF Goto
  <2>2. g \in FrameType /\ g.irq = f.irq /\ g.vector = f.vector /\ g.at = there /\ g.flag = f.flag
    BY <1>1 DEF FrameType
  <2> HIDE DEF g
  <2>3. frames' = <<g>> /\ frames'[1] = g
    BY <2>1, OneFrame
  <2> USE DEF g
  <2> QED BY <2>2, <2>3, OneFrame
<1>3. CASE i686_ISR_Handler
  <2>1. f.at = "handler" /\ f.vector \notin g_ISRHandlers
        /\ UNCHANGED <<keyboardVars, IF_FLAG, has_pic, startVars, pic, timer, unhandled, stuck>>
    BY <1>3 DEF i686_ISR_Handler, AtPlace
  <2>2. ~has_pic
    <3>1. SUFFICES ASSUME has_pic PROVE FALSE
      OBVIOUS
    <3>2. f.irq \in {0, 1, 7} /\ f.vector = PIC_REMAP_OFFSET + f.irq /\ g_ISRHandlers = Vectors
      BY <1>1, <3>1 DEF FrameSound, StartSound
    <3> QED BY <2>1, <3>2 DEF Vectors, Line
  <2>3. UNCHANGED <<IF_FLAG, has_pic, g_Driver, absent, g_ISRHandlers, g_IRQHandlers,
                    g_PicMask, pic, unhandled, port>>
    BY <2>1 DEF startVars, keyboardVars, deviceVars
  <2>4. f.irq = 16 /\ pic.service = {}
    BY <1>1, <2>2 DEF FrameSound
  <2>5. CASE pc' = "panic" /\ frames' = frames
    <3>1. Shape' /\ Registered' /\ FrameSound'
      BY <2>3, <2>5 DEF Shape, Registered, FrameSound, Places
    <3>2. StartSound'
      BY <1>1, <2>2, <2>3, <2>5 DEF StartSound, Disabled, Shape
    <3> QED BY <3>1, <3>2
  <2>6. CASE Goto("iret") /\ pc' = pc
    <3>1. Shape' /\ Registered'
      BY <1>2, <2>3, <2>6 DEF Shape, Registered
    <3>2. StartSound'
      BY <1>1, <1>2, <2>2, <2>3, <2>6 DEF StartSound
    <3>3. FrameSound'
      BY <1>1, <1>2, <2>2, <2>3, <2>4, <2>6 DEF FrameSound
    <3> QED BY <3>1, <3>2, <3>3
  <2> QED BY <1>3, <2>5, <2>6 DEF i686_ISR_Handler
<1>4. CASE i686_IRQ_Handler
  <2>1. /\ f.at = "handler" /\ f.vector \in g_ISRHandlers /\ Goto("end")
        /\ UNCHANGED <<pc, IF_FLAG, has_pic, startVars, pic, timer, stuck>>
    BY <1>4 DEF i686_IRQ_Handler, AtPlace
  <2>2. has_pic /\ f.irq \in {0, 1, 7} /\ f.vector = PIC_REMAP_OFFSET + f.irq
        /\ PIC_REMAP_OFFSET \in 0 .. 248
    BY <1>1, <2>1, InterruptsAssumption DEF StartSound, FrameSound
  <2>3. f.vector - PIC_REMAP_OFFSET = f.irq
    BY <2>2
  <2>4. \/ f.irq = 1 /\ keyboard_handler /\ unhandled' = unhandled
        \/ /\ f.irq # 1
           /\ unhandled' = unhandled \cup {i \in {f.irq} : g_IRQHandlers[i] = "NULL"}
           /\ port' = port
    <3>1. IF g_IRQHandlers[f.irq] = "keyboard.c"
          THEN keyboard_handler /\ UNCHANGED unhandled
          ELSE /\ unhandled' = unhandled \cup {i \in {f.irq} : g_IRQHandlers[i] = "NULL"}
               /\ UNCHANGED keyboardVars
      BY <1>4, <2>3, Zenon DEF i686_IRQ_Handler
    <3>2. g_IRQHandlers[f.irq] = "keyboard.c" <=> f.irq = 1
      <4>1. f.irq = 1 => g_IRQHandlers[f.irq] = "keyboard.c"
        BY <1>1 DEF FrameSound
      <4>2. g_IRQHandlers[0] # "keyboard.c" /\ g_IRQHandlers[7] = "NULL"
        <5>1. 7 \in Line /\ 7 > 1
          BY DEF Line
        <5> QED BY <5>1 DEF Registered
      <4> QED BY <2>2, <4>1, <4>2
    <3> QED BY <3>1, <3>2 DEF keyboardVars, deviceVars
  <2>5. unhandled' \subseteq {7}
    <3>1. unhandled \subseteq {7} /\ (f.irq = 0 => g_IRQHandlers[0] # "NULL")
      BY <1>1 DEF Registered, FrameSound
    <3> QED BY <2>2, <2>4, <3>1
  <2>6. /\ port'.full \in BOOLEAN
        /\ 1 \in pic.requests => port'.full
    <3>1. CASE port' = port
      BY <3>1 DEF Shape, FrameSound
    <3>2. CASE f.irq = 1 /\ keyboard_handler
      BY <1>1, <2>1, <3>2 DEF keyboard_handler, Empty, FrameSound
    <3> QED BY <2>4, <3>1, <3>2
  <2>7. UNCHANGED <<pc, IF_FLAG, has_pic, g_Driver, absent, g_ISRHandlers, g_IRQHandlers,
                    g_PicMask, pic>>
    BY <2>1 DEF startVars
  <2>8. Shape'
    BY <1>2, <2>1, <2>6, <2>7 DEF Shape
  <2>9. StartSound'
    BY <1>1, <2>7 DEF StartSound
  <2>10. Registered'
    BY <2>5, <2>7 DEF Registered
  <2>11. FrameSound'
    <3>1. /\ frames' # <<>> /\ frames'[1].at = "end" /\ frames'[1].irq = f.irq
          /\ frames'[1].vector = f.vector
      BY <1>2, <2>1
    <3>2. pic'.service = IF f.irq < 7 THEN {f.irq} ELSE {}
      BY <1>1, <2>1, <2>7 DEF FrameSound
    <3>3. /\ f.irq = 0 => g_IRQHandlers[0] # "NULL"
          /\ f.irq = 1 => g_IRQHandlers[1] = "keyboard.c"
      BY <1>1 DEF FrameSound
    <3> QED BY <1>1, <2>2, <2>6, <2>7, <3>1, <3>2, <3>3 DEF FrameSound
  <2> QED BY <2>8, <2>9, <2>10, <2>11
<1>5. CASE i8259_SendEndOfInterrupt
  <2>1. /\ f.at = "end" /\ Goto("iret")
        /\ pic' = [pic EXCEPT !.service = {i \in @ : \E j \in @ : j < i}]
        /\ UNCHANGED <<keyboardVars, pc, IF_FLAG, has_pic, startVars, timer, unhandled, stuck>>
    BY <1>5 DEF i8259_SendEndOfInterrupt, AtPlace
  <2>2. UNCHANGED <<pc, IF_FLAG, has_pic, g_Driver, absent, g_ISRHandlers, g_IRQHandlers,
                    g_PicMask, unhandled, port>>
    BY <2>1 DEF startVars, keyboardVars, deviceVars
  <2>3. \A i \in pic.service : \A j \in pic.service : ~(j < i)
    <3>1. pic.service = {} \/ pic.service = {f.irq}
      BY <1>1 DEF FrameSound
    <3>2. f.irq \in Int
      BY <1>1 DEF FrameType, Line
    <3> QED BY <3>1, <3>2
  <2>4. {i \in pic.service : \E j \in pic.service : j < i} = {}
    BY <2>3
  <2>5. /\ pic' \in PicType /\ pic'.mask = pic.mask /\ pic'.base = pic.base
        /\ pic'.requests = pic.requests /\ pic'.service = {}
    BY <1>1, <2>1, <2>4 DEF PicType
  <2>6. Shape'
    BY <1>2, <2>1, <2>2, <2>5 DEF Shape
  <2>7. Registered'
    BY <2>2 DEF Registered
  <2>9. StartSound'
    BY <1>1, <2>2, <2>5 DEF StartSound
  <2>8. FrameSound'
    BY <1>1, <1>2, <2>1, <2>2, <2>5 DEF FrameSound
  <2> QED BY <2>6, <2>7, <2>8, <2>9
<1>6. CASE iret
  <2>1. /\ f.at = "iret" /\ frames' = Tail(frames) /\ IF_FLAG' = f.flag
        /\ UNCHANGED <<keyboardVars, pc, has_pic, startVars, pic, timer, unhandled, stuck>>
    BY <1>6 DEF iret, AtPlace
  <2>2. frames' = <<>>
    BY <1>1, <2>1, OneFrame
  <2>3. UNCHANGED <<pc, has_pic, g_Driver, absent, g_ISRHandlers, g_IRQHandlers,
                    g_PicMask, pic, unhandled, port>>
    BY <2>1 DEF startVars, keyboardVars, deviceVars
  <2>4. IF_FLAG' \in BOOLEAN /\ pic.service = {}
    BY <1>1, <2>1 DEF FrameType, FrameSound
  <2>5. Shape' /\ Registered' /\ FrameSound'
    BY <2>2, <2>3, <2>4 DEF Shape, Registered, FrameSound
  <2>6. StartSound'
    <3>1. ~has_pic => ~IF_FLAG'
      BY <1>1, <2>1, Zenon DEF FrameSound
    <3> QED BY <1>1, <2>3, <3>1 DEF StartSound
  <2> QED BY <2>5, <2>6
<1> QED BY <1>3, <1>4, <1>5, <1>6 DEF Handling

LEMMA StepIdle == IInv /\ UNCHANGED vars => IInv'
<1> SUFFICES ASSUME IInv, UNCHANGED vars PROVE IInv'
  OBVIOUS
<1>1. UNCHANGED <<pc, IF_FLAG, has_pic, g_Driver, absent, g_ISRHandlers, g_IRQHandlers,
                  g_PicMask, pic, frames, unhandled, port>>
  BY DEF vars, startVars, keyboardVars, deviceVars
<1>2. Shape'
  BY <1>1 DEF IInv, Shape
<1>3. StartSound' /\ Registered'
  BY <1>1 DEF IInv, StartSound, Registered
<1>4. FrameSound'
  BY <1>1 DEF IInv, FrameSound
<1> QED BY <1>2, <1>3, <1>4 DEF IInv

LEMMA IInductive == IInv /\ [Next]_vars => IInv'
BY StepDevice, StepStart, StepTaken, StepWild, StepHandling, StepIdle DEF Next

\* The invariant that the rest follows from: how far the start has come, what is
\* registered by then, and the one interrupt that may be at work
\* (hal.c:10-18, irq.c:16-60, isr.c:59-84, i8259.c:72-108).
THEOREM InterruptsInvariance == Spec => []IInv
<1>1. Init => IInv
  BY InitIInv
<1> QED BY <1>1, IInductive, PTL DEF Spec

\* Interrupts come one at a time, each with its handler in place and its line the
\* only one in service, and the keyboard's handler finds a byte, wherever the
\* vectors lie (irq.c:16-28, 49-60, isr.c:59-84, hal.c:10-18, main.c:50-54).
THEOREM InterruptsStaySound == Spec => []InterruptsSound
<1>1. IInv => InterruptsSound
  <2> SUFFICES ASSUME IInv PROVE InterruptsSound
    OBVIOUS
  <2>1. /\ frames # <<>> => ~IF_FLAG
        /\ pc = "panic" => ~has_pic
        /\ unhandled \subseteq {7}
        /\ frames # <<>> /\ frames[1].irq = 1 /\ frames[1].at = "handler" => port.full
    BY DEF IInv, StartSound, Registered, FrameSound
  <2>2. Len(frames) <= 1 /\ (frames = <<>> => DOMAIN frames = {}) /\ (frames # <<>> => DOMAIN frames = {1})
    <3>1. CASE frames = <<>>
      BY <3>1
    <3>2. CASE frames = <<frames[1]>>
      <4>1. Len(frames) = 1 /\ DOMAIN frames = 1 .. 1
        BY <3>2
      <4>2. frames # <<>>
        BY <3>2, OneFrame
      <4> QED BY <4>1, <4>2
    <3> QED BY <3>1, <3>2 DEF IInv, Shape
  <2>3. pic.service = {frames[i].irq : i \in {j \in DOMAIN frames :
                                                frames[j].irq < 7 /\ frames[j].at # "iret"}}
    <3>1. CASE frames = <<>>
      BY <2>2, <3>1 DEF IInv, FrameSound
    <3>2. CASE frames # <<>> /\ frames[1].irq < 7 /\ frames[1].at # "iret"
      <4>1. pic.service = {frames[1].irq}
        BY <3>2 DEF IInv, FrameSound
      <4>2. {j \in DOMAIN frames : frames[j].irq < 7 /\ frames[j].at # "iret"} = {1}
        BY <2>2, <3>2
      <4> QED BY <4>1, <4>2
    <3>3. CASE frames # <<>> /\ ~(frames[1].irq < 7 /\ frames[1].at # "iret")
      <4>1. pic.service = {}
        BY <3>3 DEF IInv, FrameSound
      <4>2. {j \in DOMAIN frames : frames[j].irq < 7 /\ frames[j].at # "iret"} = {}
        BY <2>2, <3>3
      <4> QED BY <4>1, <4>2
    <3> QED BY <3>1, <3>2, <3>3
  <2> QED BY <2>1, <2>2, <2>3 DEF InterruptsSound
<1> QED BY <1>1, InterruptsInvariance, PTL

--------------------------------------------------------------------------------
(* The decoding.  What the handler will make of the bytes that wait is told by  *)
(* a path of its flags through them: it begins with the flags as they are and    *)
(* ends where the keyboard is already.                                           *)

Flags == [shift : BOOLEAN, caps : BOOLEAN, ext : BOOLEAN]
Meanings == {NoChar} \cup {k.low : k \in Keys} \cup {k.high : k \in Keys}
Byte == [code : Nat, meant : Meanings]

\* The flags after a byte, and what is made of it with the flags st.
After(st, code) ==
    [shift |-> \/ ~st.ext /\ code \in Shifts
               \/ st.shift /\ ~(~st.ext /\ code \in {Release(s) : s \in Shifts}),
     caps |-> (st.caps # (~st.ext /\ code = SCANCODE_CAPS)),
     ext |-> (code = PREFIX)]

SaysPlain(st, code) ==
    IF code < TABLE_SIZE /\ \E k \in Keys : ~k.extended /\ k.code = code
    THEN LET k == CHOOSE k \in Keys : ~k.extended /\ k.code = code
         IN  IF st.shift \/ (st.caps /\ k.letter) THEN k.high ELSE k.low
    ELSE NoChar

Says(st, code) ==
    IF code \in Pages THEN (CHOOSE k \in Keys : k.code = code).low
    ELSE IF st.ext \/ code >= 128 \/ code \in Shifts \cup {SCANCODE_CAPS} THEN NoChar
    ELSE SaysPlain(st, code)

Decodes(st, b, next) == next = After(st, b.code) /\ Says(st, b.code) = b.meant

\* A path from some flags to others, along which each byte says what it should.
Path(from, bytes, to) ==
    \E path \in [1 .. Len(bytes) + 1 -> Flags] :
        /\ path[1] = from
        /\ path[Len(bytes) + 1] = to
        /\ \A k \in 1 .. Len(bytes) : Decodes(path[k], bytes[k], path[k + 1])

Here == [shift |-> g_ShiftHeld, caps |-> g_CapsLock, ext |-> g_ExtendedKey]
There == [shift |-> (down # {}), caps |-> caps, ext |-> FALSE]

AtPort == [code |-> port.code, meant |-> port.meant]
Behind(bytes) == IF port.full THEN <<AtPort>> \o bytes ELSE bytes
Pending == Behind(fifo)

DInv ==
    /\ fifo \in Seq(Byte) /\ AtPort \in Byte /\ port.full \in BOOLEAN
    /\ {g_ShiftHeld, g_CapsLock, g_ExtendedKey, caps} \subseteq BOOLEAN
    /\ down \subseteq Shifts /\ \A a, b \in down : a = b
    /\ Path(Here, Pending, There)
    /\ mistaken = FALSE

LEMMA AfterType ==
    ASSUME NEW st \in Flags, NEW code
    PROVE  After(st, code) \in Flags
BY Zenon DEF After, Flags

LEMMA PathEmpty ==
    ASSUME NEW st \in Flags
    PROVE  Path(st, <<>>, st)
<1> DEFINE path == [k \in 1 .. 1 |-> st]
<1>1. Len(<<>>) + 1 = 1 /\ Len(<<>>) = 0
  OBVIOUS
<1>2. path \in [1 .. Len(<<>>) + 1 -> Flags] /\ path[1] = st /\ path[Len(<<>>) + 1] = st
  BY <1>1
<1>3. \A k \in 1 .. Len(<<>>) : FALSE
  BY <1>1
<1> HIDE DEF path
<1> QED BY <1>2, <1>3 DEF Path

LEMMA PathAppend ==
    ASSUME NEW from, NEW to \in Flags, NEW q \in Seq(Byte), NEW b \in Byte, NEW next \in Flags,
           Path(from, q, to), Decodes(to, b, next)
    PROVE  Path(from, Append(q, b), next)
<1> DEFINE n == Len(q)
           r == Append(q, b)
<1>1. n \in Nat /\ Len(r) = n + 1 /\ r[n + 1] = b /\ \A k \in 1 .. n : r[k] = q[k]
  BY AppendProperties, LenProperties
<1>2. PICK path \in [1 .. n + 1 -> Flags] :
        /\ path[1] = from /\ path[n + 1] = to
        /\ \A k \in 1 .. n : Decodes(path[k], q[k], path[k + 1])
  BY DEF Path
<1> HIDE DEF n, r
<1> DEFINE longer == [k \in 1 .. n + 2 |-> IF k = n + 2 THEN next ELSE path[k]]
<1>3. /\ longer \in [1 .. Len(r) + 1 -> Flags] /\ longer[Len(r) + 1] = next
      /\ \A k \in 1 .. n + 1 : longer[k] = path[k]
  BY <1>1, <1>2
<1>4. longer[1] = from
  BY <1>1, <1>2, <1>3
<1>5. ASSUME NEW k \in 1 .. Len(r) PROVE Decodes(longer[k], r[k], longer[k + 1])
  <2>1. CASE k \in 1 .. n
    <3>1. k \in 1 .. n + 1 /\ k + 1 \in 1 .. n + 1
      BY <1>1, <2>1
    <3>2. longer[k] = path[k] /\ longer[k + 1] = path[k + 1] /\ r[k] = q[k]
      BY <1>1, <1>3, <2>1, <3>1
    <3> QED BY <1>2, <2>1, <3>2
  <2>2. CASE k = n + 1
    <3>1. longer[n + 1] = to /\ longer[n + 2] = next /\ r[n + 1] = b
      BY <1>1, <1>2, <1>3
    <3> QED BY <1>1, <2>2, <3>1
  <2> QED BY <1>1, <2>1, <2>2
<1> HIDE DEF longer
<1> QED BY <1>3, <1>4, <1>5 DEF Path, r

LEMMA PathHead ==
    ASSUME NEW from, NEW to, NEW b \in Byte, NEW q \in Seq(Byte),
           Path(from, <<b>> \o q, to)
    PROVE  Says(from, b.code) = b.meant /\ Path(After(from, b.code), q, to)
<1> DEFINE n == Len(q)
           r == <<b>> \o q
<1>1. n \in Nat /\ Len(r) = n + 1 /\ r[1] = b /\ \A k \in 1 .. n : r[k + 1] = q[k]
  <2>1. <<b>> \in Seq(Byte) /\ Len(<<b>>) = 1 /\ <<b>>[1] = b /\ n \in Nat
    BY LenProperties
  <2>2. /\ Len(r) = 1 + n
        /\ \A i \in 1 .. 1 + n : r[i] = IF i <= 1 THEN <<b>>[i] ELSE q[i - 1]
    BY <2>1, ConcatProperties
  <2> QED BY <2>1, <2>2
<1>2. PICK path \in [1 .. Len(r) + 1 -> Flags] :
        /\ path[1] = from /\ path[Len(r) + 1] = to
        /\ \A k \in 1 .. Len(r) : Decodes(path[k], r[k], path[k + 1])
  BY DEF Path
<1> HIDE DEF n, r
<1> DEFINE rest == [k \in 1 .. n + 1 |-> path[k + 1]]
<1>3. Decodes(from, b, path[2])
  BY <1>1, <1>2
<1>4. rest \in [1 .. n + 1 -> Flags] /\ rest[1] = After(from, b.code) /\ rest[n + 1] = to
  BY <1>1, <1>2, <1>3 DEF Decodes
<1>5. ASSUME NEW k \in 1 .. n PROVE Decodes(rest[k], q[k], rest[k + 1])
  <2>1. k + 1 \in 1 .. Len(r) /\ k \in 1 .. n + 1 /\ k + 1 \in 1 .. n + 1
    BY <1>1
  <2>2. Decodes(path[k + 1], r[k + 1], path[(k + 1) + 1])
    BY <1>2, <2>1
  <2>3. rest[k] = path[k + 1] /\ rest[k + 1] = path[(k + 1) + 1] /\ r[k + 1] = q[k]
    BY <1>1, <2>1
  <2> QED BY <2>2, <2>3
<1> HIDE DEF rest
<1> QED BY <1>3, <1>4, <1>5 DEF Path, n, Decodes

\* The code of a key's byte, and what the codes are not.
CodeOf(key, press) == IF press THEN key.code ELSE Release(key.code)
Own(key, press) == [code |-> CodeOf(key, press), meant |-> IF press THEN Legend(key) ELSE NoChar]

LEMMA Codes ==
    ASSUME Layout, NEW key \in Keys, NEW press \in BOOLEAN
    PROVE  /\ key.code \in 1 .. 127 /\ key.extended \in BOOLEAN /\ key.letter \in BOOLEAN
           /\ CodeOf(key, press) \in Nat /\ CodeOf(key, press) # PREFIX
           /\ (CodeOf(key, press) \in Shifts <=> press /\ key.code \in Shifts)
           /\ (CodeOf(key, press) \in {Release(s) : s \in Shifts} <=> ~press /\ key.code \in Shifts)
           /\ (CodeOf(key, press) = SCANCODE_CAPS <=> press /\ key.code = SCANCODE_CAPS)
           /\ (CodeOf(key, press) >= 128 <=> ~press)
           /\ (CodeOf(key, press) \in Pages <=> press /\ key.code \in Pages)
<1> DEFINE n == key.code
<1>1. n \in 1 .. 127 /\ key.extended \in BOOLEAN /\ key.letter \in BOOLEAN
  BY KeyboardAssumption
<1>2. Release(n) = n + 128 /\ Release(n) # PREFIX
  BY DEF Layout, Release
<1> HIDE DEF n
<1>3. /\ n \in Nat /\ n # PREFIX /\ ~(n >= 128) /\ n \notin {Release(s) : s \in Shifts}
  BY <1>1 DEF PREFIX, Release, Shifts, SCANCODE_LSHIFT, SCANCODE_RSHIFT
<1>4. /\ Release(n) \in Nat /\ Release(n) >= 128 /\ Release(n) \notin Shifts
      /\ Release(n) # SCANCODE_CAPS /\ Release(n) \notin Pages
      /\ (Release(n) \in {Release(s) : s \in Shifts} <=> n \in Shifts)
  BY <1>1, <1>2 DEF Release, Shifts, SCANCODE_LSHIFT, SCANCODE_RSHIFT, SCANCODE_CAPS, Pages,
                    SCANCODE_PAGEUP, SCANCODE_PAGEDOWN
<1>5. CASE press
  <2>1. CodeOf(key, press) = n
    BY <1>5, Zenon DEF CodeOf, n
  <2> QED BY <1>1, <1>3, <1>5, <2>1, ZenonT(40) DEF n
<1>6. CASE ~press
  <2>1. CodeOf(key, press) = Release(n)
    BY <1>6, Zenon DEF CodeOf, n
  <2> QED BY <1>1, <1>2, <1>4, <1>6, <2>1, ZenonT(40) DEF n
<1> QED BY <1>5, <1>6, Zenon

\* What the handler makes of a key's own byte, when its flags are those of the keyboard.
LEMMA SaysLegend ==
    ASSUME Layout, NEW key \in Keys, NEW press \in BOOLEAN, NEW st \in Flags,
           st.shift <=> down # {}, st.caps <=> caps, st.ext <=> key.extended
    PROVE  Says(st, CodeOf(key, press)) = Own(key, press).meant
<1> DEFINE code == CodeOf(key, press)
<1>1. Own(key, press).meant = IF press THEN Legend(key) ELSE NoChar
  BY DEF Own
<1>2. CASE press /\ key.code \in Pages
  <2>1. code = key.code
    BY <1>2 DEF CodeOf
  <2> DEFINE page == CHOOSE k \in Keys : k.code = code
  <2>2. page \in Keys /\ page.code = code
    BY <2>1
  <2>3. Says(st, code) = page.low
    <3>1. code \in Pages
      BY <1>2, <2>1
    <3> QED BY <3>1 DEF Says
  <2> HIDE DEF page
  <2>4. key.low = page.low /\ key.high = page.low
    BY <1>2, <2>1, <2>2 DEF Layout
  <2>5. Legend(key) = page.low
    BY <2>4 DEF Legend
  <2> QED BY <1>1, <1>2, <2>3, <2>5
<1>3. CASE ~press
  <2>1. code >= 128 /\ code \notin Pages
    BY <1>3, Codes
  <2>2. Says(st, code) = NoChar
    BY <2>1, ZenonT(40) DEF Says
  <2> QED BY <1>1, <1>3, <2>2
<1>4. CASE press /\ key.code \notin Pages
  <2>1. code = key.code /\ ~(code >= 128) /\ key.code \in Nat
    BY <1>4, Codes, ZenonT(40) DEF CodeOf
  <2>2. CASE key.extended \/ key.code \in Shifts \cup {SCANCODE_CAPS}
    <3>1. Says(st, code) = NoChar
      BY <1>4, <2>1, <2>2 DEF Says
    <3>2. key.low = NoChar /\ key.high = NoChar
      BY <1>4, <2>2 DEF Layout
    <3>3. Legend(key) = NoChar
      BY <3>2 DEF Legend
    <3> QED BY <1>1, <1>4, <3>1, <3>3
  <2>3. CASE ~key.extended /\ key.code \notin Shifts \cup {SCANCODE_CAPS}
    <3>1. Says(st, code) = SaysPlain(st, code)
      BY <1>4, <2>1, <2>3 DEF Says
    <3>2. CASE code < TABLE_SIZE
      <4> DEFINE k == CHOOSE k \in Keys : ~k.extended /\ k.code = code
      <4>1. k \in Keys /\ ~k.extended /\ k.code = code
        BY <2>1, <2>3
      <4>2. k.extended = key.extended
        BY <2>3, <4>1, KeyboardAssumption, Zenon
      <4>3. k = key
        BY <2>1, <4>1, <4>2, KeyboardAssumption, Zenon
      <4>4. SaysPlain(st, code) = IF st.shift \/ (st.caps /\ k.letter) THEN k.high ELSE k.low
        BY <2>1, <2>3, <3>2, Zenon DEF SaysPlain
      <4>5. Legend(key) = IF st.shift \/ (st.caps /\ key.letter) THEN key.high ELSE key.low
        BY Zenon DEF Legend
      <4> HIDE DEF k
      <4> QED BY <1>1, <1>4, <3>1, <4>3, <4>4, <4>5
    <3>3. CASE ~(code < TABLE_SIZE)
      <4>1. key.code >= TABLE_SIZE
        BY <2>1, <3>3, KeyboardAssumption
      <4>2. key.low = NoChar /\ key.high = NoChar
        BY <1>4, <4>1 DEF Layout
      <4>3. Legend(key) = NoChar
        BY <4>2 DEF Legend
      <4>4. SaysPlain(st, code) = NoChar
        BY <3>3 DEF SaysPlain
      <4> QED BY <1>1, <1>4, <3>1, <4>3, <4>4
    <3> QED BY <3>2, <3>3
  <2> QED BY <2>2, <2>3
<1> QED BY <1>2, <1>3, <1>4

\* The keyboard in front of a key's own byte, behind the prefix if it has one.
Ready(key) == [shift |-> (down # {}), caps |-> caps, ext |-> key.extended]
Prefix == [code |-> PREFIX, meant |-> NoChar]

\* A key's own byte takes the handler to where the keyboard goes.
LEMMA OwnByte ==
    ASSUME Layout, DInv, NEW key \in Keys, NEW press \in BOOLEAN, Stroke(key, press)
    PROVE  /\ Own(key, press) \in Byte
           /\ Decodes(Ready(key), Own(key, press), There')
           /\ There' \in Flags /\ Ready(key) \in Flags
           /\ down' \subseteq Shifts /\ \A a, b \in down' : a = b
           /\ caps' \in BOOLEAN
<1> DEFINE code == CodeOf(key, press)
           st == Ready(key)
           shift == ~key.extended /\ key.code \in Shifts
<1>1. /\ code \in Nat /\ code # PREFIX
      /\ (code \in Shifts <=> press /\ key.code \in Shifts)
      /\ (code \in {Release(s) : s \in Shifts} <=> ~press /\ key.code \in Shifts)
      /\ (code = SCANCODE_CAPS <=> press /\ key.code = SCANCODE_CAPS)
      /\ key.extended \in BOOLEAN
  BY Codes
<1>2. down \subseteq Shifts /\ (\A a, b \in down : a = b) /\ caps \in BOOLEAN
  BY DEF DInv
<1>3. /\ shift => IF press THEN down \subseteq {key.code} ELSE key.code \in down
      /\ down' = IF ~shift THEN down
                 ELSE IF press THEN down \cup {key.code} ELSE down \ {key.code}
      /\ caps' = (caps # (press /\ ~key.extended /\ key.code = SCANCODE_CAPS))
  BY Zenon DEF Stroke
<1>4. st \in Flags /\ There' \in Flags /\ caps' \in BOOLEAN
  <2>1. (down # {}) \in BOOLEAN /\ (down' # {}) \in BOOLEAN
    BY Zenon
  <2>2. caps' \in BOOLEAN
    BY <1>3, Zenon
  <2> QED BY <1>1, <1>2, <2>1, <2>2 DEF Ready, There, Flags
<1>5. st.shift = (down # {}) /\ st.caps = caps /\ st.ext = key.extended
  BY DEF Ready
<1>6. Own(key, press) \in Byte
  <2>1. Legend(key) \in Meanings /\ NoChar \in Meanings
    BY DEF Legend, Meanings
  <2> QED BY <1>1, <2>1 DEF Own, Byte
<1>7. Own(key, press).code = code /\ Says(st, code) = Own(key, press).meant
  <2>1. (st.shift <=> down # {}) /\ (st.caps <=> caps) /\ (st.ext <=> key.extended)
    BY <1>5
  <2> QED BY <1>4, <2>1, SaysLegend DEF Own
<1> HIDE DEF code, st
<1>8. down' \subseteq Shifts /\ \A a, b \in down' : a = b
  BY <1>2, <1>3
<1>9. (\/ ~st.ext /\ code \in Shifts
       \/ st.shift /\ ~(~st.ext /\ code \in {Release(s) : s \in Shifts})) <=> down' # {}
  <2>1. CASE ~shift
    BY <1>1, <1>3, <1>5, <2>1, Zenon
  <2>2. CASE shift /\ press
    <3>1. down' # {}
      BY <1>3, <2>2
    <3> QED BY <1>1, <1>5, <2>2, <3>1, Zenon
  <2>3. CASE shift /\ ~press
    <3>1. down' = {}
      BY <1>2, <1>3, <2>3
    <3> QED BY <1>1, <1>5, <2>3, <3>1, Zenon
  <2> QED BY <2>1, <2>2, <2>3
<1>10. (st.caps # (~st.ext /\ code = SCANCODE_CAPS)) <=> caps'
  BY <1>1, <1>2, <1>3, <1>5, Zenon
<1>11. After(st, code) = There'
  <2>1. /\ (\/ ~st.ext /\ code \in Shifts
            \/ st.shift /\ ~(~st.ext /\ code \in {Release(s) : s \in Shifts})) = (down' # {})
        /\ (st.caps # (~st.ext /\ code = SCANCODE_CAPS)) = caps'
        /\ (code = PREFIX) = FALSE
    BY <1>1, <1>4, <1>9, <1>10, Zenon
  <2> QED BY <2>1, Zenon DEF After, There
<1> QED BY <1>4, <1>6, <1>7, <1>8, <1>11 DEF Decodes, st

\* The prefix itself says nothing and changes nothing else.
LEMMA PrefixByte ==
    ASSUME DInv, NEW key \in Keys, key.extended = TRUE
    PROVE  Prefix \in Byte /\ Decodes(There, Prefix, Ready(key))
<1> DEFINE st == There
<1>1. caps \in BOOLEAN
  BY DEF DInv
<1>2. st.shift = (down # {}) /\ st.caps = caps /\ st.ext = FALSE
  BY DEF There
<1>3. /\ PREFIX \notin Shifts /\ PREFIX \notin {Release(s) : s \in Shifts} /\ PREFIX # SCANCODE_CAPS
      /\ PREFIX \notin Pages /\ PREFIX >= 128 /\ PREFIX \in Nat
  BY DEF PREFIX, Shifts, Release, SCANCODE_LSHIFT, SCANCODE_RSHIFT, SCANCODE_CAPS, Pages,
         SCANCODE_PAGEUP, SCANCODE_PAGEDOWN
<1>4. Prefix \in Byte /\ Prefix.code = PREFIX /\ Prefix.meant = NoChar
  BY <1>3 DEF Prefix, Byte, Meanings
<1> HIDE DEF st
<1>5. Says(st, PREFIX) = NoChar
  BY <1>3, Zenon DEF Says
<1>6. After(st, PREFIX) = Ready(key)
  <2>1. /\ (\/ ~st.ext /\ PREFIX \in Shifts
            \/ st.shift /\ ~(~st.ext /\ PREFIX \in {Release(s) : s \in Shifts})) = (down # {})
        /\ (st.caps # (~st.ext /\ PREFIX = SCANCODE_CAPS)) = caps
        /\ (PREFIX = PREFIX) = key.extended
    BY <1>1, <1>2, <1>3, Zenon
  <2> QED BY <2>1, Zenon DEF After, Ready
<1> QED BY <1>4, <1>5, <1>6 DEF Decodes, st

\* A byte more that waits.
LEMMA PathGrows ==
    ASSUME AtPort \in Byte, port.full \in BOOLEAN,
           NEW from, NEW to \in Flags, NEW q \in Seq(Byte), NEW b \in Byte, NEW next \in Flags,
           Path(from, Behind(q), to), Decodes(to, b, next)
    PROVE  Append(q, b) \in Seq(Byte) /\ Path(from, Behind(Append(q, b)), next)
<1>1. Append(q, b) \in Seq(Byte)
  OBVIOUS
<1>2. CASE ~port.full
  BY <1>2, PathAppend DEF Behind
<1>3. CASE port.full
  <2> DEFINE p == <<AtPort>>
  <2>1. p \in Seq(Byte) /\ p \o q \in Seq(Byte)
    OBVIOUS
  <2>2. p \o Append(q, b) = Append(p \o q, b)
    <3> HIDE DEF p
    <3>1. <<b>> \in Seq(Byte) /\ Append(q, b) = q \o <<b>> /\ Append(p \o q, b) = (p \o q) \o <<b>>
      BY <2>1, AppendIsConcat
    <3>2. p \o (q \o <<b>>) = (p \o q) \o <<b>>
      BY <2>1, <3>1, ConcatAssociative
    <3> QED BY <3>1, <3>2
  <2>3. Path(from, p \o q, to)
    BY <1>3 DEF Behind
  <2> HIDE DEF p
  <2>4. Path(from, Append(p \o q, b), next)
    BY <2>1, <2>3, PathAppend
  <2> QED BY <1>1, <1>3, <2>2, <2>4 DEF Behind, p
<1> QED BY <1>2, <1>3

--------------------------------------------------------------------------------
LEMMA InitDInv == Init => DInv
<1> SUFFICES ASSUME Init PROVE DInv
  OBVIOUS
<1>1. KeyboardInit
  BY Zenon DEF Init
<1> USE DEF KeyboardInit
<1>2. port.code = 0 /\ port.meant = NoChar /\ port.full = FALSE
  BY <1>1 DEF Empty
<1>3. AtPort \in Byte /\ fifo = <<>> /\ fifo \in Seq(Byte)
  BY <1>1, <1>2 DEF AtPort, Byte, Meanings
<1>4. Here = There /\ There \in Flags
  <2>1. (down # {}) = FALSE
    BY <1>1, Zenon
  <2>2. Here = [shift |-> FALSE, caps |-> FALSE, ext |-> FALSE]
    BY <1>1, Zenon DEF Here
  <2>3. There = [shift |-> FALSE, caps |-> FALSE, ext |-> FALSE]
    BY <1>1, <2>1, Zenon DEF There
  <2> QED BY <2>2, <2>3 DEF Flags
<1>5. Pending = <<>>
  BY <1>2, <1>3, Zenon DEF Pending, Behind
<1>6. Path(Here, Pending, There)
  BY <1>4, <1>5, PathEmpty, Zenon
<1>7. {g_ShiftHeld, g_CapsLock, g_ExtendedKey, caps} \subseteq BOOLEAN /\ mistaken = FALSE
  BY <1>1
<1>8. down \subseteq Shifts /\ (\A a, b \in down : a = b)
  BY <1>1
<1> QED BY <1>2, <1>3, <1>6, <1>7, <1>8, Zenon DEF DInv

\* The keyboard adds a key's bytes behind those that wait.
LEMMA StepPress ==
    ASSUME Layout, DInv, Press
    PROVE  DInv'
<1>1. PICK key \in Keys, press \in BOOLEAN : Stroke(key, press)
  BY Zenon DEF Press
<1> DEFINE own == Own(key, press)
<1>2. /\ own \in Byte /\ Decodes(Ready(key), own, There')
      /\ There' \in Flags /\ Ready(key) \in Flags
      /\ down' \subseteq Shifts /\ (\A a, b \in down' : a = b)
      /\ caps' \in BOOLEAN
  BY <1>1, OwnByte
<1>3. /\ fifo' = fifo \o Bytes(key, press)
      /\ UNCHANGED <<port, g_ShiftHeld, g_CapsLock, g_ExtendedKey, mistaken>>
  BY <1>1 DEF Stroke, decodeVars
<1>4. Bytes(key, press) = IF key.extended THEN <<Prefix, own>> ELSE <<own>>
  <2>1. own = IF press THEN [code |-> key.code, meant |-> Legend(key)]
              ELSE [code |-> Release(key.code), meant |-> NoChar]
    BY DEF Own, CodeOf
  <2> HIDE DEF own
  <2> QED BY <2>1, Zenon DEF Bytes, Prefix
<1> HIDE DEF own
<1>5. /\ fifo \in Seq(Byte) /\ AtPort \in Byte /\ port.full \in BOOLEAN
      /\ {g_ShiftHeld, g_CapsLock, g_ExtendedKey} \subseteq BOOLEAN /\ mistaken = FALSE
      /\ Path(Here, Behind(fifo), There) /\ caps \in BOOLEAN
  BY DEF DInv, Pending
<1>6. key.extended \in BOOLEAN
  BY KeyboardAssumption
<1>7. There \in Flags
  <2>1. (down # {}) \in BOOLEAN
    BY Zenon
  <2> QED BY <1>5, <2>1 DEF There, Flags
<1>8. fifo' \in Seq(Byte) /\ Path(Here, Behind(fifo'), There')
  <2>1. CASE key.extended = FALSE
    <3>1. fifo' = Append(fifo, own)
      BY <1>2, <1>3, <1>4, <1>5, <2>1, AppendIsConcat
    <3>2. Ready(key) = There
      BY <2>1 DEF Ready, There
    <3> QED BY <1>2, <1>5, <1>7, <3>1, <3>2, PathGrows
  <2>2. CASE key.extended = TRUE
    <3> DEFINE more == Append(fifo, Prefix)
    <3>1. Prefix \in Byte /\ Decodes(There, Prefix, Ready(key))
      BY <2>2, PrefixByte
    <3>2. more \in Seq(Byte) /\ Path(Here, Behind(more), Ready(key))
      BY <1>2, <1>5, <1>7, <3>1, PathGrows
    <3>3. fifo' = Append(more, own)
      BY <1>2, <1>3, <1>4, <1>5, <2>2, <3>1
    <3> HIDE DEF more
    <3> QED BY <1>2, <1>5, <3>2, <3>3, PathGrows
  <2> QED BY <1>6, <2>1, <2>2
<1>9. Pending' = Behind(fifo') /\ Here' = Here /\ AtPort' = AtPort
  BY <1>3 DEF Pending, Behind, Here, AtPort
<1>10. Path(Here, Behind(fifo), There)' 
  BY <1>8, <1>9 DEF Pending
<1> QED BY <1>2, <1>3, <1>5, <1>8, <1>9, <1>10 DEF DInv, Pending

\* The next byte comes to the port: the same bytes wait, in the same order.
LEMMA StepByteArrives ==
    ASSUME DInv, ByteArrives
    PROVE  DInv'
<1>1. /\ port.full = FALSE /\ fifo # <<>>
      /\ port' = [code |-> Head(fifo).code, meant |-> Head(fifo).meant, full |-> TRUE]
      /\ fifo' = Tail(fifo)
      /\ UNCHANGED <<down, caps, g_ShiftHeld, g_CapsLock, g_ExtendedKey, mistaken>>
  BY DEF ByteArrives, decodeVars, DInv
<1>2. fifo \in Seq(Byte) /\ Path(Here, Pending, There)
  BY DEF DInv
<1>3. Head(fifo) \in Byte /\ Tail(fifo) \in Seq(Byte) /\ fifo = <<Head(fifo)>> \o Tail(fifo)
  BY <1>1, <1>2
<1>4. AtPort' = Head(fifo) /\ port'.full = TRUE
  BY <1>1, <1>3 DEF AtPort, Byte
<1>5. Pending' = Pending
  BY <1>1, <1>3, <1>4, Zenon DEF Pending, Behind
<1>6. Here' = Here /\ There' = There
  BY <1>1, Zenon DEF Here, There
<1>7. Path(Here, Pending, There)'
  BY <1>2, <1>5, <1>6
<1> QED BY <1>1, <1>3, <1>4, <1>7 DEF DInv

\* The handler makes of the first byte that waits what it should, and goes on
\* along the path.
LEMMA StepHandler ==
    ASSUME DInv, port.full, keyboard_handler
    PROVE  DInv'
<1> DEFINE code == port.code
           plain == ~g_ExtendedKey
<1>1. /\ fifo \in Seq(Byte) /\ AtPort \in Byte /\ down \subseteq Shifts
      /\ (\A a, b \in down : a = b)
      /\ Path(Here, Pending, There) /\ caps \in BOOLEAN /\ mistaken = FALSE
      /\ {g_ShiftHeld, g_CapsLock, g_ExtendedKey} \subseteq BOOLEAN
  BY DEF DInv
<1>2. /\ port' = Empty
      /\ g_ExtendedKey' = (code = PREFIX)
      /\ g_ShiftHeld' = (\/ plain /\ code \in Shifts
                         \/ g_ShiftHeld /\ ~(plain /\ code \in {Release(s) : s \in Shifts}))
      /\ g_CapsLock' = (g_CapsLock # (plain /\ code = SCANCODE_CAPS))
      /\ mistaken' = (mistaken \/ Decoded(code) # port.meant)
      /\ UNCHANGED <<fifo, down, caps>>
  BY Zenon DEF keyboard_handler
<1>3. AtPort.code = code /\ AtPort.meant = port.meant
  BY DEF AtPort
<1>4. Here.shift = g_ShiftHeld /\ Here.caps = g_CapsLock /\ Here.ext = g_ExtendedKey
  BY DEF Here
<1> HIDE DEF code
<1>5. Says(Here, code) = port.meant /\ Path(After(Here, code), fifo, There)
  <2>1. Pending = <<AtPort>> \o fifo
    BY Zenon DEF Pending, Behind
  <2>2. Path(Here, <<AtPort>> \o fifo, There)
    BY <1>1, <2>1, Zenon
  <2> QED BY <1>1, <1>3, <2>2, PathHead, Zenon
<1>6. Decoded(code) = Says(Here, code)
  <2>1. Ascii(code, g_ShiftHeld) = SaysPlain(Here, code)
    BY <1>4, Zenon DEF Ascii, SaysPlain
  <2>2. CASE code \in Pages
    <3> DEFINE low == (CHOOSE k \in Keys : k.code = code).low
    <3>1. Says(Here, code) = low /\ Decoded(code) = low
      BY <2>2 DEF Says, Decoded
    <3> QED BY <3>1
  <2>3. CASE code \notin Pages /\ (g_ExtendedKey \/ code >= 128 \/ code \in Shifts \cup {SCANCODE_CAPS})
    <3>1. Says(Here, code) = NoChar /\ Decoded(code) = NoChar
      BY <1>4, <2>3 DEF Says, Decoded
    <3> QED BY <3>1
  <2>4. CASE code \notin Pages /\ ~(g_ExtendedKey \/ code >= 128 \/ code \in Shifts \cup {SCANCODE_CAPS})
    <3>1. Says(Here, code) = SaysPlain(Here, code) /\ Decoded(code) = Ascii(code, g_ShiftHeld)
      BY <1>4, <2>4 DEF Says, Decoded
    <3> QED BY <2>1, <3>1
  <2> QED BY <2>2, <2>3, <2>4, Zenon
<1>7. mistaken' = FALSE
  BY <1>1, <1>2, <1>5, <1>6, Zenon
<1>8. Here' = After(Here, code)
  BY <1>2, <1>4, Zenon DEF Here, After
<1>9. There' = There
  BY <1>2, Zenon DEF There
<1>10. port'.code = 0 /\ port'.meant = NoChar /\ port'.full = FALSE
  BY <1>2 DEF Empty
<1>11. AtPort' \in Byte
  BY <1>10 DEF AtPort, Byte, Meanings
<1>12. Pending' = fifo
  BY <1>2, <1>10, Zenon DEF Pending, Behind
<1>13. Path(Here, Pending, There)'
  BY <1>5, <1>8, <1>9, <1>12
<1>14. {g_ShiftHeld, g_CapsLock, g_ExtendedKey, caps}' \subseteq BOOLEAN
  BY <1>1, <1>2
<1> QED BY <1>1, <1>2, <1>7, <1>10, <1>11, <1>13, <1>14 DEF DInv

\* The handler runs for line 1 only, and then a byte is there.
LEMMA HandlerFindsByte ==
    ASSUME IInv, i686_IRQ_Handler
    PROVE  UNCHANGED keyboardVars \/ (port.full /\ keyboard_handler)
<1> DEFINE irq == frames[1].vector - PIC_REMAP_OFFSET
<1>1. /\ frames # <<>> /\ frames[1].at = "handler" /\ frames[1].vector \in g_ISRHandlers
      /\ IF g_IRQHandlers[irq] = "keyboard.c" THEN keyboard_handler ELSE UNCHANGED keyboardVars
  BY Zenon DEF i686_IRQ_Handler, AtPlace
<1>2. has_pic
  BY <1>1, Zenon DEF IInv, StartSound
<1>3. /\ frames[1].irq \in {0, 1, 7} /\ frames[1].vector = PIC_REMAP_OFFSET + frames[1].irq
      /\ frames[1].irq = 1 => port.full
  BY <1>1, <1>2 DEF IInv, FrameSound
<1>4. irq = frames[1].irq
  BY <1>3, InterruptsAssumption
<1> HIDE DEF irq
<1>5. CASE irq = 1
  BY <1>1, <1>3, <1>4, <1>5, Zenon
<1>6. CASE irq # 1
  <2>1. irq \in {0, 7} /\ 7 \in Line /\ 7 > 1
    BY <1>3, <1>4, <1>6 DEF Line
  <2>2. g_IRQHandlers[0] # "keyboard.c" /\ g_IRQHandlers[7] = "NULL"
    BY <2>1 DEF IInv, Registered
  <2>3. g_IRQHandlers[irq] # "keyboard.c"
    BY <2>1, <2>2
  <2> QED BY <1>1, <2>3, Zenon
<1> QED BY <1>5, <1>6

LEMMA SameBytes ==
    ASSUME DInv, UNCHANGED keyboardVars
    PROVE  DInv'
<1>1. UNCHANGED <<port, fifo, down, caps, g_ShiftHeld, g_CapsLock, g_ExtendedKey, mistaken>>
  BY DEF keyboardVars, deviceVars, decodeVars
<1>2. Here' = Here /\ There' = There /\ Pending' = Pending /\ AtPort' = AtPort
  BY <1>1 DEF Here, There, Pending, Behind, AtPort
<1>3. Path(Here, Pending, There)' <=> Path(Here, Pending, There)
  BY <1>2
<1> QED BY <1>1, <1>2, <1>3 DEF DInv

LEMMA DInductive == Layout /\ IInv /\ DInv /\ [Next]_vars => DInv'
<1> SUFFICES ASSUME Layout, IInv, DInv, [Next]_vars PROVE DInv'
  OBVIOUS
<1>1. CASE Press
  BY <1>1, StepPress
<1>2. CASE ByteArrives
  BY <1>2, StepByteArrives
<1>3. CASE i686_IRQ_Handler
  BY <1>3, HandlerFindsByte, StepHandler, SameBytes
<1>4. CASE \/ TimerTurns \/ Start \/ Taken \/ Spurious \/ Wild
           \/ i686_ISR_Handler \/ i8259_SendEndOfInterrupt \/ iret \/ UNCHANGED vars
  <2>1. UNCHANGED keyboardVars
    <3>1. CASE TimerTurns
      BY <3>1 DEF TimerTurns
    <3>2. CASE Start
      BY <3>2, Zenon DEF Start, Rest, i686_ISR_Initialize, i8259_Probe, ConfigureResets, ConfigureEnds,
             i686_ISR_RegisterHandler, i686_EnableInterrupts, i686_Timer_Initialize, start,
             i686_Keyboard_Initialize, i686_IRQ_RegisterHandler, i686_IRQ_Unmask
    <3>3. CASE Taken \/ Spurious \/ Wild
      BY <3>3 DEF Taken, Interrupt, Spurious, Wild
    <3>4. CASE i686_ISR_Handler \/ i8259_SendEndOfInterrupt \/ iret
      BY <3>4 DEF i686_ISR_Handler, i8259_SendEndOfInterrupt, iret
    <3>5. CASE UNCHANGED vars
      BY <3>5 DEF vars
    <3> QED BY <1>4, <3>1, <3>2, <3>3, <3>4, <3>5
  <2> QED BY <2>1, SameBytes
<1> QED BY <1>1, <1>2, <1>3, <1>4 DEF Next, Handling

\* Each byte is decoded as what was meant when its key went down, however many
\* bytes wait and whatever comes in between, for every keyboard that the tables
\* fit: the flags that the handler has are those of the keyboard at the byte it
\* is at (keyboard.c:66-137).
THEOREM KeysStayDecodedRight ==
    ASSUME Layout
    PROVE  Spec => []DecodesRight
<1>1. DInv => DecodesRight
  BY DEF DInv, DecodesRight
<1>2. IInv /\ DInv /\ [Next]_vars => DInv'
  BY DInductive
<1> QED BY <1>1, <1>2, InitDInv, InitIInv, IInductive, PTL DEF Spec
================================================================================
