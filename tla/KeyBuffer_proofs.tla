-------------------------- MODULE KeyBuffer_proofs --------------------------
(***************************************************************************)
(* Theorems about KeyBuffer.  The lemmas say of any ring, head and tail    *)
(* what storing, putting in front and removing do to the sequence of codes *)
(* it holds; the steps of the specification follow from them.              *)
(***************************************************************************)
EXTENDS KeyBuffer, SequenceTheorems, FiniteSetTheorems, WellFoundedInduction, TLAPS

AnyCode == Codes \cup {KB_WINDOW_QUIT}

(* The requests to quit are the first `asked' codes of the ring. *)
QuitsInFront ==
    /\ asked <= Count
    /\ \A i \in 1..Count : Queued[i] = KB_WINDOW_QUIT <=> i <= asked

KeyInv == KeyTypeOK /\ QuitsInFront

-----------------------------------------------------------------------------
(* No code that a key puts in is the request to quit. *)
LEMMA CodesNotQuit == Codes \subseteq Int /\ KB_WINDOW_QUIT \notin Codes /\ KB_WINDOW_QUIT \in Int
  BY KeyAssumption DEF Codes, KB_WINDOW_QUIT

(* A ring that is read as a sequence. *)
LEMMA RingFacts ==
  ASSUME NEW ring \in [Cell -> AnyCode], NEW h \in Cell, NEW t \in Cell
  PROVE  /\ CountOf(h, t) \in 0..KB_BUFSIZE
         /\ Contents(ring, h, t) \in Seq(AnyCode)
         /\ Len(Contents(ring, h, t)) = CountOf(h, t)
         /\ \A i \in 1..CountOf(h, t) : /\ Place(h, i) \in Cell
                                        /\ Place(h, i) # t
                                        /\ Contents(ring, h, t)[i] = ring[Place(h, i)]
         /\ NextCell(t) = h <=> CountOf(h, t) = KB_BUFSIZE
         /\ t = PrevCell(h) <=> CountOf(h, t) = KB_BUFSIZE
<1>1. CountOf(h, t) \in 0..KB_BUFSIZE
  BY KeyAssumption DEF CountOf, Cell
<1>2. \A i \in 1..CountOf(h, t) : Place(h, i) \in Cell /\ Place(h, i) # t
  BY KeyAssumption DEF CountOf, Place, Cell
<1>3. \A i \in 1..CountOf(h, t) : ring[Place(h, i)] \in AnyCode
  BY <1>2
<1>4. NextCell(t) = h <=> CountOf(h, t) = KB_BUFSIZE
  BY KeyAssumption DEF CountOf, NextCell, Cell
<1>5. t = PrevCell(h) <=> CountOf(h, t) = KB_BUFSIZE
  BY KeyAssumption DEF CountOf, PrevCell, Cell
<1>6. Contents(ring, h, t) \in Seq(AnyCode) /\ Len(Contents(ring, h, t)) = CountOf(h, t)
  BY <1>1, <1>3 DEF Contents
<1> QED  BY <1>1, <1>2, <1>4, <1>5, <1>6 DEF Contents

(* The part of it that speaks of the sequence alone. *)
LEMMA ContentsFacts ==
  ASSUME NEW ring \in [Cell -> AnyCode], NEW h \in Cell, NEW t \in Cell
  PROVE  /\ Contents(ring, h, t) \in Seq(AnyCode)
         /\ Len(Contents(ring, h, t)) = CountOf(h, t)
         /\ \A i \in 1..CountOf(h, t) : Contents(ring, h, t)[i] = ring[Place(h, i)]
BY RingFacts

(* Storing at the tail of a ring that is not full appends. *)
LEMMA StoreAppends ==
  ASSUME NEW ring \in [Cell -> AnyCode], NEW h \in Cell, NEW t \in Cell, NEW c \in AnyCode,
         NextCell(t) # h
  PROVE  Contents([ring EXCEPT ![t] = c], h, NextCell(t)) = Append(Contents(ring, h, t), c)
<1> DEFINE after == [ring EXCEPT ![t] = c]
           q == Contents(ring, h, t)
           r == Contents(after, h, NextCell(t))
           n == CountOf(h, t)
<1>1. after \in [Cell -> AnyCode] /\ NextCell(t) \in Cell
  BY KeyAssumption DEF NextCell, Cell
<1>2. CountOf(h, NextCell(t)) = n + 1 /\ Place(h, n + 1) = t
  BY KeyAssumption DEF CountOf, Place, NextCell, Cell
<1>3. n \in Nat /\ q \in Seq(AnyCode) /\ Len(q) = n
  BY RingFacts DEF Cell
<1>4. r \in Seq(AnyCode) /\ Len(r) = n + 1 /\ \A i \in 1..n + 1 : r[i] = after[Place(h, i)]
  <2> HIDE DEF after, n
  <2>1. /\ r \in Seq(AnyCode)
        /\ Len(r) = CountOf(h, NextCell(t))
        /\ \A i \in 1..CountOf(h, NextCell(t)) : r[i] = after[Place(h, i)]
    BY <1>1, RingFacts
  <2> QED  BY <1>2, <2>1
<1>5. \A i \in 1..n : r[i] = q[i]
  <2> HIDE DEF r
  <2> TAKE i \in 1..n
  <2>1. Place(h, i) \in Cell /\ Place(h, i) # t /\ q[i] = ring[Place(h, i)]
    BY RingFacts
  <2>2. r[i] = after[Place(h, i)]
    BY <1>3, <1>4
  <2> QED  BY <2>1, <2>2
<1>6. r[n + 1] = c
  <2> HIDE DEF r
  <2>1. r[n + 1] = after[t]
    BY <1>2, <1>3, <1>4
  <2> QED  BY <2>1
<1>7. /\ Append(q, c) \in Seq(AnyCode)
      /\ Len(Append(q, c)) = n + 1
      /\ \A i \in 1..n : Append(q, c)[i] = q[i]
      /\ Append(q, c)[n + 1] = c
  BY <1>3, AppendProperties
<1> HIDE DEF q, r, n
<1>8. \A i \in 1..Len(r) : r[i] = Append(q, c)[i]
  BY <1>3, <1>4, <1>5, <1>6, <1>7
<1>9. r = Append(q, c)
  BY <1>4, <1>7, <1>8, SeqEqual
<1> QED  BY <1>9 DEF q, r

(* The first n codes of a sequence, when it has more and when it has not. *)
LEMMA FirstOfFacts ==
  ASSUME NEW q \in Seq(AnyCode), NEW n \in Nat
  PROVE  /\ Len(q) <= n => Deque!FirstOf(q, n) = q
         /\ Len(q) > n => Deque!FirstOf(q, n) = SubSeq(q, 1, n)
BY SubSeqFull DEF Deque!FirstOf

(* r is q's first m codes behind one other. *)
OneBefore(r, q, m) == \A i \in 1..m : r[i + 1] = q[i]

(* Putting a code in front; in a full ring the newest one makes room. *)
LEMMA PutFirst ==
  ASSUME NEW ring \in [Cell -> AnyCode], NEW h \in Cell, NEW t \in Cell, NEW c \in AnyCode,
         NEW u \in Cell, t = PrevCell(h) => u = PrevCell(t), t # PrevCell(h) => u = t,
         NEW m \in Nat, CountOf(h, t) = KB_BUFSIZE => m = KB_BUFSIZE - 1,
         CountOf(h, t) # KB_BUFSIZE => m = CountOf(h, t),
         NEW after \in [Cell -> AnyCode], after[PrevCell(h)] = c,
         \A i \in Cell : i # PrevCell(h) => after[i] = ring[i],
         NEW r, r = Contents(after, PrevCell(h), u)
  PROVE  /\ m <= CountOf(h, t)
         /\ CountOf(PrevCell(h), u) = m + 1
         /\ r \in Seq(AnyCode) /\ Len(r) = m + 1
         /\ r[1] = c
         /\ OneBefore(r, Contents(ring, h, t), m)
<1> DEFINE p == PrevCell(h)
           q == Contents(ring, h, t)
           n == CountOf(h, t)
<1>1. p \in Cell
  BY KeyAssumption DEF PrevCell, Cell
<1>2. CountOf(p, u) = m + 1 /\ Place(p, 1) = p /\ m <= n
  BY KeyAssumption DEF CountOf, Place, PrevCell, Cell
<1>3. \A i \in 1..m : Place(p, i + 1) = Place(h, i) /\ Place(h, i) # p
  BY KeyAssumption DEF CountOf, Place, PrevCell, Cell
<1>4. n \in 0..KB_BUFSIZE /\ \A i \in 1..n : Place(h, i) \in Cell /\ q[i] = ring[Place(h, i)]
  BY RingFacts
<1>5. r \in Seq(AnyCode) /\ Len(r) = m + 1 /\ \A i \in 1..m + 1 : r[i] = after[Place(p, i)]
  <2>1. r = Contents(after, p, u)
    OBVIOUS
  <2> HIDE DEF p
  <2>2. /\ r \in Seq(AnyCode)
        /\ Len(r) = CountOf(p, u)
        /\ \A i \in 1..CountOf(p, u) : r[i] = after[Place(p, i)]
    BY ONLY <1>1, <2>1, u \in Cell, after \in [Cell -> AnyCode], ContentsFacts
  <2> QED  BY <1>2, <2>2
<1>6. r[1] = c
  <2>1. r[1] = after[p]
    <3> HIDE DEF p, n, q
    <3> QED  BY ONLY <1>2, <1>5, m \in Nat
  <2> QED  BY <1>1, <2>1
<1>7. OneBefore(r, q, m)
  <2> SUFFICES ASSUME NEW i \in 1..m PROVE r[i + 1] = q[i]
    BY DEF OneBefore
  <2>1. i \in 1..n /\ i + 1 \in 1..m + 1
    BY <1>2, <1>4
  <2>2. r[i + 1] = after[Place(h, i)] /\ Place(h, i) # p /\ Place(h, i) \in Cell
    BY <1>3, <1>4, <1>5, <2>1
  <2> QED  BY <1>4, <2>1, <2>2
<1> QED  BY <1>2, <1>5, <1>6, <1>7

(* Removing the first k codes. *)
LEMMA RemoveFirstCodes ==
  ASSUME NEW ring \in [Cell -> AnyCode], NEW h \in Cell, NEW t \in Cell,
         NEW k \in {1, 2}, k <= CountOf(h, t),
         NEW g \in Cell, g = IF k = 2 THEN NextCell(NextCell(h)) ELSE NextCell(h)
  PROVE  /\ CountOf(g, t) = CountOf(h, t) - k
         /\ Contents(ring, g, t) = SubSeq(Contents(ring, h, t), k + 1, CountOf(h, t))
<1> DEFINE q == Contents(ring, h, t)
           r == Contents(ring, g, t)
           n == CountOf(h, t)
           s == SubSeq(q, k + 1, n)
<1>1. n \in 0..KB_BUFSIZE /\ q \in Seq(AnyCode) /\ Len(q) = n
      /\ \A i \in 1..n : q[i] = ring[Place(h, i)]
  BY RingFacts
<1>2. CountOf(g, t) = n - k
  BY KeyAssumption DEF CountOf, NextCell, Cell
<1>3. \A i \in 1..n - k : Place(g, i) = Place(h, i + k)
  BY KeyAssumption DEF CountOf, Place, NextCell, Cell
<1>4. r \in Seq(AnyCode) /\ Len(r) = n - k /\ \A i \in 1..n - k : r[i] = ring[Place(g, i)]
  <2> HIDE DEF n
  <2>1. /\ r \in Seq(AnyCode)
        /\ Len(r) = CountOf(g, t)
        /\ \A i \in 1..CountOf(g, t) : r[i] = ring[Place(g, i)]
    BY ONLY ring \in [Cell -> AnyCode], g \in Cell, t \in Cell, ContentsFacts
  <2> QED  BY <1>2, <2>1
<1>5. /\ s \in Seq(AnyCode)
      /\ Len(s) = n - k
      /\ \A i \in 1..n - k : s[i] = q[i + k]
  <2> HIDE DEF n, q
  <2>1. \A i \in k + 1..n : q[i] \in AnyCode
    BY <1>1, ElementOfSeq
  <2>2. /\ s \in Seq(AnyCode)
        /\ Len(s) = IF k + 1 <= n THEN n - (k + 1) + 1 ELSE 0
        /\ \A i \in 1..n - (k + 1) + 1 : s[i] = q[k + 1 + i - 1]
    BY <1>1, <2>1, SubSeqProperties
  <2>3. k <= n
    BY DEF n
  <2> QED  BY <1>1, <2>2, <2>3
<1> HIDE DEF q, r, n, s
<1>6. \A i \in 1..Len(r) : r[i] = s[i]
  <2> TAKE i \in 1..Len(r)
  <2>1. i \in 1..n - k /\ i + k \in 1..n
    BY <1>1, <1>4
  <2>2. r[i] = ring[Place(h, i + k)]
    BY <1>3, <1>4, <2>1
  <2>3. s[i] = q[i + k] /\ q[i + k] = ring[Place(h, i + k)]
    BY <1>1, <1>5, <2>1
  <2> QED  BY <2>2, <2>3
<1>7. r = s
  BY <1>4, <1>5, <1>6, SeqEqual
<1> QED  BY <1>2, <1>7 DEF r, s, q, n

-----------------------------------------------------------------------------
(* The type invariant, and what the lemmas above need of it. *)
LEMMA TypeFacts ==
  ASSUME KeyTypeOK
  PROVE  /\ kbbuffer \in [Cell -> AnyCode] /\ kbhead \in Cell /\ kbtail \in Cell
         /\ Count \in 0..KB_BUFSIZE /\ Queued \in Seq(AnyCode) /\ Len(Queued) = Count
<1>1. kbbuffer \in [Cell -> AnyCode] /\ kbhead \in Cell /\ kbtail \in Cell
  BY DEF KeyTypeOK, AnyCode
<1> QED  BY <1>1, RingFacts DEF Count, Queued

LEMMA TypeInit == Init => KeyTypeOK
<1> SUFFICES ASSUME Init PROVE KeyTypeOK
  OBVIOUS
<1>1. kbbuffer \in [Cell -> Codes \cup {KB_WINDOW_QUIT}]
  BY DEF Init, Codes, KB_WINDOW_QUIT
<1>2. kbhead \in Cell /\ kbtail \in Cell /\ asked \in 0..KB_BUFSIZE
  BY KeyAssumption DEF Init, Cell
<1>3. text \in Seq(Chars) /\ typing \in Seq(Codes) /\ lossy \in BOOLEAN
  BY EmptySeq DEF Init
<1> QED  BY <1>1, <1>2, <1>3 DEF KeyTypeOK

(* Every character but the request to quit, and every key that has none,   *)
(* appends codes.                                                          *)
LEMMA PressedCodes ==
  /\ \A char \in Chars : Signed(char) # KB_WINDOW_QUIT => <<Signed(char)>> \in Seq(Codes)
  /\ \A keycode \in Keycodes : <<0, keycode>> \in Seq(Codes)
<1>1. ASSUME NEW char \in Chars, Signed(char) # KB_WINDOW_QUIT PROVE Signed(char) \in Codes
  BY <1>1 DEF Codes, Chars, Signed
<1>2. ASSUME NEW keycode \in Keycodes PROVE <<0, keycode>> \in Seq(Codes)
  BY DEF Codes, KB_WINDOW_QUIT
<1> QED  BY <1>1, <1>2

(* What is left of a text. *)
LEMMA TextLeft ==
  ASSUME KeyTypeOK, text # <<>>
  PROVE  Head(text) \in Chars /\ Tail(text) \in Seq(Chars)
BY HeadTailProperties DEF KeyTypeOK

(* The request to quit moves head, and tail in a full ring. *)
LEMMA QuitKeepsType ==
  ASSUME KeyTypeOK, QuitInFront, text' \in Seq(Chars)
  PROVE  KeyTypeOK'
<1> USE DEF KeyTypeOK
<1>1. PrevCell(kbhead) \in Cell /\ PrevCell(kbtail) \in Cell
  BY KeyAssumption DEF PrevCell, Cell
<1>2. kbhead' \in Cell /\ kbtail' \in Cell /\ kbbuffer' \in [Cell -> Codes \cup {KB_WINDOW_QUIT}]
  BY <1>1 DEF QuitInFront
<1>3. asked' \in 0..KB_BUFSIZE /\ lossy' \in BOOLEAN
  BY KeyAssumption DEF QuitInFront
<1> QED  BY <1>2, <1>3 DEF QuitInFront

LEMMA TypeStep ==
  ASSUME KeyTypeOK, [Next]_vars
  PROVE  KeyTypeOK'
<1> USE DEF KeyTypeOK
<1>1. ASSUME NEW looked \in Texts, PressText(looked) PROVE KeyTypeOK'
  <2>1. looked \in Seq(Chars)
    BY KeyAssumption
  <2> QED  BY <1>1, <2>1 DEF PressText, ringVars, history
<1>2. ASSUME NEW keycode \in Keycodes, PressSpecial(keycode) PROVE KeyTypeOK'
  BY <1>2, PressedCodes DEF PressSpecial, Press, ringVars
<1>8. CASE TypeChar
  <2>1. Head(text) \in Chars /\ text' \in Seq(Chars) /\ typing' = <<Signed(Head(text))>>
        /\ Signed(Head(text)) # KB_WINDOW_QUIT
    BY <1>8, TextLeft DEF TypeChar, Press
  <2>2. typing' \in Seq(Codes)
    BY <2>1, PressedCodes
  <2> QED  BY <1>8, <2>1, <2>2 DEF TypeChar, Press, ringVars
<1>9. CASE TypeQuit
  BY <1>9, TextLeft, QuitKeepsType DEF TypeQuit
<1>3. CASE AppendCode
  <2>1. NextCell(kbtail) \in Cell
    BY KeyAssumption DEF NextCell, Cell
  <2> QED  BY <1>3, <2>1 DEF AppendCode, history
<1>4. CASE LoseCode
  BY <1>4 DEF LoseCode, ringVars
<1>5. CASE CloseClicked
  BY <1>5, QuitKeepsType DEF CloseClicked
<1>6. CASE Getch
  <2>1. NextCell(kbhead) \in Cell /\ NextCell(NextCell(kbhead)) \in Cell
    BY KeyAssumption DEF NextCell, Cell
  <2>2. asked' \in 0..KB_BUFSIZE
    BY <1>6, KeyAssumption DEF Getch
  <2> QED  BY <1>6, <2>1, <2>2 DEF Getch
<1>7. CASE UNCHANGED vars
  BY <1>7 DEF vars, ringVars, history
<1> QED  BY <1>1, <1>2, <1>3, <1>4, <1>5, <1>6, <1>7, <1>8, <1>9 DEF Next

(* The type invariant holds in every reachable state, for every size of    *)
(* the ring and every set of keys.                                         *)
THEOREM KeyTypeCorrect == Spec => []KeyTypeOK
<1>1. Init => KeyTypeOK  BY TypeInit
<1>2. KeyTypeOK /\ [Next]_vars => KeyTypeOK'  BY TypeStep
<1> QED  BY <1>1, <1>2, PTL DEF Spec

-----------------------------------------------------------------------------
(* What each operation does to the codes the ring holds. *)
LEMMA AppendCodes ==
  ASSUME KeyTypeOK, AppendCode
  PROVE  /\ Head(typing) \in Codes
         /\ Queued' = Append(Queued, Head(typing))
         /\ Count' = Count + 1 /\ Count < KB_BUFSIZE
<1>1. Head(typing) \in Codes /\ Head(typing) \in AnyCode
  BY DEF KeyTypeOK, AppendCode, AnyCode
<1>2. Queued' = Append(Queued, Head(typing))
  BY <1>1, TypeFacts, StoreAppends DEF AppendCode, Queued
<1>3. Count' = Count + 1 /\ Count < KB_BUFSIZE
  BY KeyAssumption DEF KeyTypeOK, AppendCode, Count, CountOf, NextCell, Cell
<1> QED  BY <1>1, <1>2, <1>3

LEMMA QuitPutInFront ==
  ASSUME KeyTypeOK, QuitInFront,
         NEW m \in Nat, Count = KB_BUFSIZE => m = KB_BUFSIZE - 1, Count # KB_BUFSIZE => m = Count
  PROVE  /\ m <= Count /\ Count' = m + 1
         /\ Queued' \in Seq(AnyCode) /\ Len(Queued') = m + 1
         /\ Queued'[1] = KB_WINDOW_QUIT
         /\ OneBefore(Queued', Queued, m)
<1> DEFINE c == KB_WINDOW_QUIT
           u == kbtail'
           r == Queued'
           after == kbbuffer'
<1>1. c \in AnyCode
  BY DEF AnyCode
<1>2. /\ u \in Cell
      /\ kbtail = PrevCell(kbhead) => u = PrevCell(kbtail)
      /\ kbtail # PrevCell(kbhead) => u = kbtail
  BY KeyAssumption DEF KeyTypeOK, QuitInFront, PrevCell, Cell
<1>3. /\ kbhead' = PrevCell(kbhead)
      /\ kbbuffer' = [kbbuffer EXCEPT ![PrevCell(kbhead)] = c]
  BY DEF QuitInFront
<1>4. /\ after \in [Cell -> AnyCode]
      /\ after[PrevCell(kbhead)] = c
      /\ \A i \in Cell : i # PrevCell(kbhead) => after[i] = kbbuffer[i]
      /\ r = Contents(after, PrevCell(kbhead), u)
  <2>1. kbbuffer \in [Cell -> AnyCode] /\ PrevCell(kbhead) \in Cell
    BY KeyAssumption DEF KeyTypeOK, AnyCode, PrevCell, Cell
  <2> QED  BY <1>1, <1>3, <2>1 DEF Queued
<1>5. /\ CountOf(kbhead, kbtail) = KB_BUFSIZE => m = KB_BUFSIZE - 1
      /\ CountOf(kbhead, kbtail) # KB_BUFSIZE => m = CountOf(kbhead, kbtail)
  BY DEF Count
<1>6. Count' = CountOf(PrevCell(kbhead), u)
  BY <1>3 DEF Count
<1>7. kbbuffer \in [Cell -> AnyCode] /\ kbhead \in Cell /\ kbtail \in Cell
  BY TypeFacts
<1> HIDE DEF c, u, r, after
<1>8. /\ m <= CountOf(kbhead, kbtail)
      /\ CountOf(PrevCell(kbhead), u) = m + 1
      /\ r \in Seq(AnyCode) /\ Len(r) = m + 1
      /\ r[1] = c
      /\ OneBefore(r, Contents(kbbuffer, kbhead, kbtail), m)
  BY ONLY <1>1, <1>2, <1>4, <1>5, <1>7, m \in Nat, PutFirst
<1> QED  BY <1>6, <1>8 DEF Count, Queued, c, r

LEMMA GetchTakes ==
  ASSUME KeyTypeOK, Getch, NEW k \in {1, 2}, k = IF TakesTwo THEN 2 ELSE 1
  PROVE  /\ k <= Count
         /\ taken' = SubSeq(Queued, 1, k)
         /\ Queued' = SubSeq(Queued, k + 1, Len(Queued))
         /\ Count' = Count - k
<1>1. k <= Count /\ taken' = SubSeq(Queued, 1, k)
  BY TypeFacts DEF Getch, TakesTwo, Waiting
<1>2. kbhead' \in Cell /\ kbhead' = (IF k = 2 THEN NextCell(NextCell(kbhead)) ELSE NextCell(kbhead))
      /\ kbbuffer' = kbbuffer /\ kbtail' = kbtail
  BY KeyAssumption DEF KeyTypeOK, Getch, NextCell, Cell
<1>3. /\ CountOf(kbhead', kbtail) = CountOf(kbhead, kbtail) - k
      /\ Contents(kbbuffer, kbhead', kbtail)
           = SubSeq(Contents(kbbuffer, kbhead, kbtail), k + 1, CountOf(kbhead, kbtail))
  BY <1>1, <1>2, TypeFacts, RemoveFirstCodes DEF Count
<1> QED  BY <1>1, <1>2, <1>3, TypeFacts DEF Queued, Count

(* A step that leaves the ring alone leaves its codes alone. *)
LEMMA RingKept ==
  ASSUME UNCHANGED ringVars
  PROVE  Queued' = Queued /\ Count' = Count
BY DEF ringVars, Queued, Count

(* The ring implements the double-ended queue, for every size: each step   *)
(* is one of its steps or changes nothing it shows.                        *)
THEOREM RefinesDeque == Spec => ImplementsDeque
<1>1. Init => Deque!DequeInit
  BY DEF Init, Deque!DequeInit, Queued, Contents, CountOf
<1>2. ASSUME KeyTypeOK, [Next]_vars
      PROVE  [Deque!DequeNext]_(Deque!dequeVars)
  <2>1. ASSUME UNCHANGED <<ringVars, taken>> PROVE UNCHANGED Deque!dequeVars
    BY <2>1, RingKept DEF Deque!dequeVars
  <2>2. ASSUME NEW looked \in Texts, PressText(looked) PROVE UNCHANGED Deque!dequeVars
    BY <2>1, <2>2 DEF PressText
  <2>3. ASSUME NEW keycode \in Keycodes, PressSpecial(keycode) PROVE UNCHANGED Deque!dequeVars
    BY <2>1, <2>3 DEF PressSpecial, Press
  <2>9. CASE TypeChar
    BY <2>1, <2>9 DEF TypeChar, Press
  <2>4. CASE AppendCode
    <3> DEFINE q == Append(Queued, Head(typing))
    <3>1. Head(typing) \in Codes /\ Queued' = q /\ Count < KB_BUFSIZE
      BY <1>2, <2>4, AppendCodes
    <3>2. q \in Seq(AnyCode) /\ Len(q) = Count + 1
      BY <1>2, <3>1, TypeFacts, AppendProperties DEF AnyCode
    <3>3. Deque!FirstOf(q, KB_BUFSIZE) = q
      <4> HIDE DEF q
      <4>1. Len(q) <= KB_BUFSIZE /\ KB_BUFSIZE \in Nat
        BY <1>2, <3>1, <3>2, TypeFacts, KeyAssumption
      <4> QED  BY <3>2, <4>1, FirstOfFacts
    <3>4. UNCHANGED taken
      BY <2>4 DEF AppendCode
    <3> QED  BY <3>1, <3>3, <3>4 DEF Deque!DequeNext, Deque!AddCodes
  <2>5. CASE LoseCode
    BY <2>1, <2>5 DEF LoseCode
  <2>6. CASE CloseClicked \/ TypeQuit
    <3>q. QuitInFront
      BY <2>6 DEF CloseClicked, TypeQuit
    <3>0. PICK m \in Nat : /\ Count = KB_BUFSIZE => m = KB_BUFSIZE - 1
                           /\ Count # KB_BUFSIZE => m = Count
      BY <1>2, TypeFacts, KeyAssumption
    <3> DEFINE f == Deque!FirstOf(Queued, KB_BUFSIZE - 1)
               one == <<KB_WINDOW_QUIT>>
    <3>1. /\ m <= Count
          /\ Queued' \in Seq(AnyCode) /\ Len(Queued') = m + 1
          /\ Queued'[1] = KB_WINDOW_QUIT
          /\ \A i \in 1..m : Queued'[i + 1] = Queued[i]
      BY <1>2, <3>q, <3>0, QuitPutInFront DEF OneBefore
    <3>2. f \in Seq(AnyCode) /\ Len(f) = m /\ \A i \in 1..m : f[i] = Queued[i]
      <4>1. f = SubSeq(Queued, 1, m)
        <5>1. Queued \in Seq(AnyCode) /\ Len(Queued) = Count /\ Count \in 0..KB_BUFSIZE
              /\ KB_BUFSIZE - 1 \in Nat
          BY <1>2, TypeFacts, KeyAssumption
        <5>2. CASE Count = KB_BUFSIZE
          BY <3>0, <5>1, <5>2, FirstOfFacts
        <5>3. CASE Count # KB_BUFSIZE
          <6>1. Len(Queued) <= KB_BUFSIZE - 1 /\ m = Len(Queued)
            BY <3>0, <5>1, <5>3, KeyAssumption
          <6>2. f = Queued
            BY <5>1, <6>1, FirstOfFacts
          <6>3. SubSeq(Queued, 1, Len(Queued)) = Queued
            BY <5>1, SubSeqFull
          <6> HIDE DEF f
          <6> QED  BY <6>1, <6>2, <6>3
        <5> QED  BY <5>2, <5>3
      <4>2. \A i \in 1..m : Queued[i] \in AnyCode
        BY <1>2, <3>1, TypeFacts, ElementOfSeq
      <4> HIDE DEF f
      <4> QED  BY <3>1, <4>1, <4>2, SubSeqProperties
    <3>3. one \in Seq(AnyCode) /\ Len(one) = 1 /\ one[1] = KB_WINDOW_QUIT
      BY DEF AnyCode
    <3> HIDE DEF f, one
    <3>4. /\ one \o f \in Seq(AnyCode)
          /\ Len(one \o f) = 1 + m
          /\ \A i \in 1..1 + m : (one \o f)[i] = IF i <= 1 THEN one[i] ELSE f[i - 1]
      BY <3>2, <3>3, ConcatProperties, SMTT(30)
    <3>5. ASSUME NEW i \in 1..Len(Queued') PROVE Queued'[i] = (one \o f)[i]
      <4>1. CASE i = 1
        BY <3>1, <3>3, <3>4, <4>1
      <4>2. CASE i # 1
        <5>1. i - 1 \in 1..m /\ (i - 1) + 1 = i /\ i \in 1..1 + m /\ ~(i <= 1)
          BY <3>1, <4>2
        <5>2. (one \o f)[i] = f[i - 1] /\ f[i - 1] = Queued[i - 1]
          BY <3>2, <3>4, <5>1
        <5>3. Queued'[i] = Queued[i - 1]
          BY <3>1, <5>1
        <5> QED  BY <5>2, <5>3
      <4> QED  BY <4>1, <4>2
    <3>6. Queued' = one \o f
      <4>1. Len(Queued') = Len(one \o f)
        BY <3>1, <3>4
      <4>2. \A i \in 1..Len(Queued') : Queued'[i] = (one \o f)[i]
        BY <3>5
      <4> QED  BY <3>1, <3>4, <4>1, <4>2, SeqEqual
    <3>7. UNCHANGED taken
      BY <3>q DEF QuitInFront
    <3> QED  BY <3>6, <3>7 DEF Deque!DequeNext, Deque!PutQuitFirst, one, f
  <2>7. CASE Getch
    <3>1. PICK k \in {1, 2} : k = IF TakesTwo THEN 2 ELSE 1
      OBVIOUS
    <3>2. k <= Len(Queued) /\ taken' = SubSeq(Queued, 1, k)
          /\ Queued' = SubSeq(Queued, k + 1, Len(Queued))
      BY <1>2, <2>7, <3>1, GetchTakes, TypeFacts
    <3>3. Deque!Take(k)
      BY <3>2 DEF Deque!Take
    <3> QED  BY <3>1, <3>3 DEF Deque!DequeNext
  <2>8. CASE UNCHANGED vars
    BY <2>1, <2>8 DEF vars
  <2> QED  BY <1>2, <2>2, <2>3, <2>4, <2>5, <2>6, <2>7, <2>8, <2>9 DEF Next
<1> QED  BY <1>1, <1>2, KeyTypeCorrect, PTL DEF Spec, ImplementsDeque, Deque!DequeSpec

-----------------------------------------------------------------------------
(* QuitsInFront of a sequence: its first n elements are requests to quit,  *)
(* and no others are.                                                      *)
Fronted(q, n) == n <= Len(q) /\ \A i \in 1..Len(q) : q[i] = KB_WINDOW_QUIT <=> i <= n

LEMMA QuitsStep ==
  ASSUME KeyInv, [Next]_vars
  PROVE  QuitsInFront'
<1> USE DEF KeyInv
<1>0. KeyTypeOK' /\ asked \in Nat
  BY TypeStep DEF KeyTypeOK
<1>a. /\ Queued \in Seq(AnyCode) /\ Len(Queued) = Count /\ Count \in 0..KB_BUFSIZE
  BY TypeFacts
<1>b. Fronted(Queued, asked)
  BY <1>a DEF QuitsInFront, Fronted
<1>c. ASSUME Count' = Len(Queued'), Fronted(Queued', asked') PROVE QuitsInFront'
  BY <1>c DEF QuitsInFront, Fronted
<1>1. ASSUME UNCHANGED ringVars, UNCHANGED asked PROVE QuitsInFront'
  BY <1>1, <1>a, <1>b, <1>c, RingKept
<1>2. ASSUME NEW looked \in Texts, PressText(looked) PROVE QuitsInFront'
  BY <1>1, <1>2 DEF PressText, history
<1>3. ASSUME NEW keycode \in Keycodes, PressSpecial(keycode) PROVE QuitsInFront'
  BY <1>1, <1>3 DEF PressSpecial, Press
<1>9. CASE TypeChar
  BY <1>1, <1>9 DEF TypeChar, Press
<1>4. CASE AppendCode
  <2>1. Head(typing) \in Codes /\ Queued' = Append(Queued, Head(typing)) /\ Count' = Count + 1
    BY <1>4, AppendCodes
  <2>2. Head(typing) # KB_WINDOW_QUIT /\ Head(typing) \in AnyCode
    BY <2>1, CodesNotQuit DEF AnyCode
  <2>3. /\ Len(Queued') = Count + 1
        /\ \A i \in 1..Count : Queued'[i] = Queued[i]
        /\ Queued'[Count + 1] # KB_WINDOW_QUIT
    BY <1>a, <2>1, <2>2, AppendProperties
  <2>4. asked' = asked
    BY <1>4 DEF AppendCode, history
  <2>5. Fronted(Queued', asked')
    <3> SUFFICES ASSUME NEW i \in 1..Count + 1
                 PROVE  Queued'[i] = KB_WINDOW_QUIT <=> i <= asked
      BY <1>0, <1>a, <1>b, <2>3, <2>4 DEF Fronted
    <3>1. CASE i = Count + 1
      BY <1>0, <1>a, <1>b, <2>3, <3>1 DEF Fronted
    <3>2. CASE i \in 1..Count
      BY <1>a, <1>b, <2>3, <3>2 DEF Fronted
    <3> QED  BY <1>a, <3>1, <3>2
  <2> QED  BY <1>c, <2>1, <2>3, <2>5
<1>5. CASE LoseCode
  BY <1>1, <1>5 DEF LoseCode
<1>6. CASE CloseClicked \/ TypeQuit
  <2>q. QuitInFront
    BY <1>6 DEF CloseClicked, TypeQuit
  <2>0. PICK m \in Nat : /\ Count = KB_BUFSIZE => m = KB_BUFSIZE - 1
                         /\ Count # KB_BUFSIZE => m = Count
    BY <1>a, KeyAssumption
  <2>1. /\ m <= Count /\ Count' = m + 1
        /\ Len(Queued') = m + 1
        /\ Queued'[1] = KB_WINDOW_QUIT
        /\ \A i \in 1..m : Queued'[i + 1] = Queued[i]
    BY <2>q, <2>0, QuitPutInFront DEF OneBefore
  <2>2. asked' = (IF asked < KB_BUFSIZE THEN asked + 1 ELSE asked)
    BY <2>q DEF QuitInFront
  <2>3. asked' <= m + 1 /\ asked' \in Nat /\ asked' > 0
        /\ \A i \in 1..m : i <= asked <=> i + 1 <= asked'
    BY <1>0, <1>a, <1>b, <2>0, <2>1, <2>2, KeyAssumption DEF Fronted, KeyTypeOK
  <2>4. Fronted(Queued', asked')
    <3> SUFFICES ASSUME NEW i \in 1..m + 1
                 PROVE  Queued'[i] = KB_WINDOW_QUIT <=> i <= asked'
      BY <2>1, <2>3 DEF Fronted
    <3>1. CASE i = 1
      BY <2>1, <2>3, <3>1
    <3>2. CASE i # 1
      <4>1. i - 1 \in 1..m /\ (i - 1) + 1 = i /\ i - 1 \in 1..Len(Queued)
        BY <1>a, <2>1, <3>2
      <4>2. Queued'[i] = Queued[i - 1]
        BY <2>1, <4>1
      <4> QED  BY <1>b, <2>3, <4>1, <4>2 DEF Fronted
    <3> QED  BY <3>1, <3>2
  <2> QED  BY <1>c, <2>1, <2>4
<1>7. CASE Getch
  <2>1. PICK k \in {1, 2} : k = IF TakesTwo THEN 2 ELSE 1
    OBVIOUS
  <2>2. k <= Count /\ Queued' = SubSeq(Queued, k + 1, Len(Queued)) /\ Count' = Count - k
    BY <1>7, <2>1, GetchTakes
  <2>3. /\ Len(Queued') = Count - k
        /\ \A i \in 1..Count - k : Queued'[i] = Queued[i + k]
    <3>1. \A i \in k + 1..Count : Queued[i] \in AnyCode
      BY <1>a, ElementOfSeq
    <3>2. /\ Len(Queued') = IF k + 1 <= Count THEN Count - (k + 1) + 1 ELSE 0
          /\ \A i \in 1..Count - (k + 1) + 1 : Queued'[i] = Queued[k + 1 + i - 1]
      BY <1>a, <2>2, <3>1, SubSeqProperties
    <3> QED  BY <1>a, <2>2, <3>2
  <2>4. asked' = (IF asked > 0 THEN asked - 1 ELSE asked) /\ (k = 2 => asked = 0)
    <3>1. TakesTwo => asked = 0
      BY <1>0, <1>a, <1>b, CodesNotQuit DEF TakesTwo, Fronted, KB_WINDOW_QUIT
    <3> QED  BY <1>7, <2>1, <3>1 DEF Getch
  <2>5. Fronted(Queued', asked')
    <3>1. asked' <= Count - k
      BY <1>0, <1>a, <1>b, <2>2, <2>4 DEF Fronted
    <3>2. ASSUME NEW i \in 1..Count - k
          PROVE  Queued'[i] = KB_WINDOW_QUIT <=> i <= asked'
      <4>1. i + k \in 1..Len(Queued)
        BY <1>a, <2>2
      <4>2. i + k <= asked <=> i <= asked'
        BY <1>0, <2>4
      <4> QED  BY <1>b, <2>3, <4>1, <4>2 DEF Fronted
    <3> QED  BY <2>3, <3>1, <3>2 DEF Fronted
  <2> QED  BY <1>c, <2>2, <2>3, <2>5
<1>8. CASE UNCHANGED vars
  BY <1>1, <1>8 DEF vars, history
<1> QED  BY <1>2, <1>3, <1>4, <1>5, <1>6, <1>7, <1>8, <1>9 DEF Next

(* getch returns the request to quit exactly while one waits, of a click   *)
(* or of the character 0xFE, for every size of the ring and all texts.     *)
THEOREM QuitsFirst == Spec => QuitComesFirst
<1>1. Init => KeyInv
  BY TypeInit DEF Init, KeyInv, QuitsInFront, Count, CountOf
<1>2. KeyInv /\ [Next]_vars => KeyInv'
  BY TypeStep, QuitsStep DEF KeyInv
<1>3. ASSUME KeyInv, Getch PROVE got' = KB_WINDOW_QUIT <=> asked > 0
  <2>1. Count > 0 /\ got' = Answer
    BY <1>3 DEF Getch, Waiting
  <2>2. Queued \in Seq(AnyCode) /\ Len(Queued) = Count /\ Count \in Nat /\ asked \in Nat
    BY <1>3, TypeFacts DEF KeyInv, KeyTypeOK
  <2>3. Queued[1] = KB_WINDOW_QUIT <=> asked > 0
    BY <1>3, <2>1, <2>2 DEF KeyInv, QuitsInFront
  <2>4. CASE Queued[1] # 0
    <3>1. Queued[1] \in Int
      <4>1. AnyCode \subseteq Int /\ Queued[1] \in AnyCode
        BY <2>1, <2>2, CodesNotQuit, ElementOfSeq DEF AnyCode
      <4> QED  BY <4>1
    <3>2. Answer = KB_WINDOW_QUIT <=> Queued[1] = KB_WINDOW_QUIT
      BY <2>4, <3>1 DEF Answer, LastTaken, KB_WINDOW_QUIT
    <3> QED  BY <2>1, <2>3, <3>2
  <2>5. CASE Queued[1] = 0
    <3>1. asked = 0 /\ KB_WINDOW_QUIT # 0
      BY <2>2, <2>3, <2>5 DEF KB_WINDOW_QUIT
    <3>2. Second \in Int /\ Second # KB_WINDOW_QUIT
      <4>1. CASE Count > 1
        <5>1. Queued[2] \in AnyCode /\ Queued[2] # KB_WINDOW_QUIT
          BY <1>3, <2>2, <3>1, <4>1, ElementOfSeq DEF KeyInv, QuitsInFront
        <5>2. Queued[2] \in Int
          <6>1. AnyCode \subseteq Int
            BY CodesNotQuit DEF AnyCode
          <6> QED  BY <5>1, <6>1
        <5> QED  BY <4>1, <5>1, <5>2 DEF Second
      <4>2. CASE ~(Count > 1)
        BY <4>2 DEF Second, KB_EMPTY, KB_WINDOW_QUIT
      <4> QED  BY <4>1, <4>2
    <3>3. Answer = IF Second > 0 THEN Special(Second) ELSE 0
      BY <2>5, <3>1, <3>2 DEF Answer, LastTaken
    <3>4. Answer # KB_WINDOW_QUIT
      BY <3>2, <3>3 DEF Special, KB_WINDOW_QUIT
    <3> QED  BY <2>1, <2>2, <3>1, <3>4
  <2> QED  BY <2>4, <2>5
<1> QED  BY <1>1, <1>2, <1>3, PTL DEF Spec, QuitComesFirst

-----------------------------------------------------------------------------
(* The cells that the first n of these keys take.                          *)
CellsTo(keys, n) == n + Cardinality({i \in 1..n : keys[i] >= 256})

Cells(key) == IF key >= 256 THEN 2 ELSE 1

(* A key's codes stand at position p.                                      *)
KeyAt(codes, p, key) ==
    IF key >= 256 THEN key - 256 \in Keycodes /\ codes[p] = 0 /\ codes[p + 1] = key - 256
                  ELSE codes[p] # 0 /\ key = Shown(codes[p])

(* The codes of these keys stand one behind the other after position at.   *)
Shows(codes, at, keys) ==
    \A i \in 1..Len(keys) : KeyAt(codes, at + CellsTo(keys, i - 1) + 1, keys[i])

(* A set of positions has a least one: the library's order of finite sets  *)
(* has no infinite descent.                                                *)
LEMMA LeastExists ==
    ASSUME NEW n \in Nat, NEW s \in SUBSET (1..n), s # {}
    PROVE  \E i \in s : \A j \in s : i <= j
<1> DEFINE S == 1..n
           R == StrictSubsetOrdering(S)
           T == {1..i : i \in s}
<1>1. IsWellFoundedOn(R, FiniteSubsetsOf(S))
    BY FS_StrictSubsetOrderingWellFounded
<1>2. IsFiniteSet(S)
    BY FS_Interval
<1>3. T \subseteq FiniteSubsetsOf(S) /\ T # {}
    <2>1. \A i \in s : 1..i \subseteq S
        OBVIOUS
    <2>2. \A x \in SUBSET S : IsFiniteSet(x)
        BY <1>2, FS_Subset
    <2> QED BY <2>1, <2>2 DEF FiniteSubsetsOf
<1>4. \A x, y \in SUBSET S : x \subseteq y /\ x # y => <<x, y>> \in R
    BY DEF StrictSubsetOrdering
<1> HIDE DEF R
<1>5. PICK x \in T : \A y \in T : ~ (<<y, x>> \in R)
    BY <1>1, <1>3, WFMin
<1>6. PICK i \in s : x = 1..i
    BY <1>5
<1>7. ASSUME NEW j \in s, j < i PROVE FALSE
    <2>1. 1..j \in T /\ 1..j \subseteq x /\ i \in x /\ i \notin 1..j /\ 1..j \in SUBSET S /\ x \in SUBSET S
        BY <1>6, <1>7
    <2> QED BY <1>4, <1>5, <2>1
<1>8. \A j \in s : j \in Int /\ i \in Int
    OBVIOUS
<1> QED BY <1>7, <1>8

(* Cells are counted key by key.                                           *)
LEMMA CellsFacts ==
  ASSUME NEW keys
  PROVE  /\ CellsTo(keys, 0) = 0
         /\ \A n \in Nat : CellsTo(keys, n) \in Nat /\ CellsTo(keys, n) >= n
         /\ \A n \in Nat : CellsTo(keys, n + 1) = CellsTo(keys, n) + Cells(keys[n + 1])
         /\ \A n \in Nat, m \in Nat : n <= m => CellsTo(keys, n) <= CellsTo(keys, m)
<1> DEFINE S(n) == {i \in 1..n : keys[i] >= 256}
<1>0. \A n : CellsTo(keys, n) = n + Cardinality(S(n))
  BY DEF CellsTo
<1>1. \A n \in Nat : IsFiniteSet(S(n)) /\ Cardinality(S(n)) \in Nat
  <2> TAKE n \in Nat
  <2>1. IsFiniteSet(1..n)
    BY FS_Interval
  <2>2. IsFiniteSet(S(n))
    BY <2>1, FS_Subset
  <2> QED  BY <2>2, FS_CardinalityType
<1>2. S(0) = {} /\ Cardinality(S(0)) = 0
  <2>1. S(0) = {}
    OBVIOUS
  <2> QED  BY <2>1, FS_EmptySet
<1>3. ASSUME NEW n \in Nat
      PROVE  Cardinality(S(n + 1)) = IF keys[n + 1] >= 256 THEN Cardinality(S(n)) + 1 ELSE Cardinality(S(n))
  <2>1. S(n + 1) = IF keys[n + 1] >= 256 THEN S(n) \cup {n + 1} ELSE S(n)
    OBVIOUS
  <2>2. n + 1 \notin S(n)
    OBVIOUS
  <2> HIDE DEF S
  <2> QED  BY <1>1, <2>1, <2>2, FS_AddElement
<1>4. ASSUME NEW n \in Nat, NEW m \in Nat, n <= m PROVE Cardinality(S(n)) <= Cardinality(S(m))
  <2>1. S(n) \in SUBSET S(m)
    BY <1>4
  <2> HIDE DEF S
  <2> QED  BY <1>1, <2>1, FS_Subset
<1> HIDE DEF S
<1>5. CellsTo(keys, 0) = 0
  BY <1>0, <1>2
<1>6. \A n \in Nat : CellsTo(keys, n) \in Nat /\ CellsTo(keys, n) >= n
  BY <1>0, <1>1
<1>7. ASSUME NEW n \in Nat PROVE CellsTo(keys, n + 1) = CellsTo(keys, n) + Cells(keys[n + 1])
  BY <1>0, <1>1, <1>3 DEF Cells
<1>8. ASSUME NEW n \in Nat, NEW m \in Nat, n <= m PROVE CellsTo(keys, n) <= CellsTo(keys, m)
  BY <1>0, <1>1, <1>4, <1>8
<1> QED  BY <1>5, <1>6, <1>7, <1>8

(* Sequences that begin alike take the same cells there.                   *)
LEMMA CellsAlike ==
  ASSUME NEW keys, NEW other, NEW n \in Nat, \A i \in 1..n : other[i] = keys[i]
  PROVE  CellsTo(other, n) = CellsTo(keys, n)
<1>1. {i \in 1..n : other[i] >= 256} = {i \in 1..n : keys[i] >= 256}
  OBVIOUS
<1> QED  BY <1>1 DEF CellsTo

(* Behind the first m keys, all others come up by the cells of these.      *)
LEMMA CellsBehind ==
  ASSUME NEW keys, NEW rest, NEW m \in Nat, NEW n \in Nat, \A i \in 1..n : rest[i] = keys[m + i]
  PROVE  CellsTo(keys, m + n) = CellsTo(keys, m) + CellsTo(rest, n)
<1> DEFINE S == {i \in 1..n : rest[i] >= 256}
           T == {i \in m + 1..m + n : keys[i] >= 256}
           U == {i \in 1..m : keys[i] >= 256}
           V == {i \in 1..m + n : keys[i] >= 256}
           f == [i \in S |-> m + i]
<1>1. /\ IsFiniteSet(S) /\ IsFiniteSet(T) /\ IsFiniteSet(U)
      /\ Cardinality(S) \in Nat /\ Cardinality(U) \in Nat
  <2>1. IsFiniteSet(1..n) /\ IsFiniteSet(m + 1..m + n) /\ IsFiniteSet(1..m)
    BY FS_Interval
  <2>2. IsFiniteSet(S) /\ IsFiniteSet(T) /\ IsFiniteSet(U)
    BY <2>1, FS_Subset
  <2> QED  BY <2>2, FS_CardinalityType
<1>2. Cardinality(T) = Cardinality(S)
  <2>1. f \in Bijection(S, T)
    <3>1. f \in [S -> T]
      OBVIOUS
    <3>2. \A i, j \in S : f[i] = f[j] => i = j
      OBVIOUS
    <3>3. \A j \in T : \E i \in S : f[i] = j
      <4> TAKE j \in T
      <4>1. j - m \in S
        OBVIOUS
      <4>2. f[j - m] = j
        BY <4>1
      <4> QED  BY <4>1, <4>2
    <3> HIDE DEF f, S, T
    <3> QED  BY <3>1, <3>2, <3>3 DEF Bijection, Injection, Surjection, IsInjective
  <2>2. ExistsBijection(S, T)
    BY <2>1 DEF ExistsBijection
  <2> QED  BY <1>1, <2>2, FS_Bijection
<1>3. V = U \cup T /\ U \cap T = {}
  OBVIOUS
<1>4. Cardinality(V) = Cardinality(U) + Cardinality(S)
  <2> HIDE DEF S, T, U, V
  <2>1. Cardinality(U \cup T) = Cardinality(U) + Cardinality(T) - Cardinality(U \cap T)
    BY <1>1, FS_Union
  <2>2. Cardinality(U \cap T) = 0
    BY <1>3, FS_EmptySet
  <2> QED  BY <1>1, <1>2, <1>3, <2>1, <2>2
<1> QED  BY <1>1, <1>4 DEF CellsTo

(* What Whole keeps of the keys: a first part that finds room.             *)
LEMMA WholeFits ==
  ASSUME NEW keys \in Seq(Nat), NEW room \in Nat
  PROVE  \E n \in 0..Len(keys) : Whole(keys, room) = SubSeq(keys, 1, n) /\ CellsTo(keys, n) <= room
<1> DEFINE Fits(n) == /\ CellsOf(SubSeq(keys, 1, n)) <= room
                      /\ n < Len(keys) => CellsOf(SubSeq(keys, 1, n + 1)) > room
<1>1. ASSUME NEW n \in 0..Len(keys)
      PROVE  CellsOf(SubSeq(keys, 1, n)) = CellsTo(keys, n)
  <2> DEFINE s == SubSeq(keys, 1, n)
  <2>1. \A i \in 1..n : keys[i] \in Nat
    BY ElementOfSeq
  <2>2. s \in Seq(Nat) /\ Len(s) = n /\ \A i \in 1..n : s[i] = keys[i]
    BY <2>1, SubSeqProperties
  <2> HIDE DEF s
  <2>3. DOMAIN s = 1..n
    BY <2>2, LenProperties
  <2>4. {i \in DOMAIN s : s[i] >= 256} = {i \in 1..n : keys[i] >= 256}
    BY <2>2, <2>3
  <2>5. CellsOf(s) = CellsTo(keys, n)
    BY <2>2, <2>4 DEF CellsOf, CellsTo
  <2> QED  BY <2>5 DEF s
<1>2. Len(keys) \in Nat
  BY LenProperties
<1>3. \E n \in 0..Len(keys) : CellsTo(keys, n) <= room /\ (n < Len(keys) => CellsTo(keys, n + 1) > room)
  <2> DEFINE over == {n \in 1..Len(keys) : CellsTo(keys, n) > room}
  <2>0. \A n \in 0..Len(keys) : CellsTo(keys, n) \in Nat /\ CellsTo(keys, 0) = 0
    BY <1>2, CellsFacts
  <2>1. CASE over = {}
    <3>1. Len(keys) \in 0..Len(keys) /\ (Len(keys) = 0 \/ Len(keys) \in 1..Len(keys))
      BY <1>2
    <3>2. CellsTo(keys, Len(keys)) <= room
      BY <2>0, <2>1, <3>1
    <3> QED  BY <3>1, <3>2
  <2>2. CASE over # {}
    <3>1. PICK i \in over : \A j \in over : i <= j
      BY <1>2, <2>2, LeastExists
    <3>2. i - 1 \in 0..Len(keys) /\ (i - 1) + 1 = i /\ i - 1 \notin over
      BY <1>2, <3>1
    <3>3. CellsTo(keys, i - 1) <= room
      BY <1>2, <2>0, <3>2
    <3>4. CellsTo(keys, (i - 1) + 1) > room
      BY <3>1, <3>2
    <3> QED  BY <3>2, <3>3, <3>4
  <2> QED  BY <2>1, <2>2
<1>4. \E n \in 0..Len(keys) : Fits(n)
  <2>1. PICK n \in 0..Len(keys) : CellsTo(keys, n) <= room /\ (n < Len(keys) => CellsTo(keys, n + 1) > room)
    BY <1>3
  <2>2. n < Len(keys) => n + 1 \in 0..Len(keys)
    BY <1>2
  <2> QED  BY <1>1, <2>1, <2>2
<1> DEFINE w == CHOOSE n \in 0..Len(keys) : Fits(n)
<1>5. w \in 0..Len(keys) /\ Fits(w)
  <2> HIDE DEF Fits
  <2> QED  BY <1>4
<1>6. Whole(keys, room) = SubSeq(keys, 1, w)
  BY DEF Whole
<1> QED  BY <1>1, <1>5, <1>6

(* The cells of a key lie within those of the keys it is one of.           *)
LEMMA CellsWithin ==
  ASSUME NEW keys, NEW n \in Nat, NEW i \in 1..n
  PROVE  /\ CellsTo(keys, i - 1) \in Nat
         /\ CellsTo(keys, i - 1) + Cells(keys[i]) <= CellsTo(keys, n)
<1>1. i - 1 \in Nat /\ (i - 1) + 1 = i /\ i \in Nat /\ i <= n
  OBVIOUS
<1>2. CellsTo(keys, i) = CellsTo(keys, i - 1) + Cells(keys[i])
  BY <1>1, CellsFacts
<1>3. CellsTo(keys, i) <= CellsTo(keys, n)
  BY <1>1, CellsFacts
<1> QED  BY <1>1, <1>2, <1>3, CellsFacts

(* Where the same codes stand elsewhere, they show the same key.           *)
LEMMA KeyMoved ==
  ASSUME NEW codes, NEW other, NEW key \in Nat, NEW p \in Nat, NEW q \in Nat, KeyAt(codes, p, key),
         \A k \in 0..Cells(key) - 1 : other[q + k] = codes[p + k]
  PROVE  KeyAt(other, q, key)
<1>1. other[q] = codes[p]
  <2>1. 0 \in 0..Cells(key) - 1 /\ q + 0 = q /\ p + 0 = p
    BY DEF Cells
  <2> QED  BY <2>1
<1>2. key >= 256 => other[q + 1] = codes[p + 1]
  BY DEF Cells
<1> QED  BY <1>1, <1>2 DEF KeyAt

(* The first n keys are shown wherever their codes stand. *)
LEMMA ShowsMoved ==
  ASSUME NEW keys \in Seq(Nat), NEW n \in 0..Len(keys), NEW codes, NEW other,
         NEW at \in Nat, NEW to \in Nat, Shows(codes, at, keys),
         \A p \in 1..CellsTo(keys, n) : other[to + p] = codes[at + p]
  PROVE  /\ SubSeq(keys, 1, n) \in Seq(Nat) /\ Len(SubSeq(keys, 1, n)) = n
         /\ CellsTo(SubSeq(keys, 1, n), n) = CellsTo(keys, n)
         /\ Shows(other, to, SubSeq(keys, 1, n))
<1> DEFINE s == SubSeq(keys, 1, n)
<1>1. Len(keys) \in Nat /\ n \in Nat /\ \A i \in 1..n : keys[i] \in Nat
  BY LenProperties, ElementOfSeq
<1>2. s \in Seq(Nat) /\ Len(s) = n /\ \A i \in 1..n : s[i] = keys[i]
  BY <1>1, SubSeqProperties
<1> HIDE DEF s
<1>3. \A i \in 0..n : CellsTo(s, i) = CellsTo(keys, i)
  <2> TAKE i \in 0..n
  <2>1. i \in Nat /\ \A j \in 1..i : s[j] = keys[j]
    BY <1>1, <1>2
  <2> QED  BY <2>1, CellsAlike
<1>4. ASSUME NEW i \in 1..n
      PROVE  KeyAt(other, to + CellsTo(s, i - 1) + 1, s[i])
  <2> DEFINE c == CellsTo(keys, i - 1)
             key == keys[i]
  <2>1. c \in Nat /\ c + Cells(key) <= CellsTo(keys, n) /\ CellsTo(s, i - 1) = c /\ s[i] = key
    BY <1>1, <1>2, <1>3, CellsWithin
  <2>2. key \in Nat /\ KeyAt(codes, at + c + 1, key)
    BY <1>1 DEF Shows
  <2>3. CellsTo(keys, n) \in Nat /\ Cells(key) \in {1, 2}
    BY <1>1, CellsFacts DEF Cells
  <2> HIDE DEF c, key
  <2>4. ASSUME NEW k \in 0..Cells(key) - 1
        PROVE  other[(to + c + 1) + k] = codes[(at + c + 1) + k]
    <3>1. c + 1 + k \in 1..CellsTo(keys, n)
      BY <2>1, <2>3
    <3>2. (to + c + 1) + k = to + (c + 1 + k) /\ (at + c + 1) + k = at + (c + 1 + k)
      BY <2>1, <2>3
    <3> QED  BY <3>1, <3>2
  <2>5. KeyAt(other, to + c + 1, key)
    <3> DEFINE p == at + c + 1
               q == to + c + 1
    <3>1. p \in Nat /\ q \in Nat
      BY <2>1
    <3>2. \A k \in 0..Cells(key) - 1 : other[q + k] = codes[p + k]
      BY <2>4
    <3>3. key \in Nat /\ KeyAt(codes, p, key)
      BY <2>2
    <3> HIDE DEF p, q
    <3>4. KeyAt(other, q, key)
      BY <3>1, <3>2, <3>3, KeyMoved
    <3> QED  BY <3>4 DEF q
  <2> QED  BY <2>1, <2>5
<1>5. Shows(other, to, s)
  BY <1>2, <1>4 DEF Shows
<1>6. CellsTo(s, n) = CellsTo(keys, n)
  BY <1>1, <1>3
<1> QED  BY <1>2, <1>5, <1>6 DEF s

(* All keys but the first, once its codes are gone. *)
LEMMA ShowsTail ==
  ASSUME NEW keys \in Seq(Nat), keys # <<>>, NEW codes, NEW other, Shows(codes, 0, keys),
         \A p \in 1..CellsTo(keys, Len(keys)) - Cells(keys[1]) : other[p] = codes[p + Cells(keys[1])]
  PROVE  /\ Tail(keys) \in Seq(Nat)
         /\ CellsTo(keys, Len(keys)) = Cells(keys[1]) + CellsTo(Tail(keys), Len(Tail(keys)))
         /\ Shows(other, 0, Tail(keys))
<1> DEFINE s == Tail(keys)
           n == Len(s)
           w == Cells(keys[1])
<1>1. s \in Seq(Nat) /\ Len(keys) = n + 1 /\ n \in Nat /\ \A i \in 1..n : s[i] = keys[i + 1]
  BY HeadTailProperties, LenProperties, EmptySeq
<1>2. w \in {1, 2} /\ CellsTo(keys, 1) = w
  <2>1. CellsTo(keys, 0 + 1) = CellsTo(keys, 0) + Cells(keys[0 + 1]) /\ CellsTo(keys, 0) = 0
    BY CellsFacts
  <2> QED  BY <2>1 DEF Cells
<1> HIDE DEF s, n, w
<1>3. \A i \in 0..n : CellsTo(keys, 1 + i) = w + CellsTo(s, i) /\ CellsTo(s, i) \in Nat
  <2> TAKE i \in 0..n
  <2>1. i \in Nat /\ \A j \in 1..i : s[j] = keys[1 + j]
    BY <1>1
  <2>2. CellsTo(keys, 1 + i) = CellsTo(keys, 1) + CellsTo(s, i)
    BY <2>1, CellsBehind
  <2> QED  BY <1>2, <2>1, <2>2, CellsFacts
<1>4. ASSUME NEW i \in 1..n
      PROVE  KeyAt(other, 0 + CellsTo(s, i - 1) + 1, s[i])
  <2> DEFINE c == CellsTo(s, i - 1)
             key == s[i]
  <2>1. c \in Nat /\ c + Cells(key) <= CellsTo(s, n) /\ CellsTo(s, n) \in Nat
    BY <1>1, CellsWithin, CellsFacts
  <2>2. key \in Nat /\ KeyAt(codes, 0 + (w + c) + 1, key)
    <3>1. i + 1 \in 1..Len(keys) /\ i - 1 \in 0..n /\ (i + 1) - 1 = 1 + (i - 1) /\ key = keys[i + 1]
      BY <1>1
    <3>2. CellsTo(keys, 1 + (i - 1)) = w + c
      BY <1>3, <3>1
    <3>3. KeyAt(codes, 0 + CellsTo(keys, (i + 1) - 1) + 1, keys[i + 1])
      BY <3>1 DEF Shows
    <3> QED  BY <1>1, <3>1, <3>2, <3>3, ElementOfSeq
  <2>3. Cells(key) \in {1, 2}
    BY DEF Cells
  <2>4. CellsTo(keys, Len(keys)) - Cells(keys[1]) = CellsTo(s, n)
    <3>1. n \in 0..n /\ Len(keys) = 1 + n
      BY <1>1
    <3>2. CellsTo(keys, Len(keys)) = w + CellsTo(s, n)
      BY <1>3, <3>1
    <3> QED  BY <1>2, <2>1, <3>2 DEF w
  <2> HIDE DEF c, key
  <2>5. ASSUME NEW k \in 0..Cells(key) - 1
        PROVE  other[(0 + c + 1) + k] = codes[(0 + (w + c) + 1) + k]
    <3>1. c + 1 + k \in 1..CellsTo(s, n)
      BY <2>1, <2>3
    <3>2. (0 + c + 1) + k = c + 1 + k /\ (0 + (w + c) + 1) + k = (c + 1 + k) + w
      BY <1>2, <2>1, <2>3
    <3>3. other[c + 1 + k] = codes[(c + 1 + k) + w]
      BY <2>4, <3>1 DEF w
    <3> QED  BY <3>2, <3>3
  <2>6. KeyAt(other, 0 + c + 1, key)
    <3> DEFINE p == 0 + (w + c) + 1
               q == 0 + c + 1
    <3>1. p \in Nat /\ q \in Nat
      BY <1>2, <2>1
    <3>2. \A k \in 0..Cells(key) - 1 : other[q + k] = codes[p + k]
      BY <2>5
    <3>3. key \in Nat /\ KeyAt(codes, p, key)
      BY <2>2
    <3> HIDE DEF p, q
    <3>4. KeyAt(other, q, key)
      BY <3>1, <3>2, <3>3, KeyMoved
    <3> QED  BY <3>4 DEF q
  <2> QED  BY <2>6 DEF c, key
<1>5. Shows(other, 0, s)
  BY <1>1, <1>4 DEF Shows, n
<1>6. CellsTo(keys, Len(keys)) = w + CellsTo(s, n)
  <2>1. n \in 0..n /\ Len(keys) = 1 + n
    BY <1>1
  <2> QED  BY <1>3, <2>1
<1> QED  BY <1>1, <1>5, <1>6 DEF s, n, w

(* More keys behind the last one, when their codes follow. *)
LEMMA ShowsMore ==
  ASSUME NEW keys \in Seq(Nat), NEW more \in Seq(Nat), NEW codes \in Seq(Int), NEW new \in Seq(Int),
         NEW at \in Nat, Shows(codes, at, keys), at + CellsTo(keys, Len(keys)) = Len(codes),
         Shows(new, 0, more), CellsTo(more, Len(more)) = Len(new)
  PROVE  /\ keys \o more \in Seq(Nat)
         /\ Shows(codes \o new, at, keys \o more)
         /\ at + CellsTo(keys \o more, Len(keys \o more)) = Len(codes \o new)
<1> DEFINE s == keys \o more
           r == codes \o new
           m == Len(keys)
           n == Len(more)
<1>1. /\ s \in Seq(Nat) /\ Len(s) = m + n /\ m \in Nat /\ n \in Nat
      /\ \A i \in 1..m + n : s[i] = IF i <= m THEN keys[i] ELSE more[i - m]
  BY ConcatProperties, LenProperties
<1>2. /\ Len(r) = Len(codes) + Len(new) /\ Len(codes) \in Nat /\ Len(new) \in Nat
      /\ \A p \in 1..Len(codes) + Len(new) : r[p] = IF p <= Len(codes) THEN codes[p] ELSE new[p - Len(codes)]
  BY ConcatProperties, LenProperties
<1>a. Len(r) = Len(codes) + Len(new) /\ Len(codes) \in Nat /\ Len(new) \in Nat
  BY <1>2
<1>0. (\A i \in 1..m : keys[i] \in Nat) /\ \A i \in 1..n : more[i] \in Nat
  BY ElementOfSeq
<1> HIDE DEF s, r, m, n
<1>3. \A i \in 0..m : CellsTo(s, i) = CellsTo(keys, i) /\ CellsTo(keys, i) \in Nat
  <2> TAKE i \in 0..m
  <2>1. i \in Nat /\ \A j \in 1..i : s[j] = keys[j]
    BY <1>1
  <2>2. CellsTo(s, i) = CellsTo(keys, i)
    BY <2>1, CellsAlike
  <2> QED  BY <2>1, <2>2, CellsFacts
<1>4. \A i \in 0..n : CellsTo(s, m + i) = CellsTo(keys, m) + CellsTo(more, i) /\ CellsTo(more, i) \in Nat
  <2> TAKE i \in 0..n
  <2>1. \A j \in 1..i : more[j] = s[m + j]
    <3> TAKE j \in 1..i
    <3>1. m + j \in 1..m + n /\ ~(m + j <= m) /\ (m + j) - m = j
      BY <1>1
    <3> QED  BY <1>1, <3>1
  <2>2. m \in 0..m /\ i \in Nat
    BY <1>1
  <2>3. CellsTo(s, m + i) = CellsTo(s, m) + CellsTo(more, i)
    <3> HIDE DEF Cells
    <3>1. m \in Nat
      BY <1>1
    <3> QED  BY <2>1, <2>2, <3>1, CellsBehind
  <2>4. CellsTo(s, m) = CellsTo(keys, m)
    BY <1>3, <2>2
  <2> QED  BY <2>2, <2>3, <2>4, CellsFacts
<1>5. /\ at + CellsTo(keys, m) = Len(codes) /\ CellsTo(keys, m) \in Nat
      /\ CellsTo(more, n) = Len(new)
  BY <1>1, CellsFacts DEF m, n
<1>6. ASSUME NEW i \in 1..m
      PROVE  KeyAt(r, at + CellsTo(s, i - 1) + 1, s[i])
  <2> DEFINE c == CellsTo(keys, i - 1)
             key == keys[i]
  <2>1. c \in Nat /\ c + Cells(key) <= CellsTo(keys, m) /\ Cells(key) \in {1, 2}
    BY <1>1, CellsWithin DEF Cells
  <2>2. key \in Nat /\ KeyAt(codes, at + c + 1, key)
    BY <1>0 DEF Shows, m
  <2>3. CellsTo(s, i - 1) = c /\ s[i] = key
    <3>1. i - 1 \in 0..m /\ i \in 1..m + n /\ i <= m
      BY <1>1
    <3> QED  BY <1>1, <1>3, <3>1
  <2> HIDE DEF c, key
  <2>4. ASSUME NEW k \in 0..Cells(key) - 1
        PROVE  r[(at + c + 1) + k] = codes[(at + c + 1) + k]
    <3> DEFINE held == Len(codes)
               width == Cells(key)
               place == (at + c + 1) + k
    <3>a. /\ held \in Nat /\ Len(new) \in Nat /\ c \in Nat /\ width \in {1, 2}
          /\ at + (c + width) <= held /\ k \in 0..width - 1
      <4> DEFINE all == CellsTo(keys, m)
                 upto == c + width
      <4>1. at + all = held /\ all \in Nat
        BY <1>5
      <4>2. upto <= all /\ upto \in Nat
        BY <2>1
      <4> HIDE DEF all, upto, held, width
      <4>3. at + upto <= held
        BY <4>1, <4>2
      <4> QED  BY <1>a, <2>1, <4>3 DEF upto, width, held
    <3> HIDE DEF held, width
    <3>b. k \in Nat /\ at + (c + k + 1) <= held
      BY <3>a
    <3>c. place \in 1..held + Len(new) /\ place <= held
      BY <3>a, <3>b
    <3> HIDE DEF place
    <3>d. r[place] = codes[place]
      BY <1>2, <3>c DEF held
    <3> QED  BY <3>d DEF place
  <2>5. KeyAt(r, at + c + 1, key)
    <3> DEFINE p == at + c + 1
               q == at + c + 1
    <3>1. p \in Nat /\ q \in Nat
      BY <2>1
    <3>2. \A k \in 0..Cells(key) - 1 : r[q + k] = codes[p + k]
      BY <2>4
    <3>3. key \in Nat /\ KeyAt(codes, p, key)
      BY <2>2
    <3> HIDE DEF p, q
    <3>4. KeyAt(r, q, key)
      BY <3>1, <3>2, <3>3, KeyMoved
    <3> QED  BY <3>4 DEF q
  <2> QED  BY <2>3, <2>5
<1>7. ASSUME NEW i \in 1..n
      PROVE  KeyAt(r, at + CellsTo(s, (m + i) - 1) + 1, s[m + i])
  <2> DEFINE c == CellsTo(more, i - 1)
             key == more[i]
  <2>1. c \in Nat /\ c + Cells(key) <= CellsTo(more, n) /\ Cells(key) \in {1, 2}
    BY <1>1, CellsWithin DEF Cells
  <2>2. key \in Nat /\ KeyAt(new, 0 + c + 1, key)
    BY <1>0 DEF Shows, n
  <2>3. CellsTo(s, (m + i) - 1) = CellsTo(keys, m) + c /\ s[m + i] = key
    <3>1. i - 1 \in 0..n /\ m + i \in 1..m + n /\ ~(m + i <= m) /\ (m + i) - m = i /\ (m + i) - 1 = m + (i - 1)
      BY <1>1
    <3>2. CellsTo(s, m + (i - 1)) = CellsTo(keys, m) + c
      BY <1>4, <3>1
    <3> QED  BY <1>1, <3>1, <3>2
  <2> HIDE DEF c, key
  <2>4. ASSUME NEW k \in 0..Cells(key) - 1
        PROVE  r[(Len(codes) + c + 1) + k] = new[(0 + c + 1) + k]
    <3> DEFINE held == Len(codes)
               width == Cells(key)
               place == (Len(codes) + c + 1) + k
    <3>a. /\ held \in Nat /\ Len(new) \in Nat /\ c \in Nat /\ width \in {1, 2}
          /\ c + width <= Len(new) /\ k \in 0..width - 1
      BY <1>a, <1>5, <2>1
    <3> HIDE DEF held, width
    <3>b. k \in Nat /\ c + k + 1 <= Len(new)
      BY <3>a
    <3>c. /\ (held + c + 1) + k \in 1..held + Len(new)
          /\ ~((held + c + 1) + k <= held)
          /\ ((held + c + 1) + k) - held = (0 + c + 1) + k
      BY <3>a, <3>b
    <3>1. /\ place \in 1..Len(codes) + Len(new)
          /\ ~(place <= Len(codes))
          /\ place - Len(codes) = (0 + c + 1) + k
      BY <3>c DEF held
    <3> HIDE DEF place
    <3>2. r[place] = new[place - Len(codes)]
      BY <1>2, <3>1
    <3> QED  BY <3>1, <3>2 DEF place
  <2>5. KeyAt(r, Len(codes) + c + 1, key)
    <3> DEFINE p == 0 + c + 1
               q == Len(codes) + c + 1
    <3>1. p \in Nat /\ q \in Nat
      BY <1>2, <2>1
    <3>2. \A k \in 0..Cells(key) - 1 : r[q + k] = new[p + k]
      BY <2>4
    <3>3. key \in Nat /\ KeyAt(new, p, key)
      BY <2>2
    <3> HIDE DEF p, q
    <3>4. KeyAt(r, q, key)
      BY <3>1, <3>2, <3>3, KeyMoved
    <3> QED  BY <3>4 DEF q
  <2>6. at + CellsTo(s, (m + i) - 1) + 1 = Len(codes) + c + 1
    <3> HIDE DEF Cells
    <3> DEFINE d == CellsTo(keys, m)
    <3>0. d \in Nat /\ c \in Nat /\ at + d = Len(codes)
      BY <1>5, <2>1
    <3> HIDE DEF d
    <3>1. at + (d + c) + 1 = (at + d) + c + 1
      BY ONLY at \in Nat, <3>0
    <3> QED  BY <2>3, <3>0, <3>1 DEF d
  <2> QED  BY <2>3, <2>5, <2>6
<1>8. Shows(r, at, s)
  <2> SUFFICES ASSUME NEW i \in 1..m + n PROVE KeyAt(r, at + CellsTo(s, i - 1) + 1, s[i])
    BY <1>1 DEF Shows
  <2>1. CASE i <= m
    BY <1>1, <1>6, <2>1
  <2>2. CASE ~(i <= m)
    <3>1. i - m \in 1..n /\ m + (i - m) = i
      BY <1>1, <2>2
    <3>2. KeyAt(r, at + CellsTo(s, (m + (i - m)) - 1) + 1, s[m + (i - m)])
      BY <1>7, <3>1
    <3> QED  BY <3>1, <3>2
  <2> QED  BY <2>1, <2>2
<1>9. at + CellsTo(s, Len(s)) = Len(r)
  <2>1. n \in 0..n
    BY <1>1
  <2>2. CellsTo(s, m + n) = CellsTo(keys, m) + CellsTo(more, n)
    BY <1>4, <2>1
  <2> DEFINE old == CellsTo(keys, m)
             added == CellsTo(more, n)
             held == Len(codes)
             extra == Len(new)
  <2>3. old \in Nat /\ at + old = held /\ added = extra /\ CellsTo(s, Len(s)) = old + added
    BY <1>1, <1>5, <2>2
  <2>4. held \in Nat /\ extra \in Nat /\ Len(r) = held + extra
    BY <1>a
  <2> HIDE DEF old, added, held, extra
  <2>5. at + (old + added) = held + extra
    BY ONLY at \in Nat, <2>3, <2>4
  <2> QED  BY <2>3, <2>4, <2>5
<1> QED  BY <1>1, <1>8, <1>9 DEF s, r

-----------------------------------------------------------------------------
(* What getch has still to take: the codes of the ring, and those of the   *)
(* event at hand.                                                          *)
Coming == Queued \o typing

(* The keys due stand in it behind the requests to quit, whole and in      *)
(* order: nothing else does, until a code is lost; then they are those     *)
(* whose codes are in the ring.                                            *)
KeysComing ==
    /\ due \in Seq(Nat)
    /\ Shows(Coming, asked, due)
    /\ lossy => asked + CellsTo(due, Len(due)) <= Count
    /\ ~lossy => asked + CellsTo(due, Len(due)) = Len(Coming)

DueInv == KeyInv /\ KeysComing

LEMMA JoinedFront ==
  ASSUME NEW q \in Seq(AnyCode), NEW t \in Seq(Codes)
  PROVE  /\ q \in Seq(Int) /\ t \in Seq(Int)
         /\ q \o t \in Seq(Int) /\ Len(q \o t) = Len(q) + Len(t)
         /\ \A i \in 1..Len(q) : (q \o t)[i] = q[i]
         /\ t = <<>> => q \o t = q
<1>1. AnyCode \subseteq Int /\ Codes \subseteq Int
  BY CodesNotQuit DEF AnyCode
<1>2. q \in Seq(Int) /\ t \in Seq(Int) /\ Len(q) \in Nat /\ Len(t) \in Nat
  BY <1>1, SeqMonotonic, LenProperties
<1>3. /\ q \o t \in Seq(Int) /\ Len(q \o t) = Len(q) + Len(t)
      /\ \A i \in 1..Len(q) + Len(t) : (q \o t)[i] = IF i <= Len(q) THEN q[i] ELSE t[i - Len(q)]
  BY <1>2, ConcatProperties
<1>4. \A i \in 1..Len(q) : i \in 1..Len(q) + Len(t) /\ i <= Len(q)
  BY <1>2
<1>5. t = <<>> => q \o t = q
  BY <1>2, ConcatEmptySeq
<1> QED  BY <1>2, <1>3, <1>4, <1>5

LEMMA ComingFacts ==
  ASSUME KeyTypeOK
  PROVE  /\ Coming \in Seq(Int) /\ Len(Coming) = Count + Len(typing)
         /\ \A i \in 1..Count : Coming[i] = Queued[i]
         /\ typing = <<>> => Coming = Queued
<1>1. Queued \in Seq(AnyCode) /\ Len(Queued) = Count /\ typing \in Seq(Codes)
  BY TypeFacts DEF KeyTypeOK
<1> QED  BY <1>1, JoinedFront DEF Coming

(* An event that leaves the ring alone leaves what it holds in front. *)
LEMMA RingInFront ==
  ASSUME KeyTypeOK, KeyTypeOK', UNCHANGED ringVars
  PROVE  Count' = Count /\ \A i \in 1..Count : Coming'[i] = Coming[i]
<1>1. Queued' = Queued /\ Count' = Count
  BY RingKept
<1>2. Queued \in Seq(AnyCode) /\ Len(Queued) = Count /\ typing' \in Seq(Codes)
  BY TypeFacts DEF KeyTypeOK
<1>3. \A i \in 1..Count : (Queued \o typing')[i] = Queued[i]
  BY <1>2, JoinedFront
<1>4. \A i \in 1..Count : Coming'[i] = Queued[i]
  BY <1>1, <1>3 DEF Coming
<1> QED  BY <1>1, <1>4, ComingFacts

(* A first part of the keys due is kept, where its codes stand now. *)
LEMMA FirstPartKept ==
  ASSUME KeysComing, asked \in Nat, asked' \in Nat,
         NEW n \in 0..Len(due), due' = SubSeq(due, 1, n),
         \A p \in 1..CellsTo(due, n) : Coming'[asked' + p] = Coming[asked + p],
         lossy' => asked' + CellsTo(due, n) <= Count',
         ~lossy' => asked' + CellsTo(due, n) = Len(Coming')
  PROVE  KeysComing'
<1> DEFINE s == SubSeq(due, 1, n)
           other == Coming'
           to == asked'
<1>1. due \in Seq(Nat) /\ Shows(Coming, asked, due)
  BY DEF KeysComing
<1>2. to \in Nat /\ \A p \in 1..CellsTo(due, n) : other[to + p] = Coming[asked + p]
  OBVIOUS
<1> HIDE DEF other, to
<1>3. /\ s \in Seq(Nat) /\ Len(s) = n /\ CellsTo(s, n) = CellsTo(due, n)
      /\ Shows(other, to, s)
  BY <1>1, <1>2, ShowsMoved
<1>4. due' = s
  OBVIOUS
<1> HIDE DEF s
<1>5. /\ due' \in Seq(Nat)
      /\ Shows(Coming', asked', due')
      /\ CellsTo(due', Len(due')) = CellsTo(due, n)
  BY <1>3, <1>4 DEF other, to
<1> QED  BY <1>5 DEF KeysComing, Shows, CellsTo

(* All of them are. *)
LEMMA AllKept ==
  ASSUME KeysComing, asked \in Nat, asked' \in Nat, due' = due,
         \A p \in 1..CellsTo(due, Len(due)) : Coming'[asked' + p] = Coming[asked + p],
         lossy' => asked' + CellsTo(due, Len(due)) <= Count',
         ~lossy' => asked' + CellsTo(due, Len(due)) = Len(Coming')
  PROVE  KeysComing'
<1>1. due \in Seq(Nat)
  BY DEF KeysComing
<1>2. Len(due) \in 0..Len(due) /\ SubSeq(due, 1, Len(due)) = due
  BY <1>1, LenProperties, SubSeqFull
<1> QED  BY <1>2, FirstPartKept

(* A character is one code; another key is a 0 and its keycode. *)
LEMMA PressedShown ==
  /\ \A code \in Codes :
        /\ <<Shown(code)>> \in Seq(Nat) /\ <<code>> \in Seq(Int)
        /\ code # 0 /\ code < 256 =>
              /\ Shows(<<code>>, 0, <<Shown(code)>>)
              /\ CellsTo(<<Shown(code)>>, Len(<<Shown(code)>>)) = Len(<<code>>)
  /\ \A keycode \in Keycodes :
        /\ <<Special(keycode)>> \in Seq(Nat) /\ <<0, keycode>> \in Seq(Int)
        /\ Shows(<<0, keycode>>, 0, <<Special(keycode)>>)
        /\ CellsTo(<<Special(keycode)>>, Len(<<Special(keycode)>>)) = Len(<<0, keycode>>)
<1>1. ASSUME NEW code \in Codes
      PROVE  /\ <<Shown(code)>> \in Seq(Nat) /\ <<code>> \in Seq(Int)
             /\ code # 0 /\ code < 256 =>
                   /\ Shows(<<code>>, 0, <<Shown(code)>>)
                   /\ CellsTo(<<Shown(code)>>, Len(<<Shown(code)>>)) = Len(<<code>>)
  <2> DEFINE keys == <<Shown(code)>>
             codes == <<code>>
  <2>1. code \in Int /\ Shown(code) \in Nat /\ (code < 256 => ~(Shown(code) >= 256))
    BY CodesNotQuit DEF Shown
  <2>2. /\ keys \in Seq(Nat) /\ Len(keys) = 1 /\ keys[1] = Shown(code)
        /\ codes \in Seq(Int) /\ Len(codes) = 1 /\ codes[1] = code
    BY <2>1
  <2> HIDE DEF keys, codes
  <2>3. CellsTo(keys, 0) = 0 /\ CellsTo(keys, 0 + 1) = CellsTo(keys, 0) + Cells(keys[0 + 1])
    BY CellsFacts
  <2>4. ASSUME code # 0, code < 256
        PROVE  Shows(codes, 0, keys) /\ CellsTo(keys, Len(keys)) = Len(codes)
    <3>1. CellsTo(keys, 1) = 1
      BY <2>1, <2>2, <2>3, <2>4 DEF Cells
    <3>2. 0 + CellsTo(keys, 1 - 1) + 1 = 1
      BY <2>3
    <3>3. KeyAt(codes, 1, keys[1])
      BY <2>1, <2>2, <2>4 DEF KeyAt
    <3>4. KeyAt(codes, 0 + CellsTo(keys, 1 - 1) + 1, keys[1])
      BY <3>2, <3>3
    <3>5. Shows(codes, 0, keys)
      BY <2>2, <3>4 DEF Shows
    <3> QED  BY <2>2, <3>1, <3>5
  <2> QED  BY <2>2, <2>4 DEF keys, codes
<1>2. ASSUME NEW keycode \in Keycodes
      PROVE  /\ <<Special(keycode)>> \in Seq(Nat) /\ <<0, keycode>> \in Seq(Int)
             /\ Shows(<<0, keycode>>, 0, <<Special(keycode)>>)
             /\ CellsTo(<<Special(keycode)>>, Len(<<Special(keycode)>>)) = Len(<<0, keycode>>)
  <2> DEFINE keys == <<Special(keycode)>>
             codes == <<0, keycode>>
  <2>1. keycode \in Nat /\ keycode > 0 /\ Special(keycode) >= 256 /\ Special(keycode) - 256 = keycode
    BY KeyAssumption DEF Special
  <2>2. /\ keys \in Seq(Nat) /\ Len(keys) = 1 /\ keys[1] = Special(keycode)
        /\ codes \in Seq(Int) /\ Len(codes) = 2 /\ codes[1] = 0 /\ codes[2] = keycode
    BY <2>1 DEF Special
  <2> HIDE DEF keys, codes
  <2>3. CellsTo(keys, 0) = 0 /\ CellsTo(keys, 0 + 1) = CellsTo(keys, 0) + Cells(keys[0 + 1])
    BY CellsFacts
  <2>4. CellsTo(keys, 1) = 2
    BY <2>1, <2>2, <2>3 DEF Cells
  <2>5. KeyAt(codes, 0 + CellsTo(keys, 1 - 1) + 1, keys[1])
    <3>1. 0 + CellsTo(keys, 1 - 1) + 1 = 1
      BY <2>3
    <3>2. KeyAt(codes, 1, keys[1])
      BY <2>1, <2>2 DEF KeyAt
    <3> QED  BY <3>1, <3>2
  <2>6. Shows(codes, 0, keys)
    BY <2>2, <2>5 DEF Shows
  <2> QED  BY <2>2, <2>4, <2>6 DEF keys, codes
<1> QED  BY <1>1, <1>2

LEMMA PressKeepsKeys ==
  ASSUME KeyInv, KeysComing,
         NEW codes \in Seq(Int), NEW key \in Nat, NEW keys \in Seq(Nat), keys = <<key>>, Press(codes, key),
         Shows(codes, 0, keys), CellsTo(keys, Len(keys)) = Len(codes), KeyTypeOK'
  PROVE  KeysComing'
<1>1. /\ Coming \in Seq(Int) /\ Len(Coming) = Count /\ Count \in Nat /\ Coming = Queued
      /\ asked \in Nat /\ asked' = asked /\ lossy' = lossy /\ lossy \in BOOLEAN
  <2>1. typing = <<>> /\ asked' = asked /\ lossy' = lossy
    BY DEF Press
  <2>2. Len(typing) = 0
    BY <2>1, EmptySeq
  <2> QED  BY <2>1, <2>2, ComingFacts, TypeFacts DEF KeyInv, KeyTypeOK
<1>2. Queued' = Queued /\ Count' = Count
  BY RingKept DEF Press
<1>3. Coming' = Coming \o codes
  BY <1>1, <1>2 DEF Press, Coming
<1>4. due \in Seq(Nat) /\ Shows(Coming, asked, due)
  BY DEF KeysComing
<1>5. CASE ~lossy
  <2>1. asked + CellsTo(due, Len(due)) = Len(Coming) /\ due' = due \o keys
    <3>1. asked + CellsTo(due, Len(due)) = Len(Coming) /\ due' = Append(due, key)
      BY <1>5 DEF KeysComing, Press
    <3>2. Append(due, key) = due \o <<key>>
      BY <1>4
    <3> QED  BY <3>1, <3>2
  <2>2. /\ due \o keys \in Seq(Nat)
        /\ Shows(Coming \o codes, asked, due \o keys)
        /\ asked + CellsTo(due \o keys, Len(due \o keys)) = Len(Coming \o codes)
    <3> DEFINE c == Coming
               a == asked
               k == due
    <3>1. /\ c \in Seq(Int) /\ a \in Nat /\ k \in Seq(Nat)
          /\ Shows(c, a, k) /\ a + CellsTo(k, Len(k)) = Len(c)
      BY <1>1, <1>4, <2>1
    <3>q. /\ codes \in Seq(Int) /\ keys \in Seq(Nat)
          /\ Shows(codes, 0, keys) /\ CellsTo(keys, Len(keys)) = Len(codes)
      OBVIOUS
    <3> HIDE DEF c, a, k
    <3>2. /\ k \o keys \in Seq(Nat)
          /\ Shows(c \o codes, a, k \o keys)
          /\ a + CellsTo(k \o keys, Len(k \o keys)) = Len(c \o codes)
      BY ONLY <3>1, <3>q, ShowsMore
    <3> QED  BY <3>2 DEF c, a, k
  <2>3. /\ due' \in Seq(Nat)
        /\ Shows(Coming', asked', due')
        /\ asked' + CellsTo(due', Len(due')) = Len(Coming')
    BY <1>1, <1>3, <2>1, <2>2
  <2> QED  BY <1>1, <1>5, <2>3 DEF KeysComing, Shows, CellsTo
<1>6. CASE lossy
  <2>1. asked + CellsTo(due, Len(due)) <= Count /\ due' = due
    BY <1>6 DEF KeysComing, Press
  <2>2. \A p \in 1..Count : Coming'[p] = Coming[p]
    BY RingInFront DEF KeyInv, Press
  <2>3. CellsTo(due, Len(due)) \in Nat
    BY <1>4, LenProperties, CellsFacts
  <2>4. \A p \in 1..CellsTo(due, Len(due)) : Coming'[asked' + p] = Coming[asked + p]
    <3> TAKE p \in 1..CellsTo(due, Len(due))
    <3>1. asked + p \in 1..Count
      BY <1>1, <2>1, <2>3
    <3> QED  BY <1>1, <2>2, <3>1
  <2> QED  BY <1>1, <1>2, <1>6, <2>1, <2>4, AllKept
<1> QED  BY <1>1, <1>5, <1>6

LEMMA AppendKeepsKeys ==
  ASSUME KeyInv, KeysComing, AppendCode
  PROVE  KeysComing'
<1>1. /\ Queued' = Append(Queued, Head(typing)) /\ typing' = Tail(typing)
      /\ Count' = Count + 1 /\ Count \in Nat
  BY AppendCodes, TypeFacts DEF KeyInv, AppendCode
<1>2. Coming' = Coming
  <2>1. /\ Queued \in Seq(Int) /\ typing \in Seq(Int) /\ typing # <<>>
    <3>1. Queued \in Seq(AnyCode) /\ typing \in Seq(Codes) /\ typing # <<>>
      BY TypeFacts DEF KeyInv, KeyTypeOK, AppendCode
    <3>2. AnyCode \subseteq Int /\ Codes \subseteq Int
      BY CodesNotQuit DEF AnyCode
    <3> QED  BY <3>1, <3>2, SeqMonotonic
  <2>2. ASSUME NEW q \in Seq(Int), NEW t \in Seq(Int), t # <<>>
        PROVE  Append(q, Head(t)) \o Tail(t) = q \o t
    BY <2>2
  <2> QED  BY <1>1, <2>1, <2>2 DEF Coming
<1>3. asked' = asked /\ due' = due /\ lossy' = lossy
  BY DEF AppendCode, history
<1>4. CellsTo(due, Len(due)) \in Nat /\ asked \in Nat
  BY CellsFacts, LenProperties DEF KeysComing, KeyInv, KeyTypeOK
<1>5. lossy => asked + CellsTo(due, Len(due)) <= Count'
  BY <1>1, <1>4 DEF KeysComing
<1> QED  BY <1>1, <1>2, <1>3, <1>4, <1>5, AllKept DEF KeysComing

LEMMA LoseKeepsKeys ==
  ASSUME KeyInv, KeysComing, LoseCode, KeyTypeOK'
  PROVE  KeysComing'
<1>1. /\ Count \in Nat /\ asked \in Nat /\ asked' = asked /\ asked <= Count
      /\ due' = Whole(due, Count - asked) /\ lossy' = TRUE
  BY TypeFacts DEF KeyInv, KeyTypeOK, QuitsInFront, LoseCode
<1>2. Queued' = Queued /\ Count' = Count
  BY RingKept DEF LoseCode
<1>3. Count - asked \in Nat /\ due \in Seq(Nat)
  BY <1>1 DEF KeysComing
<1>4. PICK n \in 0..Len(due) : due' = SubSeq(due, 1, n) /\ CellsTo(due, n) <= Count - asked
  BY <1>1, <1>3, WholeFits
<1>5. n \in Nat /\ CellsTo(due, n) \in Nat
  BY <1>3, LenProperties, CellsFacts
<1>6. \A p \in 1..Count : Coming'[p] = Coming[p]
  BY RingInFront DEF KeyInv, LoseCode
<1>7. \A p \in 1..CellsTo(due, n) : Coming'[asked' + p] = Coming[asked + p]
  <2> TAKE p \in 1..CellsTo(due, n)
  <2>1. asked + p \in 1..Count
    BY <1>1, <1>4, <1>5
  <2> QED  BY <1>1, <1>6, <2>1
<1>8. asked' + CellsTo(due, n) <= Count'
  BY <1>1, <1>2, <1>4, <1>5
<1> QED  BY <1>1, <1>4, <1>7, <1>8, FirstPartKept

LEMMA QuitKeepsKeys ==
  ASSUME KeyInv, KeysComing, QuitInFront, KeyTypeOK'
  PROVE  KeysComing'
<1>0. PICK m \in Nat : /\ Count = KB_BUFSIZE => m = KB_BUFSIZE - 1
                       /\ Count # KB_BUFSIZE => m = Count
  BY TypeFacts, KeyAssumption DEF KeyInv
<1>1. /\ m <= Count /\ Count' = m + 1
      /\ Len(Queued') = m + 1
      /\ \A i \in 1..m : Queued'[i + 1] = Queued[i]
  BY <1>0, QuitPutInFront DEF KeyInv, OneBefore
<1>2. /\ Coming = Queued /\ Coming' = Queued' /\ Len(Coming) = Count /\ Len(Coming') = m + 1
  <2>1. typing = <<>> /\ typing' = <<>>
    BY DEF QuitInFront
  <2>2. Queued' \in Seq(AnyCode)
    BY <1>0, QuitPutInFront DEF KeyInv
  <2>3. Queued' \o <<>> = Queued'
    BY <2>2, ConcatEmptySeq
  <2>4. Coming' = Queued'
    BY <2>1, <2>3 DEF Coming
  <2>5. Coming = Queued /\ Len(Queued) = Count
    BY <2>1, ComingFacts, TypeFacts DEF KeyInv
  <2> QED  BY <1>1, <2>4, <2>5
<1>3. /\ Count \in 0..KB_BUFSIZE /\ asked \in 0..KB_BUFSIZE /\ KB_BUFSIZE \in Nat \ {0}
      /\ asked <= Count /\ lossy \in BOOLEAN
      /\ asked' = IF asked < KB_BUFSIZE THEN asked + 1 ELSE asked
  BY TypeFacts, KeyAssumption DEF KeyInv, KeyTypeOK, QuitsInFront, QuitInFront
<1>4. (kbtail = kbhead') <=> Count = KB_BUFSIZE
  <2>1. kbtail = PrevCell(kbhead) <=> CountOf(kbhead, kbtail) = KB_BUFSIZE
    BY TypeFacts, RingFacts DEF KeyInv
  <2> QED  BY <2>1 DEF QuitInFront, Count
<1>5. due \in Seq(Nat) /\ Len(due) \in Nat /\ CellsTo(due, Len(due)) \in Nat
  BY LenProperties, CellsFacts DEF KeysComing
<1>6. CASE Count = KB_BUFSIZE
  <2>1. lossy' = TRUE /\ due' = Whole(due, KB_BUFSIZE - asked') /\ KB_BUFSIZE - asked' \in Nat
        /\ asked' \in Nat
    <3>1. kbtail = kbhead'
      BY <1>4, <1>6
    <3>2. lossy' = TRUE /\ due' = Whole(due, KB_BUFSIZE - asked')
      BY <3>1 DEF QuitInFront
    <3>3. asked' \in 0..KB_BUFSIZE
      BY DEF KeyTypeOK
    <3> QED  BY <1>3, <3>2, <3>3
  <2>2. PICK n \in 0..Len(due) : due' = SubSeq(due, 1, n) /\ CellsTo(due, n) <= KB_BUFSIZE - asked'
    BY <1>5, <2>1, WholeFits
  <2>3. CellsTo(due, n) \in Nat
    BY <1>5, CellsFacts
  <2>4. \A p \in 1..CellsTo(due, n) : Coming'[asked' + p] = Coming[asked + p]
    <3> TAKE p \in 1..CellsTo(due, n)
    <3>1. asked' = asked + 1 /\ asked + p \in 1..m /\ asked' + p = (asked + p) + 1
      BY <1>0, <1>3, <1>6, <2>1, <2>2, <2>3
    <3> QED  BY <1>1, <1>2, <3>1
  <2>5. asked' + CellsTo(due, n) <= Count'
    BY <1>0, <1>1, <1>3, <1>6, <2>1, <2>2, <2>3
  <2> QED  BY <1>3, <2>1, <2>2, <2>4, <2>5, FirstPartKept
<1>7. CASE Count # KB_BUFSIZE
  <2>1. lossy' = lossy /\ due' = due /\ asked' = asked + 1 /\ m = Count
    <3>1. asked < KB_BUFSIZE
      BY <1>3, <1>7
    <3> QED  BY <1>0, <1>3, <1>4, <1>7, <3>1 DEF QuitInFront
  <2>2. asked + CellsTo(due, Len(due)) <= Count
    BY <1>2, <1>3, <1>5 DEF KeysComing
  <2>3. \A p \in 1..CellsTo(due, Len(due)) : Coming'[asked' + p] = Coming[asked + p]
    <3> TAKE p \in 1..CellsTo(due, Len(due))
    <3>1. asked + p \in 1..m /\ asked' + p = (asked + p) + 1
      BY <1>3, <1>5, <2>1, <2>2
    <3> QED  BY <1>1, <1>2, <3>1
  <2>4. lossy' => asked' + CellsTo(due, Len(due)) <= Count'
    BY <1>1, <1>3, <1>5, <2>1, <2>2
  <2>5. ~lossy' => asked' + CellsTo(due, Len(due)) = Len(Coming')
    BY <1>2, <1>3, <1>5, <2>1 DEF KeysComing
  <2> QED  BY <1>3, <2>1, <2>3, <2>4, <2>5, AllKept
<1> QED  BY <1>6, <1>7

(* What getch returns when no request to quit is in front: the first key   *)
(* due, with all of its codes.                                             *)
LEMMA GetchReturnsKey ==
  ASSUME KeyInv, KeysComing, Getch, asked = 0, due # <<>>
  PROVE  /\ got' = due[1]
         /\ TakesTwo <=> Cells(due[1]) = 2
<1>1. /\ Coming = Queued /\ Len(Coming) = Count /\ Count \in Nat /\ got' = Answer
      /\ lossy \in BOOLEAN /\ Count > 0
      /\ Queued[1] \in Int /\ Queued[1] # KB_WINDOW_QUIT
  <2>1. Coming = Queued /\ Len(Coming) = Count /\ Count \in Nat
    BY ComingFacts, TypeFacts DEF KeyInv, Getch
  <2>2. got' = Answer /\ lossy \in BOOLEAN /\ Count > 0
    BY DEF KeyInv, KeyTypeOK, Getch, Waiting
  <2>3. Queued[1] # KB_WINDOW_QUIT
    BY <2>1, <2>2 DEF KeyInv, QuitsInFront
  <2>4. Queued[1] \in AnyCode /\ AnyCode \subseteq Int
    BY <2>1, <2>2, TypeFacts, CodesNotQuit, ElementOfSeq DEF KeyInv, AnyCode
  <2> QED  BY <2>1, <2>2, <2>3, <2>4
<1>2. due \in Seq(Nat) /\ Len(due) \in Nat /\ 1 \in 1..Len(due) /\ due[1] \in Nat
  <2>1. due \in Seq(Nat)
    BY DEF KeysComing
  <2>2. Len(due) \in Nat /\ 1 \in 1..Len(due)
    BY <2>1, LenProperties, EmptySeq
  <2> QED  BY <2>1, <2>2, ElementOfSeq
<1>3. CellsTo(due, Len(due)) <= Count /\ Cells(due[1]) <= CellsTo(due, Len(due))
      /\ CellsTo(due, Len(due)) \in Nat
  <2>1. CellsTo(due, Len(due)) \in Nat
    BY <1>2, CellsFacts
  <2>2. CellsTo(due, Len(due)) <= Count
    BY <1>1, <2>1 DEF KeysComing
  <2>3. CellsTo(due, 0) = 0 /\ CellsTo(due, 1 - 1) + Cells(due[1]) <= CellsTo(due, Len(due))
    BY <1>2, CellsWithin, CellsFacts
  <2>4. 1 - 1 = 0 /\ Cells(due[1]) \in Nat
    BY DEF Cells
  <2> QED  BY <2>1, <2>2, <2>3, <2>4
<1>4. KeyAt(Queued, 1, due[1])
  <2>1. KeyAt(Queued, 0 + CellsTo(due, 1 - 1) + 1, due[1])
    BY <1>1, <1>2 DEF KeysComing, Shows
  <2>2. CellsTo(due, 1 - 1) = 0
    BY CellsFacts
  <2> QED  BY <2>1, <2>2
<1>5. CASE due[1] >= 256
  <2>1. Cells(due[1]) = 2 /\ Count > 1
    BY <1>1, <1>3, <1>5 DEF Cells
  <2>2. Queued[1] = 0 /\ Queued[2] = due[1] - 256 /\ due[1] - 256 \in Keycodes
    BY <1>4, <1>5 DEF KeyAt
  <2>3. Second > 0 /\ Special(Second) = due[1]
    BY <1>2, <2>1, <2>2, KeyAssumption DEF Second, Special
  <2>4. Answer = Special(Second)
    BY <2>2, <2>3 DEF Answer, LastTaken
  <2> QED  BY <1>1, <2>1, <2>2, <2>3, <2>4 DEF TakesTwo
<1>6. CASE ~(due[1] >= 256)
  <2>1. due[1] = Shown(Queued[1]) /\ Queued[1] # 0 /\ Cells(due[1]) = 1
    BY <1>4, <1>6 DEF KeyAt, Cells
  <2>2. Answer = Shown(Queued[1])
    BY <1>1, <2>1 DEF Answer, LastTaken, Shown
  <2> QED  BY <1>1, <2>1, <2>2 DEF TakesTwo
<1> QED  BY <1>5, <1>6

LEMMA GetchKeepsKeys ==
  ASSUME KeyInv, KeysComing, Getch, KeyTypeOK'
  PROVE  KeysComing'
<1>1. PICK k \in {1, 2} : k = IF TakesTwo THEN 2 ELSE 1
  OBVIOUS
<1>2. /\ k <= Count /\ Count' = Count - k /\ Count \in Nat /\ Count > 0
      /\ Queued' = SubSeq(Queued, k + 1, Count)
      /\ Queued \in Seq(AnyCode) /\ Len(Queued) = Count
  BY <1>1, GetchTakes, TypeFacts DEF KeyInv, Getch, Waiting
<1>3. /\ Queued' \in Seq(AnyCode) /\ Len(Queued') = Count - k
      /\ \A i \in 1..Count - k : Queued'[i] = Queued[i + k]
  <2>1. \A i \in k + 1..Count : Queued[i] \in AnyCode
    BY <1>2, ElementOfSeq
  <2>2. /\ Queued' \in Seq(AnyCode)
        /\ Len(Queued') = IF k + 1 <= Count THEN Count - (k + 1) + 1 ELSE 0
        /\ \A i \in 1..Count - (k + 1) + 1 : Queued'[i] = Queued[k + 1 + i - 1]
    BY <1>2, <2>1, SubSeqProperties
  <2> QED  BY <1>2, <2>2
<1>4. /\ Coming = Queued /\ Coming' = Queued'
      /\ Len(Coming) = Count /\ Len(Coming') = Count - k
  <2>1. typing = <<>> /\ typing' = <<>>
    BY DEF Getch
  <2>2. Queued' \o <<>> = Queued'
    BY <1>3, ConcatEmptySeq
  <2>3. Coming' = Queued'
    BY <2>1, <2>2 DEF Coming
  <2> QED  BY <1>2, <1>3, <2>1, <2>3, ComingFacts DEF KeyInv
<1>5. /\ asked \in Nat /\ asked <= Count /\ lossy \in BOOLEAN /\ lossy' = (lossy /\ kbhead' # kbtail)
      /\ asked' = (IF asked > 0 THEN asked - 1 ELSE asked)
      /\ due' = (IF asked = 0 /\ due # <<>> THEN Tail(due) ELSE due)
  BY DEF KeyInv, KeyTypeOK, QuitsInFront, Getch
<1>6. kbhead' = kbtail => Count' = 0
  <2>1. kbtail' = kbtail /\ kbtail \in Cell
    BY DEF Getch, KeyInv, KeyTypeOK
  <2> QED  BY <2>1, KeyAssumption DEF Count, CountOf, Cell
<1>7. /\ due \in Seq(Nat) /\ Len(due) \in Nat /\ CellsTo(due, Len(due)) \in Nat
      /\ asked + CellsTo(due, Len(due)) <= Count
      /\ ~lossy => asked + CellsTo(due, Len(due)) = Count
  <2>1. due \in Seq(Nat) /\ Len(due) \in Nat /\ CellsTo(due, Len(due)) \in Nat
    BY LenProperties, CellsFacts DEF KeysComing
  <2> QED  BY <1>2, <1>4, <1>5, <2>1 DEF KeysComing
<1>8. CASE asked > 0
  <2>1. k = 1
    <3>1. Queued[1] = KB_WINDOW_QUIT /\ KB_WINDOW_QUIT # 0
      BY <1>2, <1>5, <1>8 DEF KeyInv, QuitsInFront, KB_WINDOW_QUIT
    <3> QED  BY <1>1, <3>1 DEF TakesTwo
  <2>2. asked' = asked - 1 /\ due' = due /\ asked' \in Nat
    BY <1>5, <1>8
  <2>3. \A p \in 1..CellsTo(due, Len(due)) : Coming'[asked' + p] = Coming[asked + p]
    <3> TAKE p \in 1..CellsTo(due, Len(due))
    <3>1. asked' + p \in 1..Count - k /\ (asked' + p) + k = asked + p
      BY <1>2, <1>5, <1>7, <1>8, <2>1, <2>2
    <3> QED  BY <1>3, <1>4, <3>1
  <2>4. asked' + CellsTo(due, Len(due)) <= Count'
    BY <1>2, <1>5, <1>7, <2>1, <2>2
  <2>5. ~lossy' => asked' + CellsTo(due, Len(due)) = Len(Coming')
    <3>1. CASE ~lossy
      BY <1>2, <1>4, <1>5, <1>7, <2>1, <2>2, <3>1
    <3>2. CASE kbhead' = kbtail
      BY <1>2, <1>4, <1>6, <1>7, <2>2, <2>4, <3>2
    <3> QED  BY <1>5, <3>1, <3>2
  <2> QED  BY <1>5, <2>2, <2>3, <2>4, <2>5, AllKept
<1>9. CASE asked = 0 /\ due # <<>>
  <2> DEFINE keys == due
             rest == Tail(due)
             codes == Coming
             other == Coming'
             w == Cells(due[1])
             c == CellsTo(due, Len(due))
  <2>1. k = w
    <3>1. TakesTwo <=> Cells(due[1]) = 2
      BY <1>9, GetchReturnsKey
    <3> QED  BY <1>1, <3>1 DEF Cells
  <2>2. asked' = 0 /\ due' = rest
    BY <1>5, <1>9
  <2>3. Shows(codes, 0, keys)
    BY <1>9 DEF KeysComing
  <2>4. \A p \in 1..c - w : other[p] = codes[p + w]
    <3> HIDE DEF w, c
    <3>1. c \in Nat /\ c <= Count
      BY <1>2, <1>7, <1>9 DEF c
    <3> TAKE p \in 1..c - w
    <3>2. p \in 1..Count - k
      BY <1>2, <2>1, <3>1
    <3> QED  BY <1>3, <1>4, <2>1, <3>2
  <2>5. /\ rest \in Seq(Nat)
        /\ c = w + CellsTo(rest, Len(rest))
        /\ Shows(other, 0, rest)
    <3>1. keys \in Seq(Nat) /\ keys # <<>>
      BY <1>7, <1>9
    <3> HIDE DEF codes, other
    <3> QED  BY <2>3, <2>4, <3>1, ShowsTail
  <2>6. CellsTo(rest, Len(rest)) \in Nat
    BY <2>5, LenProperties, CellsFacts
  <2> HIDE DEF rest, w, c
  <2>7. CellsTo(rest, Len(rest)) <= Count'
    BY <1>2, <1>7, <1>9, <2>1, <2>5, <2>6 DEF c
  <2>8. ~lossy' => CellsTo(rest, Len(rest)) = Len(Coming')
    <3>1. CASE ~lossy
      BY <1>2, <1>4, <1>7, <1>9, <2>1, <2>5, <2>6, <3>1 DEF c
    <3>2. CASE kbhead' = kbtail
      BY <1>2, <1>4, <1>6, <2>6, <2>7, <3>2
    <3> QED  BY <1>5, <3>1, <3>2
  <2>9. /\ due' \in Seq(Nat) /\ Shows(Coming', asked', due')
        /\ asked' + CellsTo(due', Len(due')) = CellsTo(rest, Len(rest))
    BY <2>2, <2>5, <2>6
  <2> QED  BY <2>7, <2>8, <2>9 DEF KeysComing, Shows, CellsTo
<1>10. CASE asked = 0 /\ due = <<>>
  <2>1. asked' = 0 /\ due' = <<>> /\ Len(due') = 0 /\ due' \in Seq(Nat)
    BY <1>5, <1>10, EmptySeq
  <2>2. CellsTo(due, Len(due)) = 0 /\ CellsTo(due', Len(due')) = 0
    BY <1>10, <2>1, EmptySeq, CellsFacts
  <2>3. ~lossy' => Len(Coming') = 0
    <3>1. lossy
      BY <1>2, <1>7, <1>10, <2>2
    <3> QED  BY <1>2, <1>4, <1>5, <1>6, <3>1
  <2>4. Shows(Coming', asked', due')
    BY <2>1 DEF Shows
  <2>5. Count' \in Nat
    BY <1>2
  <2> QED  BY <2>1, <2>2, <2>3, <2>4, <2>5 DEF KeysComing, Shows, CellsTo
<1> QED  BY <1>5, <1>8, <1>9, <1>10

LEMMA KeysStep ==
  ASSUME KeyInv, KeysComing, [Next]_vars
  PROVE  KeysComing'
<1>0. KeyTypeOK'
  BY TypeStep DEF KeyInv
<1>1. ASSUME NEW looked \in Texts, PressText(looked) PROVE KeysComing'
  BY <1>1 DEF PressText, ringVars, history, KeysComing, Coming, Queued, Count
<1>2. ASSUME NEW keycode \in Keycodes, PressSpecial(keycode) PROVE KeysComing'
  <2>1. Special(keycode) \in Nat
    BY KeyAssumption DEF Special
  <2> QED  BY <1>0, <1>2, <2>1, PressedShown, PressKeepsKeys DEF PressSpecial
<1>8. CASE TypeChar
  <2> DEFINE code == Signed(Head(text))
  <2>1. /\ Head(text) \in Chars /\ code # KB_WINDOW_QUIT
        /\ Press(<<code>>, Shown(code))
    BY <1>8, TextLeft DEF TypeChar, KeyInv
  <2>2. code \in Codes /\ code # 0 /\ code < 256 /\ Shown(code) \in Nat
    BY <2>1 DEF Signed, Chars, Codes, Shown
  <2> HIDE DEF code
  <2> QED  BY <1>0, <2>1, <2>2, PressedShown, PressKeepsKeys
<1>9. CASE TypeQuit
  BY <1>0, <1>9, QuitKeepsKeys DEF TypeQuit
<1>3. CASE AppendCode
  BY <1>3, AppendKeepsKeys
<1>4. CASE LoseCode
  BY <1>0, <1>4, LoseKeepsKeys
<1>5. CASE CloseClicked
  BY <1>0, <1>5, QuitKeepsKeys DEF CloseClicked
<1>6. CASE Getch
  BY <1>0, <1>6, GetchKeepsKeys
<1>7. CASE UNCHANGED vars
  BY <1>7 DEF vars, ringVars, history, KeysComing, Coming, Queued, Count
<1> QED  BY <1>1, <1>2, <1>3, <1>4, <1>5, <1>6, <1>7, <1>8, <1>9 DEF Next

(* Keys come out in the order they were pressed, each once and whole, and  *)
(* in a full ring those pressed before the first one lost still do, for    *)
(* every size of the ring and every set of keys; a character from 128 on   *)
(* comes out as a 0.                                                       *)
THEOREM KeysOut == Spec => KeysInOrder
<1>1. Init => DueInv
  <2> SUFFICES ASSUME Init PROVE DueInv
    OBVIOUS
  <2>1. KeyInv
    BY TypeInit DEF Init, KeyInv, QuitsInFront, Count, CountOf
  <2>2. Count = 0 /\ typing = <<>> /\ asked = 0 /\ due = <<>> /\ ~lossy
    BY DEF Init, Count, CountOf
  <2>3. Len(Coming) = 0
    BY <2>1, <2>2, ComingFacts, EmptySeq DEF KeyInv
  <2>4. due \in Seq(Nat) /\ Len(due) = 0 /\ CellsTo(due, 0) = 0
    BY <2>2, EmptySeq, CellsFacts
  <2> QED  BY <2>1, <2>2, <2>3, <2>4 DEF DueInv, KeysComing, Shows
<1>2. DueInv /\ [Next]_vars => DueInv'
  BY TypeStep, QuitsStep, KeysStep DEF DueInv, KeyInv
<1>3. ASSUME DueInv, Getch, asked = 0, due # <<>> \/ ~lossy
      PROVE  due # <<>> /\ got' = Head(due)
  <2>1. due # <<>>
    <3> SUFFICES ASSUME due = <<>> PROVE FALSE
      OBVIOUS
    <3>1. Len(Coming) = Count /\ Count > 0 /\ Count \in Nat
      BY <1>3, ComingFacts, TypeFacts DEF DueInv, KeyInv, Getch, Waiting
    <3>2. CellsTo(due, Len(due)) = 0
      BY EmptySeq, CellsFacts
    <3> QED  BY <1>3, <3>1, <3>2 DEF DueInv, KeysComing
  <2> QED  BY <1>3, <2>1, GetchReturnsKey DEF DueInv
<1> QED  BY <1>1, <1>2, <1>3, PTL DEF Spec, KeysInOrder
=============================================================================
