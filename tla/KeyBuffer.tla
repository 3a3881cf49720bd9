----------------------------- MODULE KeyBuffer -----------------------------
(***************************************************************************)
(* The keyboard of the X windows library (xwinlite.c): the event loop puts *)
(* codes into a ring and getch takes them out.  An ordinary key is one     *)
(* code; a key that has no character is a 0 and its keycode; a click on    *)
(* the window's close button is KB_WINDOW_QUIT, put in front.  One thread: *)
(* events are handled inside kbhit and getch, one at a time.  A key event  *)
(* may append several codes, and getch may take two.                       *)
(*                                                                         *)
(* The characters of a key are signed chars passed as ints, so those from  *)
(* 128 on are negative codes: 0xFE is KB_WINDOW_QUIT itself, and 0xFF is   *)
(* KB_EMPTY, which kbhit takes for an empty ring.                          *)
(*                                                                         *)
(* Left out: stopevents, which no code sets.                               *)
(***************************************************************************)
EXTENDS Integers, FiniteSets, Sequences

CONSTANTS
    KB_BUFSIZE,  \* the codes the ring can hold (200)
    Texts,       \* what a key may be looked up as: one character, or a macro
                 \*   (its null characters, which are skipped, left out)
    Keycodes     \* keycodes of other keys, with the modifiers' bits

KB_EMPTY == -1
KB_WINDOW_QUIT == -2
Chars == 1..255

ASSUME KeyAssumption ==
    /\ KB_BUFSIZE \in Nat \ {0}
    /\ Texts \subseteq Seq(Chars)
    /\ Keycodes \subseteq Nat \ {0}

VARIABLES
    kbbuffer, kbhead, kbtail,  \* the ring
    text,     \* characters of the key at hand that the loop has not come to
    typing,   \* codes it has still to append
    taken,    \* the codes the last getch took
    got,      \* and what it returned
    asked,    \* history: clicks on close and characters 0xFE that getch has
              \*   not returned, as far as the ring can hold them
    due,      \* history: the keys getch has to return next, in their order
    lossy     \* history: a code was lost since the ring was empty

ringVars == <<kbbuffer, kbhead, kbtail>>
history  == <<asked, due, lossy>>
vars     == <<ringVars, text, typing, taken, got, history>>

Cell  == 0..KB_BUFSIZE
Codes == (((-128)..127) \ {KB_WINDOW_QUIT}) \cup Keycodes

(* A character as the int that kb_append is given. *)
Signed(char) == IF char < 128 THEN char ELSE char - 256

NextCell(i) == IF i < KB_BUFSIZE THEN i + 1 ELSE 0
PrevCell(i) == IF i > 0 THEN i - 1 ELSE KB_BUFSIZE

(* What a ring with this head and tail holds, from the code getch takes    *)
(* next to the newest.                                                     *)
CountOf(head, tail) == IF tail >= head THEN tail - head ELSE tail - head + KB_BUFSIZE + 1

Place(head, i) == IF head + i - 1 <= KB_BUFSIZE THEN head + i - 1
                                                ELSE head + i - 1 - (KB_BUFSIZE + 1)

Contents(ring, head, tail) == [i \in 1..CountOf(head, tail) |-> ring[Place(head, i)]]

Count  == CountOf(kbhead, kbtail)
Queued == Contents(kbbuffer, kbhead, kbtail)

(* getch returns a keycode with bit 8 set. *)
Special(keycode) == 256 + keycode

(* And for a character it returns its code, or 0 if that is negative. *)
Shown(code) == IF code > 0 THEN code ELSE 0

Init ==
    /\ kbbuffer = [c \in Cell |-> 0]
    /\ kbhead = 0
    /\ kbtail = 0
    /\ text = <<>>
    /\ typing = <<>>
    /\ taken = <<>>
    /\ got = 0
    /\ asked = 0
    /\ due = <<>>
    /\ lossy = FALSE

-----------------------------------------------------------------------------
(* The cells that keys take, and those keys of a sequence, from the first, *)
(* that find room.                                                         *)
CellsOf(keys) == Len(keys) + Cardinality({i \in DOMAIN keys : keys[i] >= 256})

Whole(keys, room) ==
    SubSeq(keys, 1, CHOOSE n \in 0..Len(keys) :
        /\ CellsOf(SubSeq(keys, 1, n)) <= room
        /\ n < Len(keys) => CellsOf(SubSeq(keys, 1, n + 1)) > room)

(* KeyPress: XLookupString gives a text, or nothing. *)
PressText(looked) ==
    /\ typing = <<>> /\ text = <<>>
    /\ text' = looked
    /\ UNCHANGED <<ringVars, typing, taken, got, history>>

Press(codes, key) ==
    /\ typing = <<>>
    /\ typing' = codes
    /\ due' = IF lossy THEN due ELSE Append(due, key)
    /\ UNCHANGED <<ringVars, taken, got, asked, lossy>>

PressSpecial(keycode) ==
    /\ text = <<>>
    /\ Press(<<0, keycode>>, Special(keycode))
    /\ UNCHANGED text

(* The next character of the text. *)
TypeChar ==
    /\ text # <<>>
    /\ LET code == Signed(Head(text))
       IN code # KB_WINDOW_QUIT /\ Press(<<code>>, Shown(code))
    /\ text' = Tail(text)

(* kb_append: the code is stored at the tail, unless that would fill the   *)
(* last cell; then the tail is put back and the cell restored.             *)
AppendCode ==
    /\ typing # <<>>
    /\ NextCell(kbtail) # kbhead
    /\ kbbuffer' = [kbbuffer EXCEPT ![kbtail] = Head(typing)]
    /\ kbtail' = NextCell(kbtail)
    /\ typing' = Tail(typing)
    /\ UNCHANGED <<kbhead, text, taken, got, history>>

(* mutant: the tail is not put back, and the ring is as good as empty *)
LoseCodeAndAll ==
    /\ typing # <<>>
    /\ NextCell(kbtail) = kbhead
    /\ kbbuffer' = [kbbuffer EXCEPT ![kbtail] = Head(typing)]
    /\ kbtail' = NextCell(kbtail)
    /\ typing' = Tail(typing)
    /\ due' = Whole(due, Count - asked)
    /\ lossy' = TRUE
    /\ UNCHANGED <<kbhead, text, taken, got, asked>>

LoseCode ==
    /\ typing # <<>>
    /\ NextCell(kbtail) = kbhead
    /\ typing' = Tail(typing)
    /\ due' = Whole(due, Count - asked)
    /\ lossy' = TRUE
    /\ UNCHANGED <<ringVars, text, taken, got, asked>>

(* mutant: a full ring is not looked for: head meets tail *)
QuitInFrontUnchecked ==
    /\ typing = <<>>
    /\ kbhead' = PrevCell(kbhead)
    /\ kbbuffer' = [kbbuffer EXCEPT ![kbhead'] = KB_WINDOW_QUIT]
    /\ asked' = IF asked < KB_BUFSIZE THEN asked + 1 ELSE asked
    /\ lossy' = (lossy \/ Count = KB_BUFSIZE)
    /\ UNCHANGED <<kbtail, typing, taken, got, due>>

(* kb_append of KB_WINDOW_QUIT: it goes in front of the head; if the ring  *)
(* was full, the tail moves back over the newest code.                     *)
QuitInFront ==
    /\ typing = <<>>
    /\ kbhead' = PrevCell(kbhead)
    /\ kbbuffer' = [kbbuffer EXCEPT ![kbhead'] = KB_WINDOW_QUIT]
    /\ kbtail' = IF kbtail = kbhead' THEN PrevCell(kbtail) ELSE kbtail
    /\ asked' = IF asked < KB_BUFSIZE THEN asked + 1 ELSE asked
    /\ due' = IF kbtail = kbhead' THEN Whole(due, KB_BUFSIZE - asked') ELSE due
    /\ lossy' = (lossy \/ kbtail = kbhead')
    /\ UNCHANGED <<typing, taken, got>>

(* ClientMessage: a click on the close button. *)
CloseClicked ==
    /\ text = <<>>
    /\ QuitInFront
    /\ UNCHANGED text

(* The character 0xFE of a text is taken for one. *)
TypeQuit ==
    /\ text # <<>>
    /\ Signed(Head(text)) = KB_WINDOW_QUIT
    /\ QuitInFront
    /\ text' = Tail(text)

(* What getch makes of the codes at the head, and how many it takes: an    *)
(* ordinary character or the request to quit, or a keycode behind a 0.  A  *)
(* 0 that nothing follows, or another 0, and a negative code are returned  *)
(* as 0.  It waits while kbhit sees nothing or KB_EMPTY at the head.       *)
Waiting == Count > 0 /\ Queued[1] # KB_EMPTY

Second == IF Count > 1 THEN Queued[2] ELSE KB_EMPTY

LastTaken == IF Queued[1] = 0 THEN Second ELSE Queued[1]

Answer ==
    CASE Queued[1] > 0                -> Queued[1]
      [] Queued[1] = 0 /\ Second > 0 -> Special(Second)
      [] OTHER                        -> IF LastTaken = KB_WINDOW_QUIT THEN KB_WINDOW_QUIT ELSE 0

TakesTwo == Queued[1] = 0 /\ Count > 1

(* mutant: the 0 is looked at and not removed when nothing follows yet *)
GetchTakesOne ==
    /\ typing = <<>> /\ text = <<>>
    /\ Waiting
    /\ got' = Answer
    /\ taken' = SubSeq(Queued, 1, 1)
    /\ kbhead' = NextCell(kbhead)
    /\ asked' = IF asked > 0 THEN asked - 1 ELSE asked
    /\ due' = IF asked = 0 /\ due # <<>> THEN Tail(due) ELSE due
    /\ lossy' = (lossy /\ kbhead' # kbtail)
    /\ UNCHANGED <<kbbuffer, kbtail, text, typing>>

Getch ==
    /\ typing = <<>> /\ text = <<>>
    /\ Waiting
    /\ got' = Answer
    /\ taken' = SubSeq(Queued, 1, IF TakesTwo THEN 2 ELSE 1)
    /\ kbhead' = IF TakesTwo THEN NextCell(NextCell(kbhead)) ELSE NextCell(kbhead)
    /\ asked' = IF asked > 0 THEN asked - 1 ELSE asked
    /\ due' = IF asked = 0 /\ due # <<>> THEN Tail(due) ELSE due
    /\ lossy' = (lossy /\ kbhead' # kbtail)
    /\ UNCHANGED <<kbbuffer, kbtail, text, typing>>

Next ==
    \/ \E looked \in Texts : PressText(looked)
    \/ \E keycode \in Keycodes : PressSpecial(keycode)
    \/ TypeChar \/ TypeQuit
    \/ AppendCode \/ LoseCode
    \/ CloseClicked
    \/ Getch

Spec == Init /\ [][Next]_vars

-----------------------------------------------------------------------------
KeyTypeOK ==
    /\ kbbuffer \in [Cell -> Codes \cup {KB_WINDOW_QUIT}]
    /\ kbhead \in Cell /\ kbtail \in Cell
    /\ text \in Seq(Chars)
    /\ typing \in Seq(Codes)
    /\ asked \in 0..KB_BUFSIZE
    /\ lossy \in BOOLEAN

(* "may be called by any function to tell window to quit by prepending     *)
(* KB_WINDOW_QUIT ... forces signal to head" (xwinlite.c:3177-3221): a     *)
(* request to quit is what getch returns next, once for every request that *)
(* found room, however full the ring was; and getch returns one only when  *)
(* there was a click on the close button, or the character 0xFE, for it.   *)
QuitComesFirst == [][Getch => (got' = KB_WINDOW_QUIT <=> asked > 0)]_vars

(* "prevent losing buffer when full -- lose most recent chars instead"     *)
(* (xwinlite.c:3179): keys come out in the order they were pressed, each   *)
(* once and whole, and in a full ring those pressed before the first one   *)
(* lost still do.  Characters below 128 and keycodes come out unchanged;   *)
(* those from 128 on as a 0.  (0xFE is no key here; at 0xFF getch waits.)  *)
KeysInOrder ==
    [][Getch /\ asked = 0 /\ (due # <<>> \/ ~lossy)
         => due # <<>> /\ got' = Head(due)]_vars

Deque == INSTANCE KeyDeque WITH CAPACITY <- KB_BUFSIZE, Codes <- Codes,
            QUIT <- KB_WINDOW_QUIT, queue <- Queued, taken <- taken

(* The ring is a double-ended queue of KB_BUFSIZE codes. *)
ImplementsDeque == Deque!DequeSpec
=============================================================================
