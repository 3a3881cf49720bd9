--------------------------- MODULE DirScan_proofs ---------------------------
(***************************************************************************)
(* Theorems about the directory scanner, for every tree, every pattern,    *)
(* every set of directories that are shut, and both limits.                *)
(***************************************************************************)
EXTENDS DirScan, SequenceTheorems, FiniteSetTheorems, TLAPS

(* The frames are those of a path down the tree, from the top.             *)
Stack ==
    /\ frames = <<>> <=> pc \in {"start", "over"}
    /\ frames # <<>> => frames[1].dir = Top
    /\ \A i \in 1..Len(frames) - 1 :
           /\ frames[i + 1].dir # Top /\ home[frames[i + 1].dir] = frames[i].dir
           /\ frames[i].dir \notin hidden
    /\ \A i, j \in 1..Len(frames) : i < j => frames[i].dir < frames[j].dir
    /\ pc \in {"subdirs", "files", "finish"} => Dir \notin hidden /\ Len(frames) <= MAXNEST

(* What is left of each frame's loop.                                      *)
Lists ==
    /\ \A i \in 1..Len(frames) :
           i < Len(frames) \/ pc = "subdirs" => frames[i].todo \subseteq SubdirsOf(frames[i].dir)
    /\ pc = "files" => Todo \subseteq FilesOf(Dir)

(* The scanner works on a directory in this directory, if it can be        *)
(* entered and until file_process leaves it.                               *)
Located ==
    /\ pc = "subdirs" /\ Dir \notin locked => cwd = Dir
    /\ pc = "files" /\ Dir \notin locked => cwd = Dir \/ Strayed(Dir)
    /\ pc \in {"subdirs", "files", "finish"} => sdir \in {Dir} \cup SubdirsOf(Dir)
    /\ pc = "enter" => sdir = Dir

About(e) == \E i \in DOMAIN calls : calls[i].of = e

(* A call about an entry comes after dir_process of the directory it is in, *)
(* and one about a directory after its own dir_process.                    *)
Parents ==
    \A k \in Kinds, e \in Entries :
        Called(k, e) =>
            /\ k = "file_process" <=> e \in Files
            /\ \A d \in Dirs : e # Top /\ home[e] = d => Called("dir_process", d)
            /\ e \in Dirs => Called("dir_process", e)

(* The frames' directories are begun and not finished, and where a loop    *)
(* has still to come nothing has been called.                              *)
Underway ==
    \A i \in 1..Len(frames), d \in Dirs : d = frames[i].dir =>
        /\ Called("dir_process", d)
        /\ i < Len(frames) \/ pc # "return" => ~Called("dir_finish", d)
        /\ i < Len(frames) \/ pc \notin {"finish", "return"} => ~Called("filelist_finish", d)
        /\ i < Len(frames) \/ pc = "subdirs" =>
              /\ \A s \in frames[i].todo : ~About(s)
              /\ \A f \in FilesOf(d) : ~About(f)

Ahead ==
    /\ pc = "start" => calls = <<>>
    /\ pc = "enter" => \A e \in Entries \ {Top} : home[e] = Dir => ~About(e)
    /\ pc = "files" => \A f \in Todo : ~About(f)

ScanInv == ScanTypeOK /\ Stack /\ Lists /\ Located /\ Parents /\ Underway /\ Ahead

-----------------------------------------------------------------------------
FrameType == [dir : Dirs, todo : SUBSET Entries]
CallType  == [kind : Kinds, of : Entries, more : BOOLEAN,
              cwd : Dirs \cup {Outside}, sdir : Dirs, kept : BOOLEAN]

LEMMA Places == Top \in Dirs /\ Dirs \subseteq Entries /\ Files \subseteq Entries
                /\ Dirs \subseteq Nat /\ MAXNEST \in Nat \ {0}
                /\ \A e \in Entries : e \in Files <=> e \notin Dirs
    BY ScanAssumption DEF Entries

LEMMA TreeFacts ==
    ASSUME home \in Trees
    PROVE  /\ home \in [Entries -> Dirs]
           /\ \A s \in Dirs : s # Top => home[s] < s
           /\ \A d : SubdirsOf(d) \subseteq Dirs \ {Top} /\ FilesOf(d) \subseteq Files
    BY Places DEF Trees, SubdirsOf, FilesOf

LEMMA TreeKept ==
    ASSUME UNCHANGED tree
    PROVE  /\ UNCHANGED <<home, matching, locked, hidden>>
           /\ \A d : SubdirsOf(d)' = SubdirsOf(d) /\ FilesOf(d)' = FilesOf(d)
    BY DEF tree, SubdirsOf, FilesOf

LEMMA FrameFacts ==
    ASSUME frames \in Seq(FrameType)
    PROVE  /\ Len(frames) \in Nat
           /\ \A i \in 1..Len(frames) : frames[i].dir \in Dirs /\ frames[i].todo \subseteq Entries
           /\ frames # <<>> <=> Len(frames) > 0
           /\ frames # <<>> => Dir \in Dirs /\ Todo \subseteq Entries
<1>1. Len(frames) \in Nat /\ \A i \in 1..Len(frames) : frames[i] \in FrameType
    BY ElementOfSeq
<1>2. frames # <<>> <=> Len(frames) > 0
    BY EmptySeq
<1> QED BY <1>1, <1>2 DEF FrameType, Dir, Todo

(* What a list for the innermost frame, a new frame and a return do.       *)
Relisted(x) ==
    /\ frames' \in Seq(FrameType) /\ Len(frames') = Len(frames)
    /\ \A i \in 1..Len(frames) :
           /\ frames'[i].dir = frames[i].dir
           /\ frames'[i].todo = IF i = Len(frames) THEN x ELSE frames[i].todo

LEMMA WorkingFacts ==
    ASSUME frames \in Seq(FrameType), frames # <<>>, NEW x \in SUBSET Entries
    PROVE  /\ Working(x) \in Seq(FrameType) /\ Len(Working(x)) = Len(frames)
           /\ \A i \in 1..Len(frames) :
                  /\ Working(x)[i].dir = frames[i].dir
                  /\ Working(x)[i].todo = IF i = Len(frames) THEN x ELSE frames[i].todo
<1> DEFINE n == Len(frames)
           g == Working(x)
           new == [frames[n] EXCEPT !.todo = x]
<1>1. n \in Nat /\ n > 0 /\ \A i \in 1..n : frames[i] \in FrameType
    BY FrameFacts, ElementOfSeq
<1>2. g = [frames EXCEPT ![n] = new]
    BY DEF Working
<1>3. new \in FrameType /\ new.dir = frames[n].dir /\ new.todo = x
    <2>1. frames[n] \in FrameType
        BY <1>1
    <2> QED BY <2>1 DEF FrameType
<1>4. g \in Seq(FrameType) /\ Len(g) = n /\ \A i \in 1..n : g[i] = IF i = n THEN new ELSE frames[i]
    <2> HIDE DEF new, g
    <2> QED BY <1>1, <1>2, <1>3, ExceptSeq
<1> QED BY <1>3, <1>4

LEMMA WorkingRelists ==
    ASSUME frames \in Seq(FrameType), frames # <<>>, NEW x \in SUBSET Entries,
           frames' = Working(x)
    PROVE  Relisted(x) /\ Dir' = Dir /\ Todo' = x
    BY WorkingFacts, FrameFacts DEF Relisted, Dir, Todo

Pushed(x, s) ==
    /\ frames' \in Seq(FrameType) /\ Len(frames') = Len(frames) + 1
    /\ frames'[Len(frames) + 1] = [dir |-> s, todo |-> {}]
    /\ \A i \in 1..Len(frames) :
           /\ frames'[i].dir = frames[i].dir
           /\ frames'[i].todo = IF i = Len(frames) THEN x ELSE frames[i].todo

LEMMA AppendPushes ==
    ASSUME frames \in Seq(FrameType), frames # <<>>, NEW x \in SUBSET Entries, NEW s \in Dirs,
           frames' = Append(Working(x), [dir |-> s, todo |-> {}])
    PROVE  Pushed(x, s) /\ Dir' = s /\ Todo' = {}
<1> DEFINE g == Working(x)
           f == [dir |-> s, todo |-> {}]
<1>1. /\ g \in Seq(FrameType) /\ Len(g) = Len(frames)
      /\ \A i \in 1..Len(frames) :
             /\ g[i].dir = frames[i].dir
             /\ g[i].todo = IF i = Len(frames) THEN x ELSE frames[i].todo
    BY WorkingFacts
<1>2. f \in FrameType
    BY DEF FrameType
<1> HIDE DEF g, f
<1>3. /\ Append(g, f) \in Seq(FrameType) /\ Len(Append(g, f)) = Len(g) + 1
      /\ \A i \in 1..Len(g) : Append(g, f)[i] = g[i]
      /\ Append(g, f)[Len(g) + 1] = f
    BY <1>1, <1>2, AppendProperties
<1>4. Pushed(x, s)
    BY <1>1, <1>3 DEF Pushed, g, f
<1> QED BY <1>4, FrameFacts DEF Pushed, Dir, Todo

Popped ==
    /\ frames' \in Seq(FrameType) /\ Len(frames') = Len(frames) - 1
    /\ \A i \in 1..Len(frames) - 1 : frames'[i] = frames[i]

LEMMA SubSeqPops ==
    ASSUME frames \in Seq(FrameType), Len(frames) > 1,
           frames' = SubSeq(frames, 1, Len(frames) - 1)
    PROVE  Popped /\ Dir' = frames[Len(frames) - 1].dir
<1>1. Popped
    BY FrameFacts, SubSeqProperties, ElementOfSeq DEF Popped
<1> QED BY <1>1, FrameFacts DEF Popped, Dir

(* What one more call does to the history.                                 *)
Recorded(kind, of) ==
    /\ calls' \in Seq(CallType) /\ Len(calls') = Len(calls) + 1
    /\ \A i \in 1..Len(calls) : calls'[i] = calls[i]
    /\ calls'[Len(calls) + 1].kind = kind /\ calls'[Len(calls) + 1].of = of
    /\ calls'[Len(calls) + 1].cwd = cwd /\ calls'[Len(calls) + 1].sdir = sdir'
    /\ kind = "file_process" /\ calls'[Len(calls) + 1].kept => cwd' = cwd

LEMMA CallRecords ==
    ASSUME calls \in Seq(CallType), NEW kind \in Kinds, NEW of \in Entries, NEW more \in BOOLEAN,
           cwd \in Dirs \cup {Outside}, sdir' \in Dirs, Call(kind, of, more)
    PROVE  Recorded(kind, of)
<1> DEFINE kept == kind = "file_process" => cwd' = cwd
           r == [kind |-> kind, of |-> of, more |-> more, cwd |-> cwd, sdir |-> sdir', kept |-> kept]
<1>0. kept \in BOOLEAN
    OBVIOUS
<1>1. r \in CallType
    <2> HIDE DEF kept
    <2> QED BY <1>0 DEF CallType
<1>2. calls' = Append(calls, r)
    BY DEF Call
<1>3. r.kind = kind /\ r.of = of /\ r.cwd = cwd /\ r.sdir = sdir' /\ r.kept = kept
    OBVIOUS
<1> HIDE DEF r
<1>4. /\ calls' \in Seq(CallType) /\ Len(calls') = Len(calls) + 1
      /\ \A i \in 1..Len(calls) : calls'[i] = calls[i]
      /\ calls'[Len(calls) + 1] = r
    BY <1>1, <1>2, AppendProperties
<1> QED BY <1>3, <1>4 DEF Recorded

LEMMA RecordedFacts ==
    ASSUME calls \in Seq(CallType), NEW kind, NEW of, Recorded(kind, of)
    PROVE  /\ \A k, e : Called(k, e)' <=> Called(k, e) \/ (k = kind /\ e = of)
           /\ \A e : About(e)' <=> About(e) \/ e = of
           /\ home' = home => \A d : Strayed(d) => Strayed(d)'
<1>1. Len(calls) \in Nat /\ DOMAIN calls = 1..Len(calls) /\ DOMAIN calls' = 1..Len(calls) + 1
    BY DEF Recorded
<1> QED BY <1>1 DEF Recorded, Called, About, Strayed

-----------------------------------------------------------------------------
(* The parts of the invariant through the steps of one kind.               *)
LEMMA StackSame ==
    ASSUME Stack, frames \in Seq(FrameType), frames # <<>>, UNCHANGED tree,
           frames' \in Seq(FrameType), Len(frames') = Len(frames),
           \A i \in 1..Len(frames) : frames'[i].dir = frames[i].dir,
           pc' \notin {"start", "over"},
           pc' \in {"subdirs", "files", "finish"} => Dir \notin hidden /\ Len(frames) <= MAXNEST
    PROVE  Stack'
<1>1. Len(frames) \in Nat /\ Len(frames) > 0 /\ frames' # <<>> /\ Dir' = Dir
    BY FrameFacts, EmptySeq DEF Dir
<1>2. UNCHANGED <<home, matching, locked, hidden>> /\ \A i \in 1..Len(frames) - 1 : i + 1 \in 1..Len(frames)
    BY <1>1, TreeKept
<1>3. frames'[1].dir = Top
    BY <1>1 DEF Stack
<1>4. ASSUME NEW i \in 1..Len(frames') - 1
      PROVE  /\ frames'[i + 1].dir # Top /\ home'[frames'[i + 1].dir] = frames'[i].dir
             /\ frames'[i].dir \notin hidden'
    <2>1. /\ frames[i + 1].dir # Top /\ home[frames[i + 1].dir] = frames[i].dir
          /\ frames[i].dir \notin hidden
        BY DEF Stack
    <2>2. i \in 1..Len(frames) /\ i + 1 \in 1..Len(frames)
        BY <1>1, <1>2
    <2>3. frames'[i].dir = frames[i].dir /\ frames'[i + 1].dir = frames[i + 1].dir
        BY <2>2
    <2> QED BY <1>2, <2>1, <2>3
<1>5. \A i, j \in 1..Len(frames') : i < j => frames'[i].dir < frames'[j].dir
    BY DEF Stack
<1> QED BY <1>1, <1>2, <1>3, <1>4, <1>5 DEF Stack

LEMMA ParentsSame == ASSUME Parents, UNCHANGED <<tree, calls>> PROVE Parents'
    BY TreeKept DEF Parents, Called

LEMMA ParentsMore ==
    ASSUME Parents, UNCHANGED tree, calls \in Seq(CallType), NEW kind \in Kinds, NEW of \in Entries,
           Recorded(kind, of),
           kind = "file_process" <=> of \in Files,
           \A d \in Dirs : of # Top /\ home[of] = d => Called("dir_process", d),
           of \in Dirs => kind = "dir_process" \/ Called("dir_process", of)
    PROVE  Parents'
<1>1. \A k, e : Called(k, e)' <=> Called(k, e) \/ (k = kind /\ e = of)
    BY RecordedFacts
<1>2. home' = home
    BY TreeKept
<1>3. ASSUME NEW k \in Kinds, NEW e \in Entries, Called(k, e)'
      PROVE  /\ k = "file_process" <=> e \in Files
             /\ \A d \in Dirs : e # Top /\ home[e] = d => Called("dir_process", d)'
             /\ e \in Dirs => Called("dir_process", e)'
    <2>1. CASE Called(k, e)
        BY <1>1, <2>1 DEF Parents
    <2>2. CASE k = kind /\ e = of
        BY <1>1, <2>2
    <2> QED BY <1>1, <1>3, <2>1, <2>2
<1> QED BY <1>2, <1>3 DEF Parents

(* What the invariant says of any state with frames.                       *)
LEMMA InvFacts ==
    ASSUME ScanInv
    PROVE  /\ frames \in Seq(FrameType) /\ calls \in Seq(CallType)
           /\ Len(frames) \in Nat /\ Len(calls) \in Nat
           /\ home \in Trees /\ home \in [Entries -> Dirs]
           /\ \A i \in 1..Len(frames) : frames[i].dir \in Dirs /\ frames[i].todo \subseteq Entries
           /\ pc \notin {"start", "over"} =>
                 Len(frames) > 0 /\ Dir \in Dirs /\ Todo \subseteq Entries
           /\ cwd \in Dirs \cup {Outside} /\ sdir \in Dirs \cup {Outside}
<1>1. /\ frames \in Seq(FrameType) /\ calls \in Seq(CallType)
      /\ home \in Trees
      /\ cwd \in Dirs \cup {Outside} /\ sdir \in Dirs \cup {Outside}
    BY DEF ScanInv, ScanTypeOK, FrameType, CallType
<1>2. Len(calls) \in Nat
    BY <1>1
<1>3. pc \notin {"start", "over"} => frames # <<>>
    BY DEF ScanInv, Stack
<1> QED BY <1>1, <1>2, <1>3, FrameFacts, TreeFacts

LEMMA RefuseStep == ASSUME ScanInv, Refuse PROVE ScanInv'
<1>1. /\ pc = "start" /\ pc' = "over"
      /\ UNCHANGED <<home, matching, locked, hidden, frames, subs, cwd, sdir, calls>>
    BY TreeKept DEF Refuse
<1> QED BY <1>1 DEF ScanInv, ScanTypeOK, Stack, Lists, Located, Parents, Underway, Ahead,
        Called, About, Todo, Dir

LEMMA StartStep == ASSUME ScanInv, Start PROVE ScanInv'
<1>1. /\ pc = "start" /\ pc' = "enter" /\ sdir' = Top /\ UNCHANGED tree
      /\ frames' = <<[dir |-> Top, todo |-> {}]>> /\ calls = <<>>
      /\ cwd' \in {cwd} \cup Strays /\ subs' \in BOOLEAN
    BY DEF Start, Stray, ScanInv, Ahead
<1>2. PICK more \in BOOLEAN : Call("dir_process", Top, more)
    BY DEF Start
<1>3. Recorded("dir_process", Top)
    BY <1>1, <1>2, InvFacts, CallRecords, Places DEF Kinds
<1>4. /\ \A k, e : Called(k, e)' <=> k = "dir_process" /\ e = Top
      /\ \A e : About(e)' <=> e = Top
    <2>1. \A k, e : ~Called(k, e) /\ ~About(e)
        <3>1. DOMAIN calls = {}
            BY <1>1
        <3> QED BY <3>1 DEF Called, About
    <2>2. calls \in Seq(CallType)
        BY InvFacts
    <2> QED BY <1>3, <2>1, <2>2, RecordedFacts
<1>5. Len(frames') = 1 /\ frames'[1].dir = Top /\ frames'[1].todo = {} /\ frames' \in Seq(FrameType)
      /\ frames' # <<>> /\ Dir' = Top
    BY <1>1, Places DEF FrameType, Dir
<1>6. ScanTypeOK'
    <2>1. frames' \in Seq(FrameType) /\ Len(frames') <= MAXNEST + 1 /\ calls' \in Seq(CallType)
        BY <1>3, <1>5, Places DEF Recorded
    <2>2. cwd' \in Dirs \cup {Outside} /\ sdir' \in Dirs \cup {Outside}
        BY <1>1, InvFacts, Places, ScanAssumption
    <2>3. home' \in Trees /\ matching' \subseteq Entries /\ locked' \subseteq Dirs /\ hidden' \subseteq Dirs
        BY <1>1, TreeKept DEF ScanInv, ScanTypeOK
    <2> QED BY <1>1, <2>1, <2>2, <2>3 DEF ScanTypeOK, FrameType, CallType
<1>7. Stack' /\ Lists' /\ Located'
    BY <1>1, <1>5 DEF Stack, Lists, Located
<1>8. Parents'
    BY <1>4, Places DEF Parents, Kinds
<1>9. Underway' /\ Ahead'
    BY <1>1, <1>4, <1>5, Places DEF Underway, Ahead
<1> QED BY <1>6, <1>7, <1>8, <1>9 DEF ScanInv

(* A call that is too deep, or finds its directory shut. *)
LEMMA GiveUpStep == ASSUME ScanInv, TooDeep \/ CannotOpen PROVE ScanInv'
<1>1. /\ pc = "enter" /\ pc' = "return"
      /\ UNCHANGED tree /\ UNCHANGED <<frames, subs, sdir, calls>>
      /\ UNCHANGED <<home, matching, locked, hidden>>
    BY TreeKept DEF TooDeep, CannotOpen
<1>0. cwd' \in Dirs \cup {Outside}
    BY <1>1, InvFacts DEF TooDeep, CannotOpen, Chdir
<1>2. Stack'
    BY <1>1, InvFacts, StackSame DEF ScanInv, Stack
<1>3. Parents'
    BY <1>1, ParentsSame DEF ScanInv
<1>4. ScanTypeOK' /\ Lists' /\ Located' /\ Ahead'
    BY <1>0, <1>1 DEF ScanInv, ScanTypeOK, Lists, Located, Ahead, SubdirsOf
<1>5. Underway'
    BY <1>1 DEF ScanInv, Underway, Called, About, FilesOf
<1> QED BY <1>2, <1>3, <1>4, <1>5 DEF ScanInv

LEMMA TypeKept ==
    ASSUME ScanInv, UNCHANGED tree, UNCHANGED subs,
           pc' \in {"enter", "subdirs", "files", "finish", "return"},
           frames' \in Seq(FrameType), Len(frames') <= MAXNEST + 1, calls' \in Seq(CallType),
           cwd' \in Dirs \cup {Outside}, sdir' \in Dirs \cup {Outside}
    PROVE  ScanTypeOK'
    BY TreeKept DEF ScanInv, ScanTypeOK, FrameType, CallType

(* The first pass. *)
LEMMA ListSubdirsStep == ASSUME ScanInv, ListSubdirs PROVE ScanInv'
<1>1. /\ pc = "enter" /\ pc' = "subdirs" /\ Len(frames) <= MAXNEST /\ Dir \notin hidden
      /\ UNCHANGED <<tree, subs, sdir, calls>>
    BY DEF ListSubdirs
<1>0. cwd' \in {cwd, Dir} /\ (Dir \notin locked => cwd' = Dir)
    BY DEF ListSubdirs, Chdir
<1>2. PICK list \in SUBSET SubdirsOf(Dir) : frames' = Working(list)
    BY DEF ListSubdirs
<1>3. frames # <<>> /\ list \subseteq Dirs \ {Top} /\ Dir \in Dirs
    BY <1>1, InvFacts, TreeFacts DEF ScanInv, Stack
<1>4. Relisted(list) /\ Dir' = Dir
    BY <1>2, <1>3, InvFacts, WorkingRelists, Places
<1>5. ScanTypeOK'
    <2>1. frames' \in Seq(FrameType) /\ Len(frames') <= MAXNEST + 1
        BY <1>1, <1>4, InvFacts, Places DEF Relisted
    <2>2. /\ cwd' \in Dirs \cup {Outside} /\ sdir' \in Dirs \cup {Outside}
          /\ calls' \in Seq(CallType) /\ UNCHANGED tree /\ UNCHANGED subs
        BY <1>0, <1>1, <1>3, InvFacts
    <2> QED BY <1>1, <2>1, <2>2, TypeKept
<1>6. Stack'
    BY <1>1, <1>3, <1>4, InvFacts, StackSame DEF ScanInv, Relisted
<1>7. Lists'
    BY <1>1, <1>4, InvFacts, TreeKept DEF ScanInv, Lists, Relisted, Dir
<1>8. Located'
    BY <1>0, <1>1, <1>4, TreeKept DEF ScanInv, Located
<1>9. Parents'
    BY <1>1, ParentsSame DEF ScanInv
<1>10. Underway'
    <2>1. /\ \A k, e : Called(k, e)' = Called(k, e)
          /\ \A e : About(e)' = About(e)
        BY <1>1 DEF Called, About
    <2>2. \A e : e \in list \cup FilesOf(Dir) => ~About(e)
        BY <1>1, <1>3, TreeFacts, Places, ScanAssumption DEF ScanInv, Ahead, SubdirsOf, FilesOf
    <2>3. ASSUME NEW i \in 1..Len(frames')
          PROVE  /\ Called("dir_process", frames'[i].dir)
                 /\ ~Called("dir_finish", frames'[i].dir)
                 /\ ~Called("filelist_finish", frames'[i].dir)
                 /\ \A s \in frames'[i].todo : ~About(s)
                 /\ \A f \in FilesOf(frames'[i].dir) : ~About(f)
        BY <1>1, <1>4, <2>2, InvFacts DEF ScanInv, Underway, Relisted, Dir
    <2> QED BY <2>1, <2>3, <1>1, TreeKept DEF Underway
<1>11. Ahead'
    BY <1>1 DEF Ahead
<1> QED BY <1>5, <1>6, <1>7, <1>8, <1>9, <1>10, <1>11 DEF ScanInv

(* The second pass: what is under way when a subdirectory is taken from the list. *)
LEMMA AboveFacts ==
    ASSUME ScanInv, NEW i \in 1..Len(frames), i # Len(frames)
    PROVE  /\ i < Len(frames) /\ frames[i].dir # Dir
           /\ frames[i].todo \subseteq SubdirsOf(frames[i].dir)
<1>1. i < Len(frames) /\ Len(frames) \in 1..Len(frames)
    BY InvFacts
<1>2. frames[i].dir < frames[Len(frames)].dir
    BY <1>1 DEF ScanInv, Stack
<1>3. frames[i].dir # frames[Len(frames)].dir
    <2>1. frames[i].dir \in Nat
        BY InvFacts, Places
    <2> QED BY <1>2, <2>1
<1> QED BY <1>1, <1>3 DEF ScanInv, Lists, Dir

LEMMA StillUnderway ==
    ASSUME ScanInv, pc = "subdirs", NEW s \in Todo, NEW i \in 1..Len(frames),
           NEW d, d = frames[i].dir
    PROVE  /\ Called("dir_process", d) /\ ~Called("dir_finish", d) /\ ~Called("filelist_finish", d)
           /\ \A e \in IF i = Len(frames) THEN Todo \ {s} ELSE frames[i].todo :
                  ~About(e) /\ e # s
           /\ \A f \in FilesOf(d) : ~About(f) /\ f # s
<1>1. /\ Called("dir_process", d) /\ ~Called("dir_finish", d) /\ ~Called("filelist_finish", d)
      /\ \A e \in frames[i].todo : ~About(e)
      /\ \A f \in FilesOf(d) : ~About(f)
    BY InvFacts DEF ScanInv, Underway
<1>2. s \in SubdirsOf(Dir)
    BY InvFacts DEF ScanInv, Lists, Dir, Todo
<1>3. s \in Dirs /\ home[s] = Dir
    BY <1>2 DEF SubdirsOf
<1>4. \A f \in FilesOf(d) : f # s
    BY <1>3, InvFacts, TreeFacts, Places
<1>5. CASE i = Len(frames)
    BY <1>1, <1>4, <1>5 DEF Todo
<1>6. CASE i # Len(frames)
    <2>1. \A e \in frames[i].todo : home[e] = d
        BY <1>6, AboveFacts DEF SubdirsOf
    <2> QED BY <1>1, <1>3, <1>4, <1>6, <2>1, AboveFacts
<1> QED BY <1>5, <1>6

(* A subdirectory that is passed over, without a call or  *)
(* after one that cut it off.                                              *)
LEMMA PassOverStep ==
    ASSUME ScanInv, pc = "subdirs", pc' = "subdirs", UNCHANGED <<tree, subs>>,
           NEW s \in Todo, frames' = Working(Todo \ {s}), sdir' \in {sdir, s},
           cwd' \in Dirs \cup {Outside}, Dir \notin locked => cwd' = Dir,
           calls' = calls \/ Recorded("dir_process", s)
    PROVE  ScanInv'
<1>1. /\ frames # <<>> /\ Dir \in Dirs /\ Todo \subseteq SubdirsOf(Dir) /\ Len(frames) > 0
      /\ Dir \notin hidden /\ Len(frames) <= MAXNEST
    BY InvFacts DEF ScanInv, Stack, Lists, Dir, Todo
<1>2. s \in Dirs /\ s # Top /\ home[s] = Dir /\ s \in SubdirsOf(Dir)
    BY <1>1 DEF SubdirsOf
<1>3. Relisted(Todo \ {s}) /\ Dir' = Dir
    BY <1>1, InvFacts, WorkingRelists
<1>4. calls' \in Seq(CallType) /\ Called("dir_process", Dir)
    BY <1>1, InvFacts DEF ScanInv, Underway, Recorded, Dir
<1>5. /\ \A k, e : Called(k, e)' => Called(k, e) \/ (k = "dir_process" /\ e = s)
      /\ \A k, e : Called(k, e) => Called(k, e)'
      /\ \A e : About(e)' => About(e) \/ e = s
    <2>1. CASE calls' = calls
        BY <2>1 DEF Called, About
    <2>2. CASE Recorded("dir_process", s)
        BY <2>2, InvFacts, RecordedFacts
    <2> QED BY <2>1, <2>2
<1>6. ScanTypeOK'
    <2>1. frames' \in Seq(FrameType) /\ Len(frames') <= MAXNEST + 1
        BY <1>1, <1>3, InvFacts, Places DEF Relisted
    <2>2. cwd' \in Dirs \cup {Outside} /\ sdir' \in Dirs \cup {Outside}
        BY <1>1, <1>2, InvFacts
    <2>3. UNCHANGED tree /\ UNCHANGED subs
        OBVIOUS
    <2> QED BY <1>4, <2>1, <2>2, <2>3, TypeKept
<1>7. Stack'
    BY <1>1, <1>3, InvFacts, StackSame DEF ScanInv, Relisted
<1>8. Lists' /\ Located'
    <2>1. \A d : SubdirsOf(d)' = SubdirsOf(d)
        BY TreeKept
    <2>2. ASSUME NEW i \in 1..Len(frames')
          PROVE  frames'[i].todo \subseteq SubdirsOf(frames'[i].dir)
        <3>1. i \in 1..Len(frames) /\ frames'[i].dir = frames[i].dir
            BY <1>3 DEF Relisted
        <3>2. CASE i = Len(frames)
            BY <1>1, <1>3, <3>1, <3>2 DEF Relisted, Dir
        <3>3. CASE i # Len(frames)
            BY <1>3, <3>1, <3>3, InvFacts DEF ScanInv, Lists, Relisted
        <3> QED BY <3>2, <3>3
    <2>3. sdir' \in {Dir'} \cup SubdirsOf(Dir)
        BY <1>2, <1>3 DEF ScanInv, Located
    <2> QED BY <1>3, <2>1, <2>2, <2>3, TreeKept DEF Lists, Located
<1>9. Parents'
    <2>1. s \in Entries /\ s \notin Files
        BY <1>2, Places
    <2>2. CASE calls' = calls
        BY <2>2, ParentsSame DEF ScanInv
    <2>3. CASE Recorded("dir_process", s)
        BY <1>2, <1>4, <2>1, <2>3, InvFacts, ParentsMore DEF ScanInv, Kinds
    <2> QED BY <2>2, <2>3
<1>10. Underway'
    <2>1. ASSUME NEW i \in 1..Len(frames'), NEW d \in Dirs, d = frames'[i].dir
          PROVE  /\ Called("dir_process", d)'
                 /\ ~Called("dir_finish", d)'
                 /\ ~Called("filelist_finish", d)'
                 /\ \A e \in frames'[i].todo : ~About(e)'
                 /\ \A f \in FilesOf(d)' : ~About(f)'
        <3>1. /\ i \in 1..Len(frames) /\ d = frames[i].dir /\ FilesOf(d)' = FilesOf(d)
              /\ frames'[i].todo = IF i = Len(frames) THEN Todo \ {s} ELSE frames[i].todo
            BY <1>3, <2>1, TreeKept DEF Relisted
        <3>2. /\ Called("dir_process", d) /\ ~Called("dir_finish", d) /\ ~Called("filelist_finish", d)
              /\ \A e \in frames'[i].todo : ~About(e) /\ e # s
              /\ \A f \in FilesOf(d) : ~About(f) /\ f # s
            BY <3>1, StillUnderway
        <3> QED BY <1>5, <3>1, <3>2
    <2> QED BY <2>1 DEF Underway
<1>11. Ahead'
    BY DEF Ahead
<1> QED BY <1>6, <1>7, <1>8, <1>9, <1>10, <1>11 DEF ScanInv

LEMMA CallFacts ==
    ASSUME ScanInv, NEW i \in DOMAIN calls
    PROVE  /\ i \in 1..Len(calls)
           /\ calls[i].kind \in Kinds /\ calls[i].of \in Entries /\ calls[i].sdir \in Dirs
<1>1. calls \in Seq(CallType)
    BY InvFacts
<1>2. i \in 1..Len(calls) /\ calls[i] \in CallType
    BY <1>1, ElementOfSeq
<1> QED BY <1>2 DEF CallType

LEMMA SubdirStep ==
    ASSUME ScanInv, NEW s \in Dirs, SkipSubdir(s) \/ PassSubdir(s) \/ CutSubdir(s)
    PROVE  ScanInv'
<1>1. /\ pc = "subdirs" /\ pc' = "subdirs" /\ UNCHANGED <<tree, subs>> /\ s \in Todo
      /\ frames' = Working(Todo \ {s}) /\ sdir' \in {sdir, s}
    BY DEF SkipSubdir, PassSubdir, CutSubdir
<1>2. cwd' \in Dirs \cup {Outside} /\ (Dir \notin locked => cwd' = Dir)
    <2>1. cwd \in Dirs \cup {Outside} /\ Dir \in Dirs /\ (Dir \notin locked => cwd = Dir)
        BY <1>1, InvFacts DEF ScanInv, Located
    <2>2. CASE SkipSubdir(s) \/ PassSubdir(s)
        BY <2>1, <2>2 DEF SkipSubdir, PassSubdir, Chdir
    <2>3. CASE CutSubdir(s)
        BY <2>1, <2>3, ScanAssumption DEF CutSubdir, StrayThenChdir, Stray
    <2> QED BY <2>2, <2>3
<1>3. calls' = calls \/ Recorded("dir_process", s)
    <2>1. CASE CutSubdir(s)
        BY <2>1, InvFacts, CallRecords, Places DEF CutSubdir, Kinds
    <2>2. CASE SkipSubdir(s) \/ PassSubdir(s)
        BY <2>2 DEF SkipSubdir, PassSubdir
    <2> QED BY <2>1, <2>2
<1> QED BY <1>1, <1>2, <1>3, PassOverStep

(* One that is entered. *)
LEMMA ScanSubdirStep == ASSUME ScanInv, NEW s \in Dirs, ScanSubdir(s) PROVE ScanInv'
<1>1. /\ pc = "subdirs" /\ pc' = "enter" /\ UNCHANGED tree /\ UNCHANGED subs /\ s \in Todo
      /\ frames' = Append(Working(Todo \ {s}), [dir |-> s, todo |-> {}]) /\ sdir' = s
      /\ cwd' \in {cwd} \cup Strays
    BY DEF ScanSubdir, Stray
<1>2. Recorded("dir_process", s)
    BY InvFacts, CallRecords, Places DEF ScanSubdir, Kinds
<1>3. /\ frames # <<>> /\ Dir \in Dirs /\ Todo \subseteq SubdirsOf(Dir) /\ Len(frames) > 0
      /\ Dir \notin hidden /\ Len(frames) <= MAXNEST
    BY <1>1, InvFacts DEF ScanInv, Stack, Lists, Dir, Todo
<1>4. s # Top /\ home[s] = Dir /\ Dir < s
    BY <1>1, <1>3, InvFacts, TreeFacts DEF SubdirsOf
<1>5. Pushed(Todo \ {s}, s) /\ Dir' = s /\ Todo' = {}
    BY <1>1, <1>3, InvFacts, AppendPushes
<1>6. /\ \A k, e : Called(k, e)' <=> Called(k, e) \/ (k = "dir_process" /\ e = s)
      /\ \A e : About(e)' <=> About(e) \/ e = s
    BY <1>2, InvFacts, RecordedFacts
<1>7. ~About(s) /\ Called("dir_process", Dir)
    <2>1. Len(frames) \in 1..Len(frames)
        BY <1>3, InvFacts
    <2> QED BY <1>1, <1>3, <2>1 DEF ScanInv, Underway, Dir, Todo
<1>8. ScanTypeOK'
    <2>1. frames' \in Seq(FrameType) /\ Len(frames') <= MAXNEST + 1
        BY <1>3, <1>5, InvFacts, Places DEF Pushed
    <2>2. cwd' \in Dirs \cup {Outside} /\ sdir' \in Dirs \cup {Outside}
        BY <1>1, InvFacts, ScanAssumption
    <2>3. calls' \in Seq(CallType)
        BY <1>2 DEF Recorded
    <2> QED BY <1>1, <2>1, <2>2, <2>3, TypeKept
<1>9. /\ Len(frames') = Len(frames) + 1 /\ frames'[Len(frames) + 1].dir = s
      /\ \A i \in 1..Len(frames) : frames'[i].dir = frames[i].dir
      /\ frames # <<>> => frames'[1].dir = Top
    BY <1>3, <1>5, InvFacts DEF Pushed, ScanInv, Stack
<1>10. Stack'
    <2>1. frames' # <<>> /\ frames'[1].dir = Top
        BY <1>3, <1>5, <1>9, InvFacts, EmptySeq DEF Pushed
    <2>2. ASSUME NEW i \in 1..Len(frames') - 1
          PROVE  /\ frames'[i + 1].dir # Top /\ home[frames'[i + 1].dir] = frames'[i].dir
                 /\ frames'[i].dir \notin hidden
        <3>1. i \in 1..Len(frames)
            BY <1>9, InvFacts
        <3>2. CASE i = Len(frames)
            BY <1>3, <1>4, <1>9, <3>1, <3>2 DEF Dir
        <3>3. CASE i # Len(frames)
            <4>1. i \in 1..Len(frames) - 1 /\ i + 1 \in 1..Len(frames)
                BY <3>1, <3>3, InvFacts
            <4> QED BY <1>9, <3>1, <4>1 DEF ScanInv, Stack
        <3> QED BY <3>2, <3>3
    <2>3. ASSUME NEW i \in 1..Len(frames'), NEW j \in 1..Len(frames'), i < j
          PROVE  frames'[i].dir < frames'[j].dir
        <3>1. i \in 1..Len(frames)
            BY <1>9, <2>3, InvFacts
        <3>2. CASE j = Len(frames) + 1
            <4>1. frames'[j].dir = s /\ frames'[i].dir = frames[i].dir
                BY <1>9, <3>1, <3>2
            <4>2. Len(frames) \in 1..Len(frames) /\ i <= Len(frames)
                BY <1>3, <3>1, InvFacts
            <4>3. i = Len(frames) \/ frames[i].dir < frames[Len(frames)].dir
                BY <3>1, <4>2, InvFacts DEF ScanInv, Stack
            <4>4. frames[i].dir \in Nat /\ frames[Len(frames)].dir \in Nat /\ s \in Nat
                BY <3>1, <4>2, InvFacts, Places
            <4> QED BY <1>4, <4>1, <4>3, <4>4 DEF Dir
        <3>3. CASE j # Len(frames) + 1
            <4>1. j \in 1..Len(frames)
                BY <1>9, <3>3, InvFacts
            <4> QED BY <1>9, <2>3, <3>1, <4>1 DEF ScanInv, Stack
        <3> QED BY <3>2, <3>3
    <2> QED BY <1>1, <2>1, <2>2, <2>3, TreeKept DEF Stack
<1>11. Lists' /\ Located'
    <2>1. ASSUME NEW i \in 1..Len(frames'), i < Len(frames')
          PROVE  frames'[i].todo \subseteq SubdirsOf(frames'[i].dir)
        <3>1. i \in 1..Len(frames)
            BY <1>9, <2>1, InvFacts
        <3>2. CASE i = Len(frames)
            BY <1>3, <1>5, <3>1, <3>2 DEF Pushed, Dir
        <3>3. CASE i # Len(frames)
            BY <1>5, <3>1, <3>3, AboveFacts DEF Pushed
        <3> QED BY <3>2, <3>3
    <2>2. \A d : SubdirsOf(d)' = SubdirsOf(d)
        BY <1>1, TreeKept
    <2> QED BY <1>1, <1>5, <2>1, <2>2 DEF Lists, Located
<1>12. Parents'
    BY <1>1, <1>2, <1>4, <1>7, InvFacts, ParentsMore, Places DEF ScanInv, Kinds
<1>13. Underway'
    <2>1. ASSUME NEW i \in 1..Len(frames'), NEW d \in Dirs, d = frames'[i].dir
          PROVE  /\ Called("dir_process", d)'
                 /\ ~Called("dir_finish", d)'
                 /\ ~Called("filelist_finish", d)'
                 /\ i < Len(frames') => /\ \A e \in frames'[i].todo : ~About(e)'
                                        /\ \A f \in FilesOf(d)' : ~About(f)'
        <3>1. CASE i = Len(frames) + 1
            <4>1. d = s /\ ~(i < Len(frames'))
                BY <1>9, <2>1, <3>1, InvFacts
            <4>2. \A k : ~Called(k, s)
                BY <1>7 DEF Called, About
            <4> QED BY <1>6, <4>1, <4>2
        <3>2. CASE i # Len(frames) + 1
            <4>1. i \in 1..Len(frames)
                BY <1>9, <3>2, InvFacts
            <4>2. /\ d = frames[i].dir /\ FilesOf(d)' = FilesOf(d)
                  /\ frames'[i].todo = IF i = Len(frames) THEN Todo \ {s} ELSE frames[i].todo
                BY <1>1, <1>5, <2>1, <4>1, TreeKept DEF Pushed
            <4>3. /\ Called("dir_process", d) /\ ~Called("dir_finish", d) /\ ~Called("filelist_finish", d)
                  /\ \A e \in frames'[i].todo : ~About(e) /\ e # s
                  /\ \A f \in FilesOf(d) : ~About(f) /\ f # s
                BY <1>1, <4>1, <4>2, StillUnderway
            <4> QED BY <1>6, <4>2, <4>3
        <3> QED BY <3>1, <3>2
    <2> QED BY <1>1, <2>1 DEF Underway
<1>14. Ahead'
    <2>1. ASSUME NEW e \in Entries \ {Top}, home[e] = s PROVE ~About(e)'
        <3>1. e # s
            BY <1>4, <2>1, Places
        <3>2. ASSUME About(e) PROVE FALSE
            <4>1. PICK i \in DOMAIN calls : calls[i].of = e
                BY <3>2 DEF About
            <4>2. calls[i].kind \in Kinds /\ Called(calls[i].kind, e)
                BY <4>1, CallFacts DEF Called
            <4>3. Called("dir_process", s)
                BY <2>1, <4>2 DEF ScanInv, Parents
            <4> QED BY <1>7, <4>3 DEF Called, About
        <3> QED BY <1>6, <3>1, <3>2
    <2> QED BY <1>1, <1>5, <2>1, TreeKept DEF Ahead
<1> QED BY <1>8, <1>10, <1>11, <1>12, <1>13, <1>14 DEF ScanInv

LEMMA SubdirsDoneStep == ASSUME ScanInv, SubdirsDone PROVE ScanInv'
<1>1. /\ pc = "subdirs" /\ pc' = "files" /\ UNCHANGED tree /\ UNCHANGED subs
      /\ UNCHANGED sdir /\ UNCHANGED calls /\ frames' = Working(FilesOf(Dir)) /\ Todo = {}
    BY DEF SubdirsDone
<1>2. /\ frames # <<>> /\ Dir \in Dirs /\ Len(frames) > 0
      /\ Dir \notin hidden /\ Len(frames) <= MAXNEST
    BY <1>1, InvFacts DEF ScanInv, Stack
<1>3. cwd' \in {cwd, Dir} /\ (Dir \notin locked => cwd' = Dir)
    BY DEF SubdirsDone, Chdir
<1>4. Relisted(FilesOf(Dir)) /\ Dir' = Dir /\ Todo' = FilesOf(Dir)
    BY <1>1, <1>2, InvFacts, TreeFacts, WorkingRelists, Places
<1>5. ScanTypeOK'
    <2>1. frames' \in Seq(FrameType) /\ Len(frames') <= MAXNEST + 1
        BY <1>2, <1>4, InvFacts, Places DEF Relisted
    <2>2. cwd' \in Dirs \cup {Outside} /\ sdir' \in Dirs \cup {Outside} /\ calls' \in Seq(CallType)
        BY <1>1, <1>2, <1>3, InvFacts
    <2> QED BY <1>1, <2>1, <2>2, TypeKept
<1>6. Stack'
    BY <1>1, <1>2, <1>4, InvFacts, StackSame DEF ScanInv, Relisted
<1>7. \A d : SubdirsOf(d)' = SubdirsOf(d) /\ FilesOf(d)' = FilesOf(d)
    BY <1>1, TreeKept
<1>8. Lists'
    <2>1. ASSUME NEW i \in 1..Len(frames'), i < Len(frames')
          PROVE  frames'[i].todo \subseteq SubdirsOf(frames'[i].dir)
        BY <1>4, <2>1, AboveFacts DEF Relisted
    <2> QED BY <1>1, <1>4, <1>7, <2>1 DEF Lists
<1>9. Located'
    BY <1>1, <1>3, <1>4, <1>7, TreeKept DEF ScanInv, Located
<1>10. Parents'
    BY <1>1, ParentsSame DEF ScanInv
<1>11. /\ \A k, e : Called(k, e)' = Called(k, e)
       /\ \A e : About(e)' = About(e)
    BY <1>1 DEF Called, About
<1>12. Underway'
    <2>1. ASSUME NEW i \in 1..Len(frames'), NEW d \in Dirs, d = frames'[i].dir
          PROVE  /\ Called("dir_process", d)'
                 /\ ~Called("dir_finish", d)'
                 /\ ~Called("filelist_finish", d)'
                 /\ i < Len(frames') => /\ \A e \in frames'[i].todo : ~About(e)'
                                        /\ \A f \in FilesOf(d)' : ~About(f)'
        <3>1. /\ i \in 1..Len(frames) /\ d = frames[i].dir /\ Len(frames') = Len(frames)
              /\ i < Len(frames) => frames'[i].todo = frames[i].todo
            BY <1>4, <2>1 DEF Relisted
        <3> QED BY <1>1, <1>7, <1>11, <3>1 DEF ScanInv, Underway
    <2> QED BY <1>1, <2>1 DEF Underway
<1>13. Ahead'
    <2>1. Len(frames) \in 1..Len(frames)
        BY <1>2, InvFacts
    <2>2. \A f \in FilesOf(Dir) : ~About(f)
        BY <1>1, <1>2, <2>1 DEF ScanInv, Underway, Dir
    <2> QED BY <1>1, <1>4, <1>11, <2>2 DEF Ahead
<1> QED BY <1>5, <1>6, <1>8, <1>9, <1>10, <1>12, <1>13 DEF ScanInv

(* The third pass. *)
LEMMA FileStep ==
    ASSUME ScanInv, NEW f \in Files, ProcessFile(f) \/ SkipFile(f)
    PROVE  ScanInv'
<1>1. /\ pc = "files" /\ pc' = "files" /\ UNCHANGED tree /\ UNCHANGED subs
      /\ f \in Todo /\ frames' = Working(Todo \ {f})
      /\ sdir' \in {sdir, Dir}
    BY DEF ProcessFile, SkipFile
<1>2. /\ frames # <<>> /\ Dir \in Dirs /\ Len(frames) > 0
      /\ Dir \notin hidden /\ Len(frames) <= MAXNEST
      /\ sdir \in {Dir} \cup SubdirsOf(Dir) /\ Todo \subseteq FilesOf(Dir)
      /\ Dir \notin locked => cwd = Dir \/ Strayed(Dir)
    BY <1>1, InvFacts DEF ScanInv, Stack, Located, Lists
<1>3. calls' = calls \/ Recorded("file_process", f)
    <2>1. CASE ProcessFile(f)
        BY <1>2, <2>1, InvFacts, CallRecords, Places DEF ProcessFile, Kinds
    <2>2. CASE SkipFile(f)
        BY <2>2 DEF SkipFile
    <2> QED BY <2>1, <2>2
<1>0. /\ cwd' \in Dirs \cup {Outside}
      /\ cwd' = cwd \/ ProcessFile(f)
    BY InvFacts, ScanAssumption DEF ProcessFile, SkipFile, Stray
<1>4. Relisted(Todo \ {f}) /\ Dir' = Dir /\ Todo' = Todo \ {f}
    BY <1>1, <1>2, InvFacts, WorkingRelists
<1>5. home[f] = Dir /\ f \in Entries /\ f \notin Dirs /\ Called("dir_process", Dir)
    <2>1. Len(frames) \in 1..Len(frames)
        BY <1>2, InvFacts
    <2>2. Called("dir_process", Dir)
        BY <1>1, <1>2, <2>1 DEF ScanInv, Underway, Dir
    <2> QED BY <1>1, <1>2, <2>2, Places DEF FilesOf
<1>6. ScanTypeOK'
    <2>1. frames' \in Seq(FrameType) /\ Len(frames') <= MAXNEST + 1
        BY <1>2, <1>4, InvFacts, Places DEF Relisted
    <2>2. cwd' \in Dirs \cup {Outside} /\ sdir' \in Dirs \cup {Outside} /\ calls' \in Seq(CallType)
        BY <1>0, <1>1, <1>2, <1>3, InvFacts DEF Recorded
    <2> QED BY <1>1, <2>1, <2>2, TypeKept
<1>7. Stack'
    BY <1>1, <1>2, <1>4, InvFacts, StackSame DEF ScanInv, Relisted
<1>8. \A d : SubdirsOf(d)' = SubdirsOf(d) /\ FilesOf(d)' = FilesOf(d)
    BY <1>1, TreeKept
<1>9. Lists'
    <2>1. ASSUME NEW i \in 1..Len(frames'), i < Len(frames')
          PROVE  frames'[i].todo \subseteq SubdirsOf(frames'[i].dir)
        BY <1>4, <2>1, AboveFacts DEF Relisted
    <2> QED BY <1>1, <1>2, <1>4, <1>8, <2>1 DEF Lists
<1>10. Located'
    <2>1. Strayed(Dir) => Strayed(Dir)'
        <3>1. CASE calls' = calls
            BY <1>1, <1>4, <3>1, TreeKept DEF Strayed
        <3>2. CASE Recorded("file_process", f)
            BY <1>1, <1>4, <3>2, InvFacts, RecordedFacts, TreeKept DEF Strayed
        <3> QED BY <1>3, <3>1, <3>2
    <2>2. cwd' = cwd \/ Strayed(Dir)'
        <3>1. SUFFICES ASSUME cwd' # cwd PROVE Strayed(Dir)'
            OBVIOUS
        <3>2. Recorded("file_process", f)
            BY <1>0, <1>2, <3>1, InvFacts, CallRecords, Places DEF ProcessFile, Kinds
        <3> QED BY <1>1, <1>4, <1>5, <3>1, <3>2, InvFacts, TreeKept DEF Recorded, Strayed
    <2> QED BY <1>1, <1>2, <1>4, <1>8, <2>1, <2>2, TreeKept DEF Located
<1>11. Parents'
    <2>1. CASE calls' = calls
        BY <1>1, <2>1, ParentsSame DEF ScanInv
    <2>2. CASE Recorded("file_process", f)
        BY <1>1, <1>5, <2>2, InvFacts, ParentsMore DEF ScanInv, Kinds
    <2> QED BY <1>3, <2>1, <2>2
<1>12. /\ \A k, e : Called(k, e)' => Called(k, e) \/ (k = "file_process" /\ e = f)
       /\ \A k, e : Called(k, e) => Called(k, e)'
       /\ \A e : About(e)' => About(e) \/ e = f
    <2>1. CASE calls' = calls
        BY <2>1 DEF Called, About
    <2>2. CASE Recorded("file_process", f)
        BY <2>2, InvFacts, RecordedFacts
    <2> QED BY <1>3, <2>1, <2>2
<1>13. Underway'
    <2>1. ASSUME NEW i \in 1..Len(frames'), NEW d \in Dirs, d = frames'[i].dir
          PROVE  /\ Called("dir_process", d)'
                 /\ ~Called("dir_finish", d)'
                 /\ ~Called("filelist_finish", d)'
                 /\ i < Len(frames') => /\ \A e \in frames'[i].todo : ~About(e)'
                                        /\ \A g \in FilesOf(d)' : ~About(g)'
        <3>1. /\ i \in 1..Len(frames) /\ d = frames[i].dir /\ Len(frames') = Len(frames)
              /\ i < Len(frames) => frames'[i].todo = frames[i].todo
            BY <1>4, <2>1 DEF Relisted
        <3>2. /\ Called("dir_process", d) /\ ~Called("dir_finish", d) /\ ~Called("filelist_finish", d)
              /\ i < Len(frames) => /\ \A e \in frames[i].todo : ~About(e)
                                    /\ \A g \in FilesOf(d) : ~About(g)
            BY <1>1, <3>1 DEF ScanInv, Underway
        <3>3. i < Len(frames) => /\ \A e \in frames[i].todo : e # f
                                 /\ \A g \in FilesOf(d) : g # f
            <4>1. SUFFICES ASSUME i < Len(frames) PROVE /\ \A e \in frames[i].todo : e # f
                                                        /\ \A g \in FilesOf(d) : g # f
                OBVIOUS
            <4>2. d # Dir /\ frames[i].todo \subseteq SubdirsOf(d)
                BY <3>1, <4>1, AboveFacts
            <4> QED BY <1>5, <4>2 DEF SubdirsOf, FilesOf
        <3> QED BY <1>8, <1>12, <3>1, <3>2, <3>3
    <2> QED BY <1>1, <2>1 DEF Underway
<1>14. Ahead'
    BY <1>1, <1>4, <1>12 DEF ScanInv, Ahead
<1> QED BY <1>6, <1>7, <1>9, <1>10, <1>11, <1>13, <1>14 DEF ScanInv

(* A directory's last two calls. *)
LEMMA LastCallsStep ==
    ASSUME ScanInv, FilesDone \/ Finish
    PROVE  ScanInv'
<1>1. /\ pc \in {"files", "finish"} /\ UNCHANGED tree /\ UNCHANGED subs /\ UNCHANGED sdir
      /\ UNCHANGED frames
      /\ \/ pc = "files" /\ pc' = "finish"
         \/ pc = "finish" /\ pc' = "return"
    BY DEF FilesDone, Finish
<1>2. /\ frames # <<>> /\ Dir \in Dirs /\ Len(frames) > 0 /\ Len(frames) \in 1..Len(frames)
      /\ Dir \notin hidden /\ Len(frames) <= MAXNEST
      /\ sdir \in {Dir} \cup SubdirsOf(Dir)
    BY <1>1, InvFacts DEF ScanInv, Stack, Located
<1>3. cwd' \in Dirs \cup {Outside}
    <2>1. CASE FilesDone
        BY <1>2, <2>1, InvFacts, ScanAssumption DEF FilesDone, StrayThenChdir, Stray
    <2>2. CASE Finish
        BY <2>2, InvFacts, ScanAssumption DEF Finish, Stray
    <2> QED BY <2>1, <2>2
<1>4. PICK kind \in {"filelist_finish", "dir_finish"} :
          Recorded(kind, Dir) /\ (kind = "dir_finish" => pc' = "return")
    <2>1. sdir' \in Dirs
        BY <1>1, <1>2 DEF SubdirsOf
    <2>2. CASE FilesDone
        BY <1>2, <2>1, <2>2, InvFacts, CallRecords, Places DEF FilesDone, Kinds
    <2>3. CASE Finish
        BY <1>2, <2>1, <2>3, InvFacts, CallRecords, Places DEF Finish, Kinds
    <2> QED BY <2>2, <2>3
<1>5. /\ \A k, e : Called(k, e)' <=> Called(k, e) \/ (k = kind /\ e = Dir)
      /\ \A e : About(e)' <=> About(e) \/ e = Dir
    BY <1>4, InvFacts, RecordedFacts
<1>6. Called("dir_process", Dir) /\ About(Dir)
    <2>1. Called("dir_process", Dir)
        BY <1>1, <1>2 DEF ScanInv, Underway, Dir
    <2> QED BY <2>1 DEF Called, About
<1>7. ScanTypeOK'
    <2>1. frames' \in Seq(FrameType) /\ Len(frames') <= MAXNEST + 1 /\ calls' \in Seq(CallType)
        BY <1>1, <1>2, <1>4, InvFacts, Places DEF Recorded
    <2>2. sdir' \in Dirs \cup {Outside}
        BY <1>1, InvFacts
    <2> QED BY <1>1, <1>3, <2>1, <2>2, TypeKept
<1>8. Stack'
    BY <1>1, <1>2, InvFacts, StackSame DEF ScanInv
<1>9. Lists'
    BY <1>1, TreeKept DEF ScanInv, Lists
<1>10. Located'
    <2>1. Dir' = Dir
        BY <1>1 DEF Dir
    <2> QED BY <1>1, <1>2, <1>3, <2>1, TreeKept DEF Located
<1>11. Parents'
    <2>1. kind # "file_process" /\ kind \in Kinds /\ Dir \in Entries /\ Dir \notin Files
        BY <1>2, Places DEF Kinds
    <2>2. \A d \in Dirs : Dir # Top /\ home[Dir] = d => Called("dir_process", d)
        BY <1>6, <2>1 DEF ScanInv, Parents, Kinds
    <2> QED BY <1>1, <1>4, <1>6, <2>1, <2>2, InvFacts, ParentsMore DEF ScanInv
<1>12. Underway'
    <2>1. ASSUME NEW i \in 1..Len(frames'), NEW d \in Dirs, d = frames'[i].dir
          PROVE  /\ Called("dir_process", d)'
                 /\ i < Len(frames') \/ pc' # "return" => ~Called("dir_finish", d)'
                 /\ i < Len(frames') => /\ ~Called("filelist_finish", d)'
                                        /\ \A e \in frames'[i].todo : ~About(e)'
                                        /\ \A g \in FilesOf(d)' : ~About(g)'
        <3>1. /\ Called("dir_process", d) /\ ~Called("dir_finish", d)
              /\ i < Len(frames) => /\ ~Called("filelist_finish", d)
                                    /\ \A e \in frames[i].todo : ~About(e)
                                    /\ \A g \in FilesOf(d) : ~About(g)
            BY <1>1, <2>1 DEF ScanInv, Underway
        <3>2. i < Len(frames) => d # Dir
            BY <1>1, <2>1, AboveFacts
        <3>3. \A e : About(e)' <=> About(e)
            BY <1>5, <1>6
        <3> QED BY <1>1, <1>4, <1>5, <3>1, <3>2, <3>3, TreeKept
    <2> QED BY <1>1, <2>1 DEF Underway
<1>13. Ahead'
    BY <1>1 DEF Ahead
<1> QED BY <1>7, <1>8, <1>9, <1>10, <1>11, <1>12, <1>13 DEF ScanInv

(* Back in the caller. *)
LEMMA ReturnStep ==
    ASSUME ScanInv, ReturnToParent
    PROVE  ScanInv'
<1>1. /\ pc = "return" /\ pc' = "subdirs" /\ UNCHANGED tree /\ UNCHANGED subs /\ UNCHANGED calls
      /\ Len(frames) > 1 /\ sdir' = Dir
      /\ frames' = SubSeq(frames, 1, Len(frames) - 1)
    BY DEF ReturnToParent
<1>2. Popped /\ Dir' = frames[Len(frames) - 1].dir
    BY <1>1, InvFacts, SubSeqPops
<1>3. /\ Len(frames) - 1 \in 1..Len(frames) - 1 /\ Len(frames) - 1 \in 1..Len(frames)
      /\ Len(frames) - 1 + 1 = Len(frames)
    BY <1>1, InvFacts
<1>4. /\ Dir # Top /\ home[Dir] = Dir' /\ Dir' \notin hidden /\ Dir \in Dirs /\ Dir' \in Dirs
    <2>1. Dir # Top /\ home[Dir] = Dir' /\ Dir' \notin hidden
        BY <1>2, <1>3 DEF ScanInv, Stack, Dir
    <2> QED BY <1>1, <1>2, <1>3, <2>1, InvFacts
<1>5. cwd' \in {cwd, Dir'} /\ (Dir' \notin locked => cwd' = Dir')
    BY <1>4 DEF ReturnToParent, Chdir
<1>6. ScanTypeOK'
    <2>1. frames' \in Seq(FrameType) /\ Len(frames') <= MAXNEST + 1
        BY <1>2, InvFacts, Places DEF Popped, ScanInv, ScanTypeOK
    <2> QED BY <1>1, <1>4, <1>5, <2>1, InvFacts, TypeKept
<1>7. Stack'
    <2>1. Len(frames') <= MAXNEST /\ frames' # <<>> /\ frames'[1].dir = Top /\ Len(frames') \in Nat
        <3>1. Len(frames') <= MAXNEST
            BY <1>2, InvFacts, Places DEF Popped, ScanInv, ScanTypeOK
        <3>2. Len(frames') > 0 /\ 1 \in 1..Len(frames) - 1 /\ frames # <<>> /\ Len(frames') \in Nat
            BY <1>1, <1>2, InvFacts, EmptySeq DEF Popped
        <3>3. frames' # <<>>
            BY <3>2, EmptySeq
        <3> QED BY <1>2, <3>1, <3>2, <3>3 DEF Popped, ScanInv, Stack
    <2>2. ASSUME NEW i \in 1..Len(frames') - 1
          PROVE  /\ frames'[i + 1].dir # Top /\ home[frames'[i + 1].dir] = frames'[i].dir
                 /\ frames'[i].dir \notin hidden
        <3>1. i \in 1..Len(frames) - 1 /\ i + 1 \in 1..Len(frames) - 1
            BY <1>2, InvFacts DEF Popped
        <3>2. frames'[i] = frames[i] /\ frames'[i + 1] = frames[i + 1]
            BY <1>2, <3>1 DEF Popped
        <3> QED BY <3>1, <3>2 DEF ScanInv, Stack
    <2>3. ASSUME NEW i \in 1..Len(frames'), NEW j \in 1..Len(frames'), i < j
          PROVE  frames'[i].dir < frames'[j].dir
        <3>1. /\ i \in 1..Len(frames) - 1 /\ j \in 1..Len(frames) - 1
              /\ i \in 1..Len(frames) /\ j \in 1..Len(frames)
            BY <1>2, InvFacts DEF Popped
        <3>2. frames'[i] = frames[i] /\ frames'[j] = frames[j]
            BY <1>2, <3>1 DEF Popped
        <3> QED BY <2>3, <3>1, <3>2 DEF ScanInv, Stack
    <2> QED BY <1>1, <1>4, <2>1, <2>2, <2>3, TreeKept DEF Stack
<1>8. ASSUME NEW i \in 1..Len(frames')
      PROVE  i \in 1..Len(frames) /\ i < Len(frames) /\ frames'[i] = frames[i]
    BY <1>2, <1>8, InvFacts DEF Popped
<1>9. Lists' /\ Located'
    <2>1. \A d : SubdirsOf(d)' = SubdirsOf(d)
        BY <1>1, TreeKept
    <2>2. Lists'
        BY <1>1, <1>8, <2>1 DEF ScanInv, Lists
    <2>3. Dir \in SubdirsOf(Dir')
        BY <1>4 DEF SubdirsOf
    <2> QED BY <1>1, <1>5, <2>1, <2>2, <2>3, TreeKept DEF Located
<1>10. Parents'
    BY <1>1, ParentsSame DEF ScanInv
<1>11. Underway'
    <2>1. /\ \A k, e : Called(k, e)' = Called(k, e)
          /\ \A e : About(e)' = About(e)
          /\ \A d : FilesOf(d)' = FilesOf(d)
        BY <1>1, TreeKept DEF Called, About
    <2> QED BY <1>8, <2>1 DEF ScanInv, Underway
<1>12. Ahead'
    BY <1>1 DEF Ahead
<1> QED BY <1>6, <1>7, <1>9, <1>10, <1>11, <1>12 DEF ScanInv

LEMMA LeaveStep == ASSUME ScanInv, ReturnToCaller PROVE ScanInv'
<1>1. /\ pc = "return" /\ pc' = "over" /\ UNCHANGED tree /\ UNCHANGED <<subs, sdir, calls>>
      /\ cwd' = Outside /\ frames' = <<>>
    BY DEF ReturnToCaller
<1>2. Len(frames') = 0 /\ frames' \in Seq(FrameType)
    BY <1>1
<1>3. ScanTypeOK'
    <2>1. Len(frames') <= MAXNEST + 1
        BY <1>2, Places
    <2>2. frames' \in Seq([dir : Dirs, todo : SUBSET Entries])
        BY <1>2 DEF FrameType
    <2>3. UNCHANGED <<home, matching, locked, hidden, subs, sdir, calls>>
        BY <1>1, TreeKept
    <2> QED BY <1>1, <2>1, <2>2, <2>3 DEF ScanInv, ScanTypeOK
<1>4. Stack' /\ Lists' /\ Located' /\ Underway' /\ Ahead'
    BY <1>1, <1>2 DEF Stack, Lists, Located, Underway, Ahead
<1>5. Parents'
    BY <1>1, ParentsSame DEF ScanInv
<1> QED BY <1>3, <1>4, <1>5 DEF ScanInv

-----------------------------------------------------------------------------
LEMMA InitScan == ASSUME Init PROVE ScanInv
<1>1. /\ home \in Trees /\ matching \in Patterns /\ pc = "start"
      /\ frames = <<>> /\ subs \in BOOLEAN /\ cwd = Outside /\ sdir = Outside /\ calls = <<>>
    BY DEF Init
<1>0. locked \subseteq Dirs /\ hidden \subseteq Dirs
    <2>1. PICK shut \in Closed :
              /\ locked = {d \in Dirs : Way(d) \cap shut[1] # {}}
              /\ hidden = shut[2] \cup {d \in Dirs \ {Top} : home[d] \in locked}
        BY DEF Init
    <2>2. shut[2] \subseteq Dirs
        BY ScanAssumption
    <2> QED BY <2>1, <2>2
<1>2. ScanTypeOK
    BY <1>0, <1>1, Places, ScanAssumption DEF ScanTypeOK, Entries
<1> QED BY <1>1, <1>2 DEF ScanInv, Stack, Lists, Located, Parents, Underway, Ahead, Called, About

LEMMA NextScan == ASSUME ScanInv, [Next]_scanVars PROVE ScanInv'
<1>1. CASE Next
    BY <1>1, RefuseStep, StartStep, GiveUpStep, ListSubdirsStep, SubdirStep, ScanSubdirStep,
       SubdirsDoneStep, FileStep, LastCallsStep, ReturnStep, LeaveStep DEF Next
<1>2. CASE UNCHANGED scanVars
    <2>1. UNCHANGED tree /\ UNCHANGED <<home, matching, locked, hidden>>
          /\ UNCHANGED <<pc, frames, subs, cwd, sdir, calls>>
        BY <1>2, TreeKept DEF scanVars
    <2>2. ScanTypeOK' /\ Stack' /\ Lists' /\ Located'
        BY <2>1 DEF ScanInv, ScanTypeOK, Stack, Lists, Located, SubdirsOf, FilesOf, Dir, Todo, Strayed
    <2>3. Parents'
        BY <2>1, ParentsSame DEF ScanInv
    <2>4. Underway' /\ Ahead'
        BY <2>1 DEF ScanInv, Underway, Ahead, Called, About, FilesOf, Dir, Todo
    <2> QED BY <2>2, <2>3, <2>4 DEF ScanInv
<1> QED BY <1>1, <1>2

(* What the scanner stands on: a path down the tree whose directories are  *)
(* begun and not finished, with nothing called that is still to come.      *)
THEOREM ScanInvariant == Spec => []ScanInv
    BY InitScan, NextScan, PTL DEF Spec

-----------------------------------------------------------------------------
(* A call that the scanner may make in the state it is in. *)
Due(kind, of) ==
    /\ kind \in Kinds /\ of \in Entries /\ ~Called(kind, of)
    /\ of # Top => /\ Called("dir_process", home[of])
                   /\ ~Called("dir_finish", home[of]) /\ ~Called("filelist_finish", home[of])
                   /\ of \in Dirs => \A f \in FilesOf(home[of]) : ~About(f)
    /\ of \in Dirs /\ kind # "dir_process" => Called("dir_process", of)
    /\ kind \in {"file_process", "filelist_finish"} =>
          LET d == IF kind = "file_process" THEN home[of] ELSE of IN
          d \in locked \/ cwd = d \/ Strayed(d)

(* ... and the path it is made with. *)
Named(kind, of) ==
    LET d == IF kind = "file_process" THEN home[of] ELSE of IN
    kind \in {"dir_process", "file_process"} => sdir' = d

LEMMA DueSubdir ==
    ASSUME ScanInv, pc = "subdirs", NEW s \in Todo, sdir' = s
    PROVE  Due("dir_process", s) /\ Named("dir_process", s)
<1>1. /\ Len(frames) \in 1..Len(frames) /\ Dir = frames[Len(frames)].dir /\ Dir \in Dirs
      /\ Todo \subseteq SubdirsOf(Dir) /\ Todo = frames[Len(frames)].todo
    BY InvFacts DEF ScanInv, Lists, Dir, Todo
<1>2. s \in Dirs /\ s # Top /\ home[s] = Dir /\ s \in Entries
    BY <1>1, Places DEF SubdirsOf
<1>3. /\ Called("dir_process", Dir) /\ ~Called("dir_finish", Dir) /\ ~Called("filelist_finish", Dir)
      /\ ~About(s) /\ \A f \in FilesOf(Dir) : ~About(f)
    BY <1>1 DEF ScanInv, Underway
<1>4. ~Called("dir_process", s)
    BY <1>3 DEF Called, About
<1> QED BY <1>2, <1>3, <1>4 DEF Due, Named, Kinds

LEMMA DueFile ==
    ASSUME ScanInv, pc = "files", NEW f \in Todo, sdir' = Dir
    PROVE  Due("file_process", f) /\ Named("file_process", f)
<1>1. /\ Len(frames) \in 1..Len(frames) /\ Dir = frames[Len(frames)].dir /\ Dir \in Dirs
      /\ Todo \subseteq FilesOf(Dir) /\ (Dir \in locked \/ cwd = Dir \/ Strayed(Dir))
    BY InvFacts DEF ScanInv, Lists, Located, Dir
<1>2. f \in Files /\ home[f] = Dir /\ f \in Entries /\ f \notin Dirs
    BY <1>1, Places DEF FilesOf
<1>3. Called("dir_process", Dir) /\ ~Called("dir_finish", Dir) /\ ~Called("filelist_finish", Dir)
    BY <1>1 DEF ScanInv, Underway
<1>4. ~Called("file_process", f)
    BY DEF ScanInv, Ahead, Called, About
<1> QED BY <1>1, <1>2, <1>3, <1>4 DEF Due, Named, Kinds

LEMMA DueLast ==
    ASSUME ScanInv, NEW kind, sdir' = sdir,
           \/ pc = "files" /\ kind = "filelist_finish"
           \/ pc = "finish" /\ kind = "dir_finish"
    PROVE  Due(kind, Dir) /\ Named(kind, Dir)
<1> DEFINE n == Len(frames)
<1>1. /\ n \in Nat /\ n > 0 /\ n \in 1..n /\ Dir = frames[n].dir /\ Dir \in Dirs /\ Dir \in Entries
      /\ frames # <<>> /\ (kind = "filelist_finish" => Dir \in locked \/ cwd = Dir \/ Strayed(Dir))
    <2>1. n \in Nat /\ n > 0 /\ Dir \in Dirs
        BY InvFacts
    <2>2. n \in 1..n
        BY <2>1
    <2>3. frames # <<>> /\ (kind = "filelist_finish" => Dir \in locked \/ cwd = Dir \/ Strayed(Dir))
        BY DEF ScanInv, Stack, Located
    <2> QED BY <2>1, <2>2, <2>3, Places DEF Dir
<1>2. Called("dir_process", Dir) /\ ~Called(kind, Dir)
    BY <1>1 DEF ScanInv, Underway
<1>3. ASSUME Dir # Top
      PROVE  /\ Called("dir_process", home[Dir])
             /\ ~Called("dir_finish", home[Dir]) /\ ~Called("filelist_finish", home[Dir])
             /\ \A f \in FilesOf(home[Dir]) : ~About(f)
    <2>1. n # 1
        BY <1>1, <1>3 DEF ScanInv, Stack
    <2>2. n - 1 \in 1..n - 1 /\ n - 1 \in 1..n /\ n - 1 < n /\ n - 1 + 1 = n
        <3>1. n \in Nat /\ n > 0
            BY <1>1
        <3> HIDE DEF n
        <3> QED BY <2>1, <3>1
    <2>3. home[Dir] = frames[n - 1].dir
        BY <1>1, <2>2 DEF ScanInv, Stack
    <2>4. home[Dir] \in Dirs
        BY <2>2, <2>3, InvFacts
    <2> QED BY <2>2, <2>3, <2>4 DEF ScanInv, Underway
<1> QED BY <1>1, <1>2, <1>3 DEF Due, Named, Kinds

LEMMA CallsDue ==
    ASSUME ScanInv, [Next]_scanVars
    PROVE  /\ UNCHANGED tree
           /\ \/ UNCHANGED calls
              \/ \E kind \in Kinds, of \in Entries :
                     Recorded(kind, of) /\ Due(kind, of) /\ Named(kind, of)
<1>1. CASE Start
    <2>1. calls = <<>> /\ sdir' = Top
        BY <1>1 DEF Start, ScanInv, Ahead
    <2>2. Recorded("dir_process", Top)
        BY <1>1, <2>1, InvFacts, CallRecords, Places DEF Start, Kinds
    <2>3. Due("dir_process", Top) /\ Named("dir_process", Top)
        BY <2>1, Places DEF Due, Named, Kinds, Called
    <2> QED BY <1>1, <2>2, <2>3, Places DEF Start, Kinds
<1>2. ASSUME NEW s \in Dirs, CutSubdir(s) \/ ScanSubdir(s)
      PROVE  UNCHANGED tree /\ Recorded("dir_process", s) /\ Due("dir_process", s) /\ Named("dir_process", s)
    <2>1. UNCHANGED tree /\ pc = "subdirs" /\ s \in Todo /\ sdir' = s
        BY <1>2 DEF CutSubdir, ScanSubdir
    <2>2. Recorded("dir_process", s)
        BY <1>2, InvFacts, CallRecords, Places DEF CutSubdir, ScanSubdir, Kinds
    <2> QED BY <2>1, <2>2, DueSubdir
<1>3. ASSUME NEW f \in Files, ProcessFile(f)
      PROVE  UNCHANGED tree /\ Recorded("file_process", f) /\ Due("file_process", f) /\ Named("file_process", f)
    <2>1. UNCHANGED tree /\ pc = "files" /\ f \in Todo /\ sdir' = Dir
        BY <1>3 DEF ProcessFile
    <2>2. Recorded("file_process", f)
        BY <1>3, <2>1, InvFacts, CallRecords, Places DEF ProcessFile, Kinds
    <2> QED BY <2>1, <2>2, DueFile
<1>4. ASSUME FilesDone \/ Finish
      PROVE  UNCHANGED tree /\ \E kind \in Kinds : Recorded(kind, Dir) /\ Due(kind, Dir) /\ Named(kind, Dir)
    <2>1. UNCHANGED tree /\ sdir' = sdir /\ pc \in {"files", "finish"}
        BY <1>4 DEF FilesDone, Finish
    <2>2. sdir' \in Dirs /\ Dir \in Dirs /\ Dir \in Entries
        BY <2>1, InvFacts, Places DEF ScanInv, Located, SubdirsOf
    <2>3. CASE FilesDone
        BY <2>1, <2>2, <2>3, InvFacts, CallRecords, DueLast DEF FilesDone, Kinds
    <2>4. CASE Finish
        BY <2>1, <2>2, <2>4, InvFacts, CallRecords, DueLast DEF Finish, Kinds
    <2> QED BY <1>4, <2>1, <2>3, <2>4
<1>5. CASE Refuse \/ TooDeep \/ CannotOpen \/ ListSubdirs \/ SubdirsDone \/ ReturnToParent \/ ReturnToCaller
    BY <1>5 DEF Refuse, TooDeep, CannotOpen, ListSubdirs, SubdirsDone, ReturnToParent, ReturnToCaller
<1>6. ASSUME NEW e \in Entries, SkipSubdir(e) \/ PassSubdir(e) \/ SkipFile(e)
      PROVE  UNCHANGED tree /\ UNCHANGED calls
    BY <1>6 DEF SkipSubdir, PassSubdir, SkipFile
<1>7. CASE UNCHANGED scanVars
    BY <1>7 DEF scanVars
<1>8. /\ \A s \in Dirs : s \in Entries /\ "dir_process" \in Kinds
      /\ \A f \in Files : f \in Entries /\ "file_process" \in Kinds
    BY Places DEF Kinds
<1>9. FilesDone \/ Finish => Dir \in Entries
    BY InvFacts, Places DEF FilesDone, Finish
<1> QED BY <1>1, <1>2, <1>3, <1>4, <1>5, <1>6, <1>7, <1>8, <1>9 DEF Next

-----------------------------------------------------------------------------
(* Each function is called at most once for each entry, whatever the       *)
(* directory looks like and wherever the program's functions leave the     *)
(* process.                                                                *)
LEMMA OnceStep ==
    ASSUME ScanInv, NoneTwice, [Next]_scanVars
    PROVE  NoneTwice'
<1>1. CASE UNCHANGED calls
    BY <1>1 DEF NoneTwice
<1>2. ASSUME NEW kind \in Kinds, NEW of \in Entries, Recorded(kind, of), Due(kind, of)
      PROVE  NoneTwice'
    <2>1. Len(calls) \in Nat /\ DOMAIN calls = 1..Len(calls) /\ DOMAIN calls' = 1..Len(calls) + 1
        BY <1>2, InvFacts DEF Recorded
    <2>2. \A i \in DOMAIN calls : ~(calls[i].kind = kind /\ calls[i].of = of)
        BY <1>2 DEF Due, Called
    <2>3. \A i \in DOMAIN calls' : i \in DOMAIN calls \/ i = Len(calls) + 1
        BY <2>1
    <2>4. /\ \A i \in DOMAIN calls : calls'[i] = calls[i]
          /\ calls'[Len(calls) + 1].kind = kind /\ calls'[Len(calls) + 1].of = of
        BY <1>2, <2>1 DEF Recorded
    <2>5. ASSUME NEW i \in DOMAIN calls', NEW j \in DOMAIN calls',
                 calls'[i].kind = calls'[j].kind, calls'[i].of = calls'[j].of
          PROVE  i = j
        <3>1. CASE i \in DOMAIN calls /\ j \in DOMAIN calls
            BY <2>4, <2>5, <3>1 DEF NoneTwice
        <3>2. CASE i = Len(calls) + 1 \/ j = Len(calls) + 1
            BY <2>2, <2>3, <2>4, <2>5, <3>2
        <3> QED BY <2>3, <3>1, <3>2
    <2> QED BY <2>5 DEF NoneTwice
<1> QED BY <1>1, <1>2, CallsDue

(* The process is in the directory an entry's function should find.        *)
LEMMA PlaceStep ==
    ASSUME ScanInv, InPlace, [Next]_scanVars
    PROVE  InPlace'
<1>1. UNCHANGED <<home, locked>>
    BY CallsDue, TreeKept
<1>2. CASE UNCHANGED calls
    BY <1>1, <1>2 DEF InPlace, Around, Undisturbed
<1>3. ASSUME NEW kind \in Kinds, NEW of \in Entries,
             Recorded(kind, of), Due(kind, of), Named(kind, of)
      PROVE  InPlace'
    <2>1. Len(calls) \in Nat /\ DOMAIN calls = 1..Len(calls) /\ DOMAIN calls' = 1..Len(calls) + 1
        BY <1>3, InvFacts DEF Recorded
    <2>2. /\ \A i \in DOMAIN calls : calls'[i] = calls[i]
          /\ calls'[Len(calls) + 1].kind = kind /\ calls'[Len(calls) + 1].of = of
          /\ calls'[Len(calls) + 1].cwd = cwd /\ calls'[Len(calls) + 1].sdir = sdir'
        BY <1>3, <2>1 DEF Recorded
    <2>3. \A c : Around(c)' = Around(c)
        BY <1>1 DEF Around
    <2>4. ASSUME NEW i \in DOMAIN calls, Undisturbed(i)' PROVE Undisturbed(i)
        <3>1. \A j \in 1..i - 1 : j \in DOMAIN calls /\ j \in DOMAIN calls'
            BY <2>1
        <3> QED BY <1>1, <2>2, <2>3, <2>4, <3>1 DEF Undisturbed
    <2>5. ASSUME NEW i \in DOMAIN calls', i = Len(calls) + 1, Undisturbed(i)',
                 kind \in {"file_process", "filelist_finish"}
          PROVE  ~Strayed(IF kind = "file_process" THEN home[of] ELSE of)
        <3>1. \A j \in DOMAIN calls : j \in 1..i - 1
            BY <2>1, <2>5
        <3>2. Around(calls'[i]) = IF kind = "file_process" THEN home[of] ELSE of
            BY <2>2, <2>5 DEF Around
        <3> QED BY <1>1, <2>2, <2>3, <2>5, <3>1, <3>2 DEF Undisturbed, Strayed
    <2>6. ASSUME NEW i \in DOMAIN calls', NEW c, c = calls'[i]
          PROVE  /\ /\ c.kind \in {"file_process", "filelist_finish"}
                    /\ Around(c) \notin locked /\ Undisturbed(i)'
                    => c.cwd = Around(c)
                 /\ c.kind \in {"dir_process", "file_process"} => c.sdir = Around(c)
        <3>1. CASE i \in DOMAIN calls
            BY <2>2, <2>4, <2>6, <3>1 DEF InPlace
        <3>2. CASE i = Len(calls) + 1
            BY <1>3, <2>2, <2>5, <2>6, <3>2 DEF Due, Named, Around
        <3> QED BY <2>1, <3>1, <3>2
    <2> QED BY <1>1, <2>3, <2>6 DEF InPlace
<1> QED BY <1>2, <1>3, CallsDue

(* A call lies between dir_process and dir_finish of its directory.        *)
Between(i) ==
    LET of == calls[i].of IN
    /\ of # Top => \E j \in DOMAIN calls :
                       calls[j].of = home[of] /\ calls[j].kind = "dir_process" /\ j < i
    /\ of # Top => \A j \in DOMAIN calls :
                       calls[j].of = home[of] /\ calls[j].kind # "dir_process" => i < j
    /\ calls[i].kind # "dir_process" /\ of \in Dirs =>
          \E j \in 1..i : calls[j].of = of /\ calls[j].kind = "dir_process"
    /\ of \in Files => \A j \in DOMAIN calls : calls[j].of \in SubdirsOf(home[of]) => j < i

LEMMA BracketedIsBetween == Bracketed <=> \A i \in DOMAIN calls : Between(i)
    BY DEF Bracketed, Between, ParentCalls

LEMMA BetweenStep ==
    ASSUME ScanInv, \A i \in DOMAIN calls : Between(i), [Next]_scanVars
    PROVE  \A i \in DOMAIN calls' : Between(i)'
<1>1. UNCHANGED home /\ \A d : SubdirsOf(d)' = SubdirsOf(d)
    BY CallsDue, TreeKept
<1>2. CASE UNCHANGED calls
    BY <1>1, <1>2 DEF Between
<1>3. ASSUME NEW kind \in Kinds, NEW of \in Entries, Recorded(kind, of), Due(kind, of),
             NEW i \in DOMAIN calls'
      PROVE  Between(i)'
    <2> DEFINE n == Len(calls) + 1
    <2>1. /\ Len(calls) \in Nat /\ DOMAIN calls = 1..Len(calls) /\ DOMAIN calls' = 1..n
          /\ n \in Nat /\ n \notin DOMAIN calls
          /\ \A j \in DOMAIN calls' : j \in Nat /\ (j \in DOMAIN calls \/ j = n)
          /\ \A j \in DOMAIN calls : j \in DOMAIN calls' /\ j \in Nat /\ j < n
        BY <1>3, InvFacts DEF Recorded
    <2>2. /\ \A j \in DOMAIN calls : calls'[j] = calls[j]
          /\ calls'[n].kind = kind /\ calls'[n].of = of
        BY <1>3, <2>1 DEF Recorded
    <2> HIDE DEF n
    <2>3. of # Top => of # home[of]
        BY InvFacts, TreeFacts, Places
    <2>4. CASE i = n
        <3>1. of # Top => \E j \in DOMAIN calls :
                              calls[j].of = home[of] /\ calls[j].kind = "dir_process"
            BY <1>3 DEF Due, Called
        <3>2. ASSUME of # Top, NEW j \in DOMAIN calls, calls[j].of = home[of]
              PROVE  calls[j].kind = "dir_process"
            <4>1. /\ Called(calls[j].kind, home[of]) /\ calls[j].kind \in Kinds
                  /\ home[of] \in Dirs /\ home[of] \in Entries /\ home[of] \notin Files
                BY <3>2, CallFacts, InvFacts, Places DEF Called
            <4>2. calls[j].kind # "file_process"
                BY <4>1 DEF ScanInv, Parents
            <4> QED BY <1>3, <3>2, <4>1, <4>2 DEF Due, Kinds
        <3>3. kind # "dir_process" /\ of \in Dirs => \E j \in DOMAIN calls :
                                        calls[j].of = of /\ calls[j].kind = "dir_process"
            BY <1>3 DEF Due, Called
        <3>4. \A j \in DOMAIN calls : j \in 1..n
            BY <2>1
        <3>5. of \in Files => of \notin SubdirsOf(home[of])
            BY Places DEF SubdirsOf
        <3>6. ASSUME of # Top
              PROVE  /\ \E j \in DOMAIN calls' :
                            calls'[j].of = home[of] /\ calls'[j].kind = "dir_process" /\ j < n
                     /\ \A j \in DOMAIN calls' :
                            ~(calls'[j].of = home[of] /\ calls'[j].kind # "dir_process")
            BY <2>1, <2>2, <2>3, <3>1, <3>2, <3>6
        <3>7. kind # "dir_process" /\ of \in Dirs => \E j \in 1..n :
                              calls'[j].of = of /\ calls'[j].kind = "dir_process"
            BY <2>2, <3>3, <3>4
        <3>8. of \in Files => \A j \in DOMAIN calls' : calls'[j].of \in SubdirsOf(home[of]) => j < n
            BY <2>1, <2>2, <3>5
        <3> QED BY <1>1, <2>2, <2>4, <3>6, <3>7, <3>8 DEF Between
    <2>5. CASE i \in DOMAIN calls
        <3>1. Between(i) /\ calls'[i] = calls[i] /\ i < n
            BY <2>1, <2>2, <2>5
        <3>2. \A j \in 1..i : j \in DOMAIN calls
            BY <2>1, <2>5
        <3>3. ASSUME calls[i].of \in Files PROVE of \notin SubdirsOf(home[calls[i].of])
            <4>1. About(calls[i].of) /\ calls[i].of \in FilesOf(home[calls[i].of])
                BY <2>5, <3>3 DEF About, FilesOf
            <4> QED BY <1>3, <4>1 DEF Due, SubdirsOf
        <3>4. ASSUME calls[i].of # Top
              PROVE  /\ \E j \in DOMAIN calls' :
                            /\ calls'[j].of = home[calls[i].of]
                            /\ calls'[j].kind = "dir_process" /\ j < i
                     /\ \A j \in DOMAIN calls' :
                            calls'[j].of = home[calls[i].of] /\ calls'[j].kind # "dir_process" => i < j
            BY <2>1, <2>2, <3>1, <3>4 DEF Between
        <3>5. calls[i].kind # "dir_process" /\ calls[i].of \in Dirs =>
                  \E j \in 1..i : calls'[j].of = calls[i].of /\ calls'[j].kind = "dir_process"
            BY <2>2, <3>1, <3>2 DEF Between
        <3>6. calls[i].of \in Files =>
                  \A j \in DOMAIN calls' : calls'[j].of \in SubdirsOf(home[calls[i].of]) => j < i
            BY <2>1, <2>2, <3>1, <3>3 DEF Between
        <3> QED BY <1>1, <3>1, <3>4, <3>5, <3>6 DEF Between
    <2> QED BY <2>1, <2>4, <2>5
<1> QED BY <1>2, <1>3, CallsDue

-----------------------------------------------------------------------------
(* Every variable stays in its range, and the recursion in its limit: there *)
(* are never more than MAXNEST + 1 calls of scan_dir_r on the C stack.     *)
THEOREM ScanTypeCorrect == Spec => []ScanTypeOK
<1>1. ScanInv => ScanTypeOK
    BY DEF ScanInv
<1> QED BY <1>1, ScanInvariant, PTL

(* No function is called twice for the same entry.                         *)
THEOREM VisitedOnce == Spec => []NoneTwice
<1>1. Init => NoneTwice
    BY DEF Init, NoneTwice
<1>2. ScanInv /\ NoneTwice /\ [Next]_scanVars => NoneTwice'
    BY OnceStep
<1> QED BY <1>1, <1>2, ScanInvariant, PTL DEF Spec

(* The calls about a directory enclose those about what is in it, and a    *)
(* directory's files come after its subdirectories.                        *)
THEOREM CallsNest == Spec => []Bracketed
<1> DEFINE AllBetween == \A i \in DOMAIN calls : Between(i)
<1>1. Init => AllBetween
    BY DEF Init
<1>2. ScanInv /\ AllBetween /\ [Next]_scanVars => AllBetween'
    BY BetweenStep
<1>3. AllBetween <=> Bracketed
    BY BracketedIsBetween
<1> HIDE DEF AllBetween
<1> QED BY <1>1, <1>2, <1>3, ScanInvariant, PTL DEF Spec

(* file_process and filelist_finish find the process in their directory,   *)
(* if it can be entered and no file_process has left it; and dir_process   *)
(* and file_process have their directory's path in sdir_fullname.          *)
THEOREM CallsInPlace == Spec => []InPlace
<1>1. Init => InPlace
    BY DEF Init, InPlace
<1>2. ScanInv /\ InPlace /\ [Next]_scanVars => InPlace'
    BY PlaceStep
<1> QED BY <1>1, <1>2, ScanInvariant, PTL DEF Spec

-----------------------------------------------------------------------------
(* That a scan is whole.  The program lets the scan into d.                *)
LetIn(d) ==
    \E i \in DOMAIN calls :
        calls[i].kind = "dir_process" /\ calls[i].of = d /\ (calls[i].more \/ d = Top)

(* What of a directory's loops is behind them: all of the list that is no  *)
(* longer to come, and all such files.                                     *)
SubdirsCame(d, todo) ==
    subs /\ d \notin locked =>
        \E list \in SUBSET SubdirsOf(d) :
            /\ list = SubdirsOf(d) \/ Cardinality(list) = MAXDIRS
            /\ \A s \in list \cap matching : s \in todo \/ Called("dir_process", s)

FilesCame(d, todo) ==
    d \notin locked =>
        Strayed(d) \/ \A f \in FilesOf(d) \cap matching : f \in todo \/ Called("file_process", f)

Progress ==
    /\ \A i \in 1..Len(frames) :
           i < Len(frames) \/ pc = "subdirs" => SubdirsCame(frames[i].dir, frames[i].todo)
    /\ pc \in {"files", "finish"} => SubdirsCame(Dir, {})
    /\ pc = "files" => FilesCame(Dir, Todo)
    /\ pc = "finish" => FilesCame(Dir, {}) /\ Called("filelist_finish", Dir)
    /\ pc = "return" => Whole(Dir) \/ Dir \in hidden \/ Len(frames) > MAXNEST

(* The frames lie on the way down to each of them, so that a frame with    *)
(* MAXNEST others above it belongs to a directory that is too deep.        *)
OnTheWay ==
    \A i \in 1..Len(frames) : \A j \in 1..i : frames[j].dir \in Way(frames[i].dir)

(* A directory that was let in is under way, or is done with.              *)
Settled ==
    \A d \in Dirs : LetIn(d) =>
        \/ \E i \in 1..Len(frames) : frames[i].dir = d
        \/ Whole(d) \/ d \in hidden \/ Depth(d) > MAXNEST

BackOutside == pc \in {"start", "over"} => cwd = Outside

WholeInv == Progress /\ OnTheWay /\ Settled /\ BackOutside

-----------------------------------------------------------------------------
LEMMA WayFacts ==
    ASSUME home \in Trees
    PROVE  /\ \A d \in Dirs : d \in Way(d)
           /\ \A s \in Dirs : Way(home[s]) \subseteq Way(s)
           /\ \A d \in Dirs : IsFiniteSet(Way(d))
<1>1. \A d : Way(d) \subseteq Dirs
    BY DEF Way
<1> QED BY <1>1, FS_Subset, ScanAssumption DEF Way

(* The calls only grow, and the rest a scan is measured by stays the same  *)
(* once it has begun.                                                      *)
LEMMA Steady ==
    ASSUME ScanInv, [Next]_scanVars
    PROVE  /\ UNCHANGED <<home, matching, locked, hidden>>
           /\ pc # "start" => UNCHANGED subs
           /\ \A d : /\ SubdirsOf(d)' = SubdirsOf(d) /\ FilesOf(d)' = FilesOf(d)
                     /\ Way(d)' = Way(d) /\ Depth(d)' = Depth(d)
           /\ \A k, e : Called(k, e) => Called(k, e)'
           /\ \A d : Strayed(d) => Strayed(d)'
<1>1. UNCHANGED <<home, matching, locked, hidden>> /\ \A d : SubdirsOf(d)' = SubdirsOf(d) /\ FilesOf(d)' = FilesOf(d)
    BY CallsDue, TreeKept
<1>2. pc # "start" => UNCHANGED subs
    BY DEF Next, Refuse, Start, TooDeep, CannotOpen, ListSubdirs, SkipSubdir, PassSubdir, CutSubdir,
       ScanSubdir, SubdirsDone, ProcessFile, SkipFile, FilesDone, Finish, ReturnToParent,
       ReturnToCaller, scanVars
<1>3. /\ \A k, e : Called(k, e) => Called(k, e)'
      /\ \A d : Strayed(d) => Strayed(d)'
    <2>1. CASE UNCHANGED calls
        BY <1>1, <2>1 DEF Called, Strayed
    <2>2. ASSUME NEW kind, NEW of, Recorded(kind, of)
          PROVE  /\ \A k, e : Called(k, e) => Called(k, e)'
                 /\ \A d : Strayed(d) => Strayed(d)'
        BY <1>1, <2>2, InvFacts, RecordedFacts
    <2> QED BY <2>1, <2>2, CallsDue
<1>4. \A d : Way(d)' = Way(d)
    BY <1>1 DEF Way
<1> QED BY <1>1, <1>2, <1>3, <1>4 DEF Depth

LEMMA StaysCame ==
    ASSUME ScanInv, [Next]_scanVars, pc # "start"
    PROVE  \A d, todo : /\ SubdirsCame(d, todo) => SubdirsCame(d, todo)'
                        /\ FilesCame(d, todo) => FilesCame(d, todo)'
                        /\ Whole(d) => Whole(d)'
    BY Steady DEF SubdirsCame, FilesCame, Whole, SubdirsWhole, FilesWhole

(* The outer frames' loops stand still.                                    *)
OuterKept ==
    /\ frames' \in Seq(FrameType) /\ Len(frames') >= Len(frames)
    /\ \A i \in 1..Len(frames) - 1 : frames'[i].dir = frames[i].dir /\ frames'[i].todo = frames[i].todo

LEMMA OuterCame ==
    ASSUME ScanInv, Progress, [Next]_scanVars, pc # "start", OuterKept,
           NEW i \in 1..Len(frames), i < Len(frames)
    PROVE  SubdirsCame(frames[i].dir, frames[i].todo)'
<1>1. SubdirsCame(frames[i].dir, frames[i].todo)
    BY DEF Progress
<1>2. i \in 1..Len(frames) - 1
    BY InvFacts
<1>3. frames'[i].dir = frames[i].dir /\ frames'[i].todo = frames[i].todo
    BY <1>2 DEF OuterKept
<1>4. PICK d, todo : d = frames[i].dir /\ todo = frames[i].todo
    OBVIOUS
<1>5. SubdirsCame(d, todo)'
    BY <1>1, <1>4, StaysCame
<1> QED BY <1>3, <1>4, <1>5 DEF SubdirsCame

LEMMA RelistedOuter ==
    ASSUME ScanInv, NEW x, Relisted(x)
    PROVE  OuterKept
<1>1. Len(frames) \in Nat
    BY InvFacts
<1> QED BY <1>1 DEF Relisted, OuterKept

(* Progress holds again when the outer loops stand still, and the          *)
(* innermost frame's part of it does.                                      *)
LEMMA ProgressMade ==
    ASSUME ScanInv, Progress, [Next]_scanVars, pc \notin {"start", "over"},
           OuterKept, Len(frames') = Len(frames), NEW d, d = Dir, NEW todo, todo = Todo',
           Dir' = Dir,
           pc' = "subdirs" => SubdirsCame(d, todo)',
           pc' \in {"files", "finish"} => SubdirsCame(d, {})',
           pc' = "files" => FilesCame(d, todo)',
           pc' = "finish" => FilesCame(d, {})' /\ Called("filelist_finish", d)',
           pc' = "return" => Whole(d)' \/ d \in hidden \/ Len(frames) > MAXNEST
    PROVE  Progress'
<1>1. Len(frames) \in Nat /\ Len(frames) > 0
    BY InvFacts
<1>2. ASSUME NEW i \in 1..Len(frames'), i < Len(frames') \/ pc' = "subdirs"
      PROVE  SubdirsCame(frames[i].dir, frames[i].todo)'
    <2>1. CASE i < Len(frames)
        BY <2>1, OuterCame
    <2>2. CASE i = Len(frames)
        <3>1. frames'[i].dir = d /\ frames'[i].todo = todo
            BY <2>2 DEF Dir, Todo
        <3> QED BY <1>2, <2>2, <3>1 DEF SubdirsCame
    <2> QED BY <1>1, <1>2, <2>1, <2>2
<1>3. hidden' = hidden
    BY Steady
<1>4. pc' \in {"files", "finish"} => SubdirsCame(Dir, {})'
    BY DEF SubdirsCame
<1>5. pc' = "files" => FilesCame(Dir, Todo)'
    BY DEF FilesCame, Strayed
<1>6. pc' = "finish" => FilesCame(Dir, {})' /\ Called("filelist_finish", Dir)'
    BY DEF FilesCame, Strayed
<1>7. pc' = "return" => Whole(Dir)' \/ Dir' \in hidden' \/ Len(frames') > MAXNEST
    BY <1>3 DEF Whole, FilesWhole, SubdirsWhole, Strayed
<1> QED BY <1>2, <1>4, <1>5, <1>6, <1>7 DEF Progress

LEMMA GiveUpProgress ==
    ASSUME ScanInv, Progress, TooDeep \/ CannotOpen PROVE Progress'
<1>1. /\ pc = "enter" /\ pc' = "return" /\ UNCHANGED frames
      /\ Dir \in hidden \/ Len(frames) > MAXNEST
    BY DEF TooDeep, CannotOpen
<1>2. [Next]_scanVars
    BY DEF Next
<1>3. OuterKept /\ Dir' = Dir
    BY <1>1, InvFacts DEF OuterKept, Dir
<1> QED BY <1>1, <1>2, <1>3, ProgressMade

LEMMA ListProgress ==
    ASSUME ScanInv, Progress, ListSubdirs PROVE Progress'
<1>1. pc = "enter" /\ pc' = "subdirs"
    BY DEF ListSubdirs
<1>2. PICK list \in SUBSET SubdirsOf(Dir) :
          /\ Dir \in locked \/ list = SubdirsOf(Dir) \/ Cardinality(list) = MAXDIRS
          /\ frames' = Working(list)
    BY DEF ListSubdirs, Listed
<1>3. frames \in Seq(FrameType) /\ frames # <<>> /\ list \in SUBSET Entries
    <2>1. SubdirsOf(Dir) \subseteq Entries
        BY Places DEF SubdirsOf
    <2> QED BY <1>1, <2>1, InvFacts
<1>4. Relisted(list) /\ Dir' = Dir /\ Todo' = list
    BY <1>2, <1>3, WorkingRelists
<1>5. [Next]_scanVars
    BY DEF Next
<1>6. PICK d : d = Dir
    OBVIOUS
<1>7. SubdirsCame(d, list)'
    <2>1. UNCHANGED <<matching, locked>> /\ SubdirsOf(d)' = SubdirsOf(d)
        BY <1>5, Steady
    <2> QED BY <1>2, <1>6, <2>1 DEF SubdirsCame
<1>8. OuterKept /\ Len(frames') = Len(frames)
    BY <1>4, RelistedOuter DEF Relisted
<1> QED BY <1>1, <1>4, <1>5, <1>6, <1>7, <1>8, ProgressMade

(* A subdirectory of the list that is passed over, or its call made.       *)
LEMMA OneSubdirLess ==
    ASSUME ScanInv, Progress, [Next]_scanVars, pc = "subdirs", NEW s \in Todo,
           NEW d, d = Dir, NEW rest, rest = Todo \ {s},
           s \notin matching \/ ~subs \/ d \in locked \/ Called("dir_process", s)'
    PROVE  SubdirsCame(d, rest)'
<1>1. /\ UNCHANGED <<matching, subs, locked>> /\ SubdirsOf(d)' = SubdirsOf(d)
      /\ \A k, e : Called(k, e) => Called(k, e)'
    BY Steady
<1>2. Len(frames) \in 1..Len(frames)
    BY InvFacts
<1>3. SubdirsCame(d, Todo)
    BY <1>2 DEF Progress, Dir, Todo
<1> QED BY <1>1, <1>3 DEF SubdirsCame

(* An entry of the list is looked up where it is. *)
LEMMA FoundHere ==
    ASSUME ScanInv, NEW e \in Todo, pc \in {"subdirs", "files"}, Misses(e)
    PROVE  e \notin matching \/ Dir \in locked \/ (pc = "files" /\ Strayed(Dir))
<1>1. Len(frames) \in 1..Len(frames)
    BY InvFacts
<1>2. e \in SubdirsOf(Dir) \/ e \in FilesOf(Dir)
    BY <1>1 DEF ScanInv, Lists, Dir, Todo
<1>3. home[e] = Dir
    BY <1>2 DEF SubdirsOf, FilesOf
<1> QED BY <1>3 DEF Misses, ScanInv, Located

LEMMA PassProgress ==
    ASSUME ScanInv, Progress, NEW s \in Dirs, SkipSubdir(s) \/ PassSubdir(s) \/ CutSubdir(s)
    PROVE  Progress'
<1>1. /\ pc = "subdirs" /\ pc' = "subdirs" /\ s \in Todo
      /\ frames' = Working(Todo \ {s})
    BY DEF SkipSubdir, PassSubdir, CutSubdir
<1>2. [Next]_scanVars
    BY DEF Next
<1>3. PICK d, rest : d = Dir /\ rest = Todo \ {s}
    OBVIOUS
<1>4. frames \in Seq(FrameType) /\ frames # <<>> /\ rest \in SUBSET Entries
    BY <1>1, <1>3, InvFacts
<1>5. Relisted(rest) /\ Dir' = Dir /\ Todo' = rest
    BY <1>1, <1>3, <1>4, WorkingRelists
<1>6. s \notin matching \/ ~subs \/ d \in locked \/ Called("dir_process", s)'
    <2>1. CASE SkipSubdir(s)
        BY <1>1, <1>3, <2>1, FoundHere DEF SkipSubdir
    <2>2. CASE PassSubdir(s)
        BY <2>2 DEF PassSubdir
    <2>3. CASE CutSubdir(s)
        <3>1. Recorded("dir_process", s)
            BY <2>3, InvFacts, CallRecords, Places DEF CutSubdir, Kinds
        <3> QED BY <3>1, InvFacts, RecordedFacts
    <2> QED BY <2>1, <2>2, <2>3
<1>7. SubdirsCame(d, rest)'
    BY <1>1, <1>2, <1>3, <1>6, OneSubdirLess
<1>8. OuterKept /\ Len(frames') = Len(frames)
    BY <1>5, RelistedOuter DEF Relisted
<1> QED BY <1>1, <1>2, <1>3, <1>5, <1>7, <1>8, ProgressMade

LEMMA EnterProgress ==
    ASSUME ScanInv, Progress, NEW s \in Dirs, ScanSubdir(s) PROVE Progress'
<1>1. /\ pc = "subdirs" /\ pc' = "enter" /\ s \in Todo
      /\ frames' = Append(Working(Todo \ {s}), [dir |-> s, todo |-> {}])
    BY DEF ScanSubdir
<1>2. [Next]_scanVars
    BY DEF Next
<1>3. PICK d, rest : d = Dir /\ rest = Todo \ {s}
    OBVIOUS
<1>4. frames \in Seq(FrameType) /\ frames # <<>> /\ rest \in SUBSET Entries /\ Len(frames) \in Nat
    BY <1>1, <1>3, InvFacts
<1>5. Pushed(rest, s)
    BY <1>1, <1>3, <1>4, AppendPushes
<1>6. Recorded("dir_process", s)
    BY InvFacts, CallRecords, Places DEF ScanSubdir, Kinds
<1>7. SubdirsCame(d, rest)'
    BY <1>1, <1>2, <1>3, <1>6, InvFacts, RecordedFacts, OneSubdirLess
<1>8. OuterKept
    BY <1>4, <1>5 DEF Pushed, OuterKept
<1>9. ASSUME NEW i \in 1..Len(frames'), i < Len(frames')
      PROVE  SubdirsCame(frames[i].dir, frames[i].todo)'
    <2>1. CASE i < Len(frames)
        <3>1. i \in 1..Len(frames) /\ pc # "start"
            BY <1>1, <1>4, <2>1
        <3> QED BY <1>2, <1>8, <2>1, <3>1, OuterCame
    <2>2. CASE i = Len(frames)
        <3>1. frames'[i].dir = d /\ frames'[i].todo = rest
            BY <1>3, <1>4, <1>5, <2>2 DEF Pushed, Dir
        <3> QED BY <1>7, <3>1 DEF SubdirsCame
    <2> QED BY <1>4, <1>5, <1>9, <2>1, <2>2 DEF Pushed
<1> QED BY <1>1, <1>9 DEF Progress

LEMMA FilesProgress ==
    ASSUME ScanInv, Progress, SubdirsDone PROVE Progress'
<1>1. pc = "subdirs" /\ pc' = "files" /\ Todo = {} /\ frames' = Working(FilesOf(Dir))
    BY DEF SubdirsDone
<1>2. [Next]_scanVars
    BY DEF Next
<1>3. PICK d, rest : d = Dir /\ rest = FilesOf(Dir)
    OBVIOUS
<1>4. frames \in Seq(FrameType) /\ frames # <<>> /\ rest \in SUBSET Entries
    <2>1. FilesOf(Dir) \subseteq Entries
        BY Places DEF FilesOf
    <2> QED BY <1>1, <1>3, <2>1, InvFacts
<1>5. Relisted(rest) /\ Dir' = Dir /\ Todo' = rest
    BY <1>1, <1>3, <1>4, WorkingRelists
<1>6. SubdirsCame(d, {})'
    <2>1. Len(frames) \in 1..Len(frames)
        BY <1>1, InvFacts
    <2>2. SubdirsCame(d, {})
        BY <1>1, <1>3, <2>1 DEF Progress, Dir, Todo
    <2> QED BY <1>1, <1>2, <2>2, StaysCame
<1>7. FilesCame(d, rest)'
    BY <1>2, <1>3, Steady DEF FilesCame
<1>8. OuterKept /\ Len(frames') = Len(frames)
    BY <1>5, RelistedOuter DEF Relisted
<1> QED BY <1>1, <1>2, <1>3, <1>5, <1>6, <1>7, <1>8, ProgressMade

LEMMA FileProgress ==
    ASSUME ScanInv, Progress, NEW f \in Files, ProcessFile(f) \/ SkipFile(f) PROVE Progress'
<1>1. pc = "files" /\ pc' = "files" /\ f \in Todo /\ frames' = Working(Todo \ {f})
    BY DEF ProcessFile, SkipFile
<1>2. [Next]_scanVars
    BY DEF Next
<1>3. PICK d, rest : d = Dir /\ rest = Todo \ {f}
    OBVIOUS
<1>4. frames \in Seq(FrameType) /\ frames # <<>> /\ rest \in SUBSET Entries
    BY <1>1, <1>3, InvFacts
<1>5. Relisted(rest) /\ Dir' = Dir /\ Todo' = rest
    BY <1>1, <1>3, <1>4, WorkingRelists
<1>6. f \notin matching \/ d \in locked \/ Strayed(d) \/ Called("file_process", f)'
    <2>1. CASE SkipFile(f)
        BY <1>1, <1>3, <2>1, FoundHere DEF SkipFile
    <2>2. CASE ProcessFile(f)
        <3>1. Recorded("file_process", f)
            BY <1>1, <2>2, InvFacts, CallRecords, Places DEF ProcessFile, Kinds
        <3> QED BY <3>1, InvFacts, RecordedFacts
    <2> QED BY <2>1, <2>2
<1>7. FilesCame(d, rest)'
    <2>1. FilesCame(d, Todo)
        BY <1>1, <1>3 DEF Progress
    <2>2. /\ UNCHANGED <<matching, locked>> /\ FilesOf(d)' = FilesOf(d)
          /\ \A k, e : Called(k, e) => Called(k, e)'
          /\ Strayed(d) => Strayed(d)'
        BY <1>2, Steady
    <2> QED BY <1>3, <1>6, <2>1, <2>2 DEF FilesCame
<1>8. SubdirsCame(d, {})'
    BY <1>1, <1>2, <1>3, StaysCame DEF Progress
<1>9. OuterKept /\ Len(frames') = Len(frames)
    BY <1>5, RelistedOuter DEF Relisted
<1> QED BY <1>1, <1>2, <1>3, <1>5, <1>7, <1>8, <1>9, ProgressMade

LEMMA LastProgress ==
    ASSUME ScanInv, Progress, FilesDone \/ Finish PROVE Progress'
<1>1. /\ UNCHANGED frames
      /\ \/ pc = "files" /\ pc' = "finish" /\ Todo = {} /\ Call("filelist_finish", Dir, TRUE)
         \/ pc = "finish" /\ pc' = "return" /\ Call("dir_finish", Dir, TRUE)
      /\ sdir' = sdir
    BY DEF FilesDone, Finish
<1>2. [Next]_scanVars
    BY DEF Next
<1>3. PICK d : d = Dir
    OBVIOUS
<1>4. OuterKept /\ Dir' = Dir
    BY <1>1, InvFacts DEF OuterKept, Dir
<1>5. sdir' \in Dirs /\ d \in Entries
    BY <1>1, <1>3, InvFacts, Places DEF ScanInv, Located, SubdirsOf
<1>6. SubdirsCame(d, {}) /\ FilesCame(d, {})
    BY <1>1, <1>3 DEF Progress
<1>7. SubdirsCame(d, {})' /\ FilesCame(d, {})'
    BY <1>1, <1>2, <1>6, StaysCame
<1>8. CASE pc' = "finish"
    <2>1. Recorded("filelist_finish", d)
        BY <1>1, <1>3, <1>5, <1>8, InvFacts, CallRecords DEF Kinds
    <2>2. Called("filelist_finish", d)'
        BY <2>1, InvFacts, RecordedFacts
    <2> QED BY <1>1, <1>2, <1>3, <1>4, <1>7, <1>8, <2>2, ProgressMade
<1>9. CASE pc' = "return"
    <2>1. Recorded("dir_finish", d)
        BY <1>1, <1>3, <1>5, <1>9, InvFacts, CallRecords DEF Kinds
    <2>2. Called("dir_finish", d)' /\ Called("filelist_finish", d)'
        BY <1>1, <1>2, <1>3, <1>9, <2>1, InvFacts, RecordedFacts, Steady DEF Progress
    <2>3. Whole(d)'
        BY <1>7, <2>2 DEF Whole, SubdirsWhole, FilesWhole, SubdirsCame, FilesCame
    <2> QED BY <1>1, <1>2, <1>3, <1>4, <1>9, <2>3, ProgressMade
<1> QED BY <1>1, <1>8, <1>9

LEMMA ReturnProgress ==
    ASSUME ScanInv, Progress, ReturnToParent PROVE Progress'
<1>1. /\ pc = "return" /\ pc' = "subdirs" /\ Len(frames) > 1
      /\ frames' = SubSeq(frames, 1, Len(frames) - 1)
    BY DEF ReturnToParent
<1>2. [Next]_scanVars
    BY DEF Next
<1>3. Popped /\ Len(frames) \in Nat
    BY <1>1, InvFacts, SubSeqPops
<1>4. ASSUME NEW i \in 1..Len(frames')
      PROVE  SubdirsCame(frames[i].dir, frames[i].todo)'
    <2>1. i \in 1..Len(frames) /\ i < Len(frames) /\ frames'[i] = frames[i]
        BY <1>3 DEF Popped
    <2>2. PICK d, todo : d = frames[i].dir /\ todo = frames[i].todo
        OBVIOUS
    <2>3. SubdirsCame(d, todo)'
        BY <1>1, <1>2, <2>1, <2>2, StaysCame DEF Progress
    <2> QED BY <2>1, <2>2, <2>3 DEF SubdirsCame
<1> QED BY <1>1, <1>4 DEF Progress

LEMMA ProgressStep ==
    ASSUME ScanInv, Progress, [Next]_scanVars PROVE Progress'
<1>1. CASE Refuse
    <2>1. pc = "start" /\ pc' = "over" /\ UNCHANGED frames
        BY <1>1 DEF Refuse
    <2>2. frames = <<>>
        BY <2>1 DEF ScanInv, Stack
    <2> QED BY <2>1, <2>2 DEF Progress
<1>2. CASE Start
    <2>1. pc' = "enter" /\ Len(frames') = 1
        BY <1>2 DEF Start
    <2> QED BY <2>1 DEF Progress
<1>3. CASE ReturnToCaller
    BY <1>3 DEF ReturnToCaller, Progress
<1>4. CASE UNCHANGED scanVars
    <2>1. UNCHANGED <<home, matching, locked, hidden, pc, frames, subs, cwd, sdir, calls>>
        BY <1>4 DEF scanVars, tree
    <2>2. /\ \A k, e : Called(k, e)' = Called(k, e)
          /\ \A d : Strayed(d)' = Strayed(d)
          /\ \A d : SubdirsOf(d)' = SubdirsOf(d) /\ FilesOf(d)' = FilesOf(d)
        BY <2>1 DEF Called, Strayed, SubdirsOf, FilesOf
    <2>3. /\ \A d, todo : SubdirsCame(d, todo) => SubdirsCame(d, todo)'
          /\ \A d, todo : FilesCame(d, todo) => FilesCame(d, todo)'
          /\ \A d : Whole(d) => Whole(d)'
        BY <2>1, <2>2 DEF SubdirsCame, FilesCame, Whole, SubdirsWhole, FilesWhole
    <2> QED BY <2>1, <2>2, <2>3 DEF Progress, Dir, Todo
<1> QED BY <1>1, <1>2, <1>3, <1>4, GiveUpProgress, ListProgress, PassProgress, EnterProgress,
        FilesProgress, FileProgress, LastProgress, ReturnProgress DEF Next

-----------------------------------------------------------------------------
(* How the path of the frames moves: it ends, it begins, it stays, or one  *)
(* directory is added or taken away at its end.                            *)
SameDirs ==
    /\ Len(frames') = Len(frames)
    /\ \A i \in 1..Len(frames) : frames'[i].dir = frames[i].dir

OneDown(s) ==
    /\ Len(frames) > 0 /\ s # Top /\ home[s] = Dir
    /\ Len(frames') = Len(frames) + 1
    /\ \A i \in 1..Len(frames) : frames'[i].dir = frames[i].dir
    /\ frames'[Len(frames) + 1].dir = s

OneUp ==
    /\ pc = "return" /\ Len(frames') = Len(frames) - 1
    /\ \A i \in 1..Len(frames) - 1 : frames'[i].dir = frames[i].dir

LEMMA PathMoves ==
    ASSUME ScanInv, [Next]_scanVars
    PROVE  \/ Start /\ Len(frames) = 0 /\ Len(frames') = 1 /\ frames'[1].dir = Top
           \/ SameDirs
           \/ \E s \in Dirs : ScanSubdir(s) /\ OneDown(s)
           \/ OneUp
<1>1. Len(frames) \in Nat /\ frames \in Seq(FrameType)
    BY InvFacts
<1>2. CASE Refuse \/ TooDeep \/ CannotOpen \/ FilesDone \/ Finish \/ UNCHANGED scanVars
    BY <1>2 DEF Refuse, TooDeep, CannotOpen, FilesDone, Finish, scanVars, SameDirs
<1>3. CASE Start
    <2>1. pc = "start" /\ frames' = <<[dir |-> Top, todo |-> {}]>>
        BY <1>3 DEF Start
    <2>2. frames = <<>>
        BY <2>1 DEF ScanInv, Stack
    <2> QED BY <1>3, <2>1, <2>2
<1>4. ASSUME NEW x, frames' = Working(x), x \subseteq Entries, frames # <<>>
      PROVE  SameDirs
    BY <1>1, <1>4, WorkingRelists DEF Relisted, SameDirs
<1>5. CASE ListSubdirs
    <2>1. PICK list \in SUBSET SubdirsOf(Dir) : frames' = Working(list)
        BY <1>5 DEF ListSubdirs
    <2>2. list \subseteq Entries
        BY Places DEF SubdirsOf
    <2>3. frames # <<>>
        BY <1>5 DEF ListSubdirs, ScanInv, Stack
    <2> QED BY <1>4, <2>1, <2>2, <2>3
<1>6. CASE SubdirsDone
    <2>1. frames' = Working(FilesOf(Dir)) /\ pc = "subdirs"
        BY <1>6 DEF SubdirsDone
    <2>2. FilesOf(Dir) \subseteq Entries
        BY Places DEF FilesOf
    <2>3. frames # <<>>
        BY <2>1 DEF ScanInv, Stack
    <2> QED BY <1>4, <2>1, <2>2, <2>3
<1>7. ASSUME NEW e, SkipSubdir(e) \/ PassSubdir(e) \/ CutSubdir(e) \/ ProcessFile(e) \/ SkipFile(e)
      PROVE  SameDirs
    <2>1. frames' = Working(Todo \ {e}) /\ pc \in {"subdirs", "files"}
        BY <1>7 DEF SkipSubdir, PassSubdir, CutSubdir, ProcessFile, SkipFile
    <2>2. frames # <<>> /\ Todo \ {e} \subseteq Entries
        BY <2>1, InvFacts DEF ScanInv, Stack
    <2> QED BY <1>4, <2>1, <2>2
<1>8. ASSUME NEW s \in Dirs, ScanSubdir(s) PROVE OneDown(s)
    <2>1. pc = "subdirs" /\ s \in Todo /\ frames' = Append(Working(Todo \ {s}), [dir |-> s, todo |-> {}])
        BY <1>8 DEF ScanSubdir
    <2>2. Len(frames) \in 1..Len(frames) /\ frames # <<>> /\ Todo \ {s} \in SUBSET Entries
        BY <1>1, <2>1, InvFacts
    <2>3. s \in SubdirsOf(Dir)
        BY <2>1, <2>2 DEF ScanInv, Lists, Dir, Todo
    <2>4. Pushed(Todo \ {s}, s)
        BY <1>1, <2>1, <2>2, AppendPushes
    <2> QED BY <2>2, <2>3, <2>4 DEF Pushed, OneDown, SubdirsOf
<1>9. CASE ReturnToParent
    <2>1. pc = "return" /\ Popped
        BY <1>1, <1>9, SubSeqPops DEF ReturnToParent
    <2> QED BY <2>1 DEF Popped, OneUp
<1>10. CASE ReturnToCaller
    BY <1>10 DEF ReturnToCaller, OneUp
<1> QED BY <1>2, <1>3, <1>5, <1>6, <1>7, <1>8, <1>9, <1>10 DEF Next

LEMMA WayStep ==
    ASSUME ScanInv, OnTheWay, [Next]_scanVars PROVE OnTheWay'
<1>1. \A d : Way(d)' = Way(d)
    BY Steady
<1>2. Len(frames) \in Nat /\ home \in Trees /\ \A i \in 1..Len(frames) : frames[i].dir \in Dirs
    BY InvFacts
<1>3. ASSUME Len(frames') \in Nat, NEW n \in Nat, n <= Len(frames),
             \A i \in 1..n : frames'[i].dir = frames[i].dir,
             \/ Len(frames') = n
             \/ /\ Len(frames') = n + 1
                /\ \A j \in 1..n + 1 : frames'[j].dir \in Way(frames'[n + 1].dir)
      PROVE  OnTheWay'
    <2> SUFFICES ASSUME NEW i \in 1..Len(frames'), NEW j \in 1..i
                 PROVE  frames'[j].dir \in Way(frames'[i].dir)
        BY <1>1 DEF OnTheWay
    <2>1. CASE i <= n
        <3>1. i \in 1..n /\ j \in 1..n /\ i \in 1..Len(frames)
            BY <1>2, <1>3, <2>1
        <3> QED BY <1>3, <3>1 DEF OnTheWay
    <2>2. CASE i > n
        <3>1. i = n + 1
            BY <1>3, <2>2
        <3> QED BY <1>3, <2>2, <3>1
    <2> QED BY <1>3, <2>1, <2>2
<1>4. CASE Start /\ Len(frames) = 0 /\ Len(frames') = 1 /\ frames'[1].dir = Top
    <2>1. \A j \in 1..0 + 1 : frames'[j].dir \in Way(frames'[0 + 1].dir)
        <3>1. \A j \in 1..0 + 1 : j = 1
            OBVIOUS
        <3>2. Top \in Way(Top)
            BY <1>2, WayFacts, Places
        <3> QED BY <1>4, <3>1, <3>2
    <2>2. \A i \in 1..0 : frames'[i].dir = frames[i].dir
        OBVIOUS
    <2> QED BY <1>3, <1>4, <2>1, <2>2
<1>5. CASE SameDirs
    BY <1>2, <1>3, <1>5 DEF SameDirs
<1>6. ASSUME NEW s \in Dirs, OneDown(s) PROVE OnTheWay'
    <2> DEFINE n == Len(frames)
    <2>1. \A j \in 1..n + 1 : frames'[j].dir \in Way(s)
        <3> TAKE j \in 1..n + 1
        <3>1. CASE j \in 1..n
            <4>1. n \in 1..n
                BY <1>2, <1>6 DEF OneDown
            <4>2. frames[j].dir \in Way(Dir)
                BY <3>1, <4>1 DEF OnTheWay, Dir
            <4> QED BY <1>2, <1>6, <3>1, <4>2, WayFacts DEF OneDown
        <3>2. CASE j = n + 1
            BY <1>2, <1>6, <3>2, WayFacts DEF OneDown
        <3> QED BY <1>2, <3>1, <3>2
    <2> QED BY <1>2, <1>3, <1>6, <2>1 DEF OneDown
<1>7. CASE OneUp
    <2> DEFINE n == Len(frames) - 1
    <2>1. Len(frames) > 0
        BY <1>7, InvFacts DEF OneUp
    <2>2. n \in Nat /\ n <= Len(frames) /\ Len(frames') = n /\ Len(frames') \in Nat
        BY <1>2, <1>7, <2>1 DEF OneUp
    <2>3. \A i \in 1..n : frames'[i].dir = frames[i].dir
        BY <1>7 DEF OneUp
    <2> HIDE DEF n
    <2> QED BY <1>3, <2>2, <2>3
<1> QED BY <1>4, <1>5, <1>6, <1>7, PathMoves

(* A directory with n frames on the way to it is n levels down at least.   *)
LEMMA DeepEnough ==
    ASSUME ScanInv, OnTheWay, frames # <<>>
    PROVE  Depth(Dir) \in Nat /\ Depth(Dir) >= Len(frames)
<1> DEFINE n == Len(frames)
           f == [i \in 1..n |-> frames[i].dir]
<1>1. n \in Nat /\ n > 0 /\ n \in 1..n /\ home \in Trees /\ Dir \in Dirs
    <2>1. n \in Nat /\ n > 0 /\ home \in Trees
        BY InvFacts, FrameFacts
    <2>2. Dir \in Dirs
        BY InvFacts, FrameFacts
    <2> QED BY <2>1, <2>2
<1>2. \A i \in 1..n : frames[i].dir \in Way(Dir)
    BY <1>1 DEF OnTheWay, Dir
<1>3. \A i, j \in 1..n : frames[i].dir = frames[j].dir => i = j
    <2> SUFFICES ASSUME NEW i \in 1..n, NEW j \in 1..n, i # j PROVE frames[i].dir # frames[j].dir
        OBVIOUS
    <2>1. frames[i].dir \in Nat /\ frames[j].dir \in Nat
        BY InvFacts, Places
    <2>2. i < j \/ j < i
        OBVIOUS
    <2> QED BY <2>1, <2>2 DEF ScanInv, Stack
<1>4. f \in Injection(1..n, Way(Dir))
    BY <1>2, <1>3 DEF Injection, IsInjective
<1>5. IsFiniteSet(Way(Dir))
    BY <1>1, WayFacts
<1>6. Cardinality(1..n) = n
    <2> HIDE DEF n
    <2> QED BY <1>1, FS_Interval
<1>7. Cardinality(1..n) <= Cardinality(Way(Dir))
    BY <1>4, <1>5, FS_Injection
<1>8. Cardinality(Way(Dir)) \in Nat
    BY <1>5, FS_CardinalityType
<1> QED BY <1>1, <1>6, <1>7, <1>8 DEF Depth

(* Only dir_process lets the scan into a directory, and at the same time   *)
(* the directory goes on the stack.                                        *)
LEMMA CallLetsIn ==
    ASSUME ScanInv, NEW r, calls' = Append(calls, r), NEW d, LetIn(d)'
    PROVE  LetIn(d) \/ (r.kind = "dir_process" /\ r.of = d /\ (r.more \/ d = Top))
<1>1. calls \in Seq(CallType) /\ Len(calls) \in Nat
    BY InvFacts
<1>2. /\ Len(calls') = Len(calls) + 1 /\ DOMAIN calls' = 1..Len(calls) + 1
      /\ \A i \in 1..Len(calls) : calls'[i] = calls[i]
      /\ calls'[Len(calls) + 1] = r
    BY <1>1
<1> QED BY <1>1, <1>2 DEF LetIn

LEMMA LetInStep ==
    ASSUME ScanInv, [Next]_scanVars, NEW d \in Dirs, LetIn(d)'
    PROVE  LetIn(d) \/ (Start /\ d = Top) \/ ScanSubdir(d)
<1>1. ASSUME UNCHANGED calls PROVE LetIn(d)
    BY <1>1 DEF LetIn
<1>2. CASE Start
    <2>1. PICK r : calls' = Append(calls, r) /\ r.of = Top
        BY <1>2 DEF Start, Call
    <2> QED BY <1>2, <2>1, CallLetsIn
<1>3. ASSUME NEW s \in Dirs, CutSubdir(s) PROVE LetIn(d)
    <2>1. s \in Todo /\ pc = "subdirs"
        BY <1>3 DEF CutSubdir
    <2>2. Len(frames) \in 1..Len(frames)
        BY <2>1, InvFacts
    <2>3. s # Top
        BY <2>1, <2>2 DEF ScanInv, Lists, SubdirsOf, Dir, Todo
    <2>4. PICK r : calls' = Append(calls, r) /\ r.of = s /\ r.more = FALSE
        BY <1>3 DEF CutSubdir, Call
    <2> QED BY <2>3, <2>4, CallLetsIn
<1>4. ASSUME NEW s \in Dirs, ScanSubdir(s) PROVE LetIn(d) \/ ScanSubdir(d)
    <2>1. PICK r : calls' = Append(calls, r) /\ r.of = s
        BY <1>4 DEF ScanSubdir, Call
    <2>2. LetIn(d) \/ s = d
        BY <2>1, CallLetsIn
    <2> QED BY <1>4, <2>2
<1>5. ASSUME NEW f \in Files, ProcessFile(f) PROVE LetIn(d)
    <2>1. PICK r : calls' = Append(calls, r) /\ r.kind = "file_process"
        BY <1>5 DEF ProcessFile, Call
    <2> QED BY <2>1, CallLetsIn
<1>6. CASE FilesDone
    <2>1. PICK r : calls' = Append(calls, r) /\ r.kind = "filelist_finish"
        BY <1>6 DEF FilesDone, Call
    <2> QED BY <2>1, CallLetsIn
<1>7. CASE Finish
    <2>1. PICK r : calls' = Append(calls, r) /\ r.kind = "dir_finish"
        BY <1>7 DEF Finish, Call
    <2> QED BY <2>1, CallLetsIn
<1>8. CASE Refuse \/ TooDeep \/ CannotOpen \/ ListSubdirs \/ SubdirsDone \/ ReturnToParent \/ ReturnToCaller
    BY <1>1, <1>8 DEF Refuse, TooDeep, CannotOpen, ListSubdirs, SubdirsDone, ReturnToParent, ReturnToCaller
<1>9. ASSUME NEW e, SkipSubdir(e) \/ PassSubdir(e) \/ SkipFile(e) PROVE LetIn(d)
    <2>1. UNCHANGED calls
        BY <1>9 DEF SkipSubdir, PassSubdir, SkipFile
    <2> QED BY <1>1, <2>1
<1>10. CASE UNCHANGED scanVars
    BY <1>1, <1>10 DEF scanVars
<1> QED BY <1>2, <1>3, <1>4, <1>5, <1>6, <1>7, <1>8, <1>9, <1>10 DEF Next

LEMMA SettledStep ==
    ASSUME ScanInv, WholeInv, [Next]_scanVars PROVE Settled'
<1> SUFFICES ASSUME NEW d \in Dirs, LetIn(d)'
             PROVE  \/ \E i \in 1..Len(frames') : frames'[i].dir = d
                    \/ Whole(d)' \/ d \in hidden \/ Depth(d) > MAXNEST
    BY Steady DEF Settled
<1>1. Len(frames) \in Nat
    BY InvFacts
<1>2. CASE Start /\ d = Top
    BY <1>2 DEF Start
<1>3. CASE ScanSubdir(d)
    <2>1. pc = "subdirs"
        BY <1>3 DEF ScanSubdir
    <2>2. Len(frames) \in Nat /\ frames \in Seq(FrameType) /\ frames # <<>> /\ Todo \ {d} \in SUBSET Entries
        BY <2>1, InvFacts
    <2>3. Pushed(Todo \ {d}, d)
        BY <1>3, <2>2, AppendPushes DEF ScanSubdir
    <2>4. Len(frames) + 1 \in 1..Len(frames') /\ frames'[Len(frames) + 1].dir = d
        BY <1>1, <2>3 DEF Pushed
    <2> QED BY <2>4
<1>4. ASSUME LetIn(d), ~Start
      PROVE  \/ \E i \in 1..Len(frames') : frames'[i].dir = d
             \/ Whole(d)' \/ d \in hidden \/ Depth(d) > MAXNEST
    <2>0. pc # "start"
        <3>1. ASSUME pc = "start" PROVE DOMAIN calls = {}
            BY <3>1 DEF ScanInv, Ahead
        <3> QED BY <1>4, <3>1 DEF LetIn
    <2>1. Whole(d) => Whole(d)'
        BY <2>0, StaysCame
    <2>2. ASSUME NEW i \in 1..Len(frames), frames[i].dir = d
          PROVE  \/ \E j \in 1..Len(frames') : frames'[j].dir = d
                 \/ Whole(d)' \/ d \in hidden \/ Depth(d) > MAXNEST
        <3>1. CASE SameDirs \/ \E s \in Dirs : OneDown(s)
            <4>1. i \in 1..Len(frames') /\ frames'[i].dir = d
                BY <1>1, <2>2, <3>1 DEF SameDirs, OneDown
            <4> QED BY <4>1
        <3>2. CASE OneUp /\ i < Len(frames)
            <4>1. i \in 1..Len(frames) - 1 /\ i \in 1..Len(frames')
                BY <1>1, <3>2 DEF OneUp
            <4> QED BY <2>2, <3>2, <4>1 DEF OneUp
        <3>3. CASE OneUp /\ i = Len(frames)
            <4>1. Dir = d /\ frames # <<>>
                BY <2>2, <3>3 DEF Dir
            <4>2. Whole(d) \/ d \in hidden \/ Len(frames) > MAXNEST
                BY <3>3, <4>1 DEF WholeInv, Progress, OneUp
            <4>3. Depth(d) \in Nat /\ Depth(d) >= Len(frames)
                BY <4>1, DeepEnough DEF WholeInv
            <4> QED BY <1>1, <2>1, <4>2, <4>3, Places
        <3> QED BY <1>1, <1>4, <3>1, <3>2, <3>3, PathMoves
    <2> QED BY <1>4, <2>1, <2>2 DEF WholeInv, Settled
<1>5. CASE Start /\ LetIn(d)
    <2>1. DOMAIN calls = {}
        BY <1>5 DEF Start, ScanInv, Ahead
    <2> QED BY <1>5, <2>1 DEF LetIn
<1> QED BY <1>2, <1>3, <1>4, <1>5, LetInStep

LEMMA OutsideStep ==
    ASSUME ScanInv, BackOutside, [Next]_scanVars PROVE BackOutside'
<1>1. CASE Refuse \/ ReturnToCaller \/ UNCHANGED scanVars
    BY <1>1 DEF Refuse, ReturnToCaller, scanVars, BackOutside
<1>2. CASE Start \/ TooDeep \/ CannotOpen \/ ListSubdirs \/ SubdirsDone \/ FilesDone \/ Finish \/ ReturnToParent
    BY <1>2 DEF Start, TooDeep, CannotOpen, ListSubdirs, SubdirsDone, FilesDone, Finish, ReturnToParent,
       BackOutside
<1>3. ASSUME NEW e, \/ SkipSubdir(e) \/ PassSubdir(e) \/ CutSubdir(e) \/ ScanSubdir(e)
                    \/ ProcessFile(e) \/ SkipFile(e)
      PROVE  pc' \notin {"start", "over"}
    BY <1>3 DEF SkipSubdir, PassSubdir, CutSubdir, ScanSubdir, ProcessFile, SkipFile
<1> QED BY <1>1, <1>2, <1>3 DEF Next, BackOutside

(* Every directory the program lets the scan into gets its last two calls, *)
(* unless it cannot be listed or lies too deep; if it can be entered, its  *)
(* subdirectories are called, of more than MAXDIRS that many, and its      *)
(* files, unless file_process leaves it; and the caller's directory is     *)
(* current again.                                                          *)
THEOREM ScanIsWhole == Spec => []ScanWhole
<1>1. Init => WholeInv
    <2> SUFFICES ASSUME Init PROVE WholeInv
        OBVIOUS
    <2>1. pc = "start" /\ Len(frames) = 0 /\ DOMAIN calls = {} /\ cwd = Outside
        BY DEF Init
    <2> QED BY <2>1 DEF WholeInv, Progress, OnTheWay, Settled, LetIn, BackOutside
<1>2. ScanInv /\ WholeInv /\ [Next]_scanVars => WholeInv'
    BY ProgressStep, WayStep, SettledStep, OutsideStep DEF WholeInv
<1>3. ScanInv /\ WholeInv => ScanWhole
    <2> SUFFICES ASSUME ScanInv, WholeInv, pc = "over", NEW i \in DOMAIN calls, NEW d, d = calls[i].of,
                        calls[i].kind = "dir_process", calls[i].more \/ d = Top,
                        d \notin hidden, Depth(d) <= MAXNEST
                 PROVE  Whole(d)
        BY DEF ScanWhole, WholeInv, BackOutside
    <2>1. frames = <<>> /\ Len(frames) = 0
        BY DEF ScanInv, Stack
    <2>2. d \in Entries /\ Called("dir_process", d)
        BY CallFacts DEF Called
    <2>3. d \in Dirs
        BY <2>2, Places DEF ScanInv, Parents, Kinds
    <2>4. LetIn(d)
        BY DEF LetIn
    <2>5. Depth(d) \in Nat
        BY <2>3, InvFacts, WayFacts, FS_CardinalityType DEF Depth
    <2> QED BY <2>1, <2>3, <2>4, <2>5, Places DEF WholeInv, Settled
<1> QED BY <1>1, <1>2, <1>3, ScanInvariant, PTL DEF Spec
=============================================================================
