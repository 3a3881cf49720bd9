------------------------------ MODULE DirScan ------------------------------
(***************************************************************************)
(* The directory scanner of scandir (os/sd_lin.c): ez_dir_scanall, and     *)
(* scan_dir_r, which calls itself for every subdirectory.  The program     *)
(* that uses it supplies four functions; each call of one is recorded with *)
(* what the scanner promises of it: the current directory and              *)
(* sdir_fullname.  The stack of frames is the C stack.  A directory's path *)
(* is the directory itself.  A name looked up in another directory than    *)
(* the one it was read from may be that of something there, of the same    *)
(* kind, or of nothing.                                                    *)
(***************************************************************************)
EXTENDS Naturals, Sequences, FiniteSets

CONSTANTS
    Dirs,      \* the directories of the tree, numbered from the top down
    Files,     \* its files
    Patterns,  \* for each wildcard pattern, the entries it accepts
    Closed,    \* the directories not to be entered and those not to be listed
    Outside,   \* the current directory of the caller
    Strays,    \* where the program's functions may leave the process
    MAXDIRS,   \* MAX_DIRLIST: the subdirectories one directory's list holds
    MAXNEST    \* MAX_NEST: the depth of the recursion

Top == 0

ASSUME ScanAssumption ==
    /\ Dirs \subseteq Nat /\ Top \in Dirs
    /\ IsFiniteSet(Dirs) /\ IsFiniteSet(Files)
    /\ Files \cap Dirs = {}
    /\ Patterns \subseteq SUBSET (Dirs \cup Files)
    /\ Closed \subseteq (SUBSET Dirs) \X (SUBSET Dirs)
    /\ Outside \notin Dirs \cup Files
    /\ Strays \subseteq Dirs \cup {Outside}
    /\ MAXDIRS \in Nat
    /\ MAXNEST \in Nat \ {0}

VARIABLES
    home,      \* the tree: the directory an entry is in
    matching,  \* the entries whose name the pattern accepts
    locked,    \* the directories os_chdir cannot enter
    hidden,    \* the directories opendir cannot open
    pc,        \* where the scan stands
    frames,    \* the calls of scan_dir_r under way, the innermost last
    subs,      \* scan_subs
    cwd,       \* the current working directory
    sdir,      \* sdir_fullname
    calls      \* history: the calls of the program's functions so far

tree     == <<home, matching, locked, hidden>>
scanVars == <<tree, pc, frames, subs, cwd, sdir, calls>>

Entries == Dirs \cup Files

Trees ==
    {h \in [Entries -> Dirs] : h[Top] = Top /\ \A d \in Dirs \ {Top} : h[d] < d}

SubdirsOf(d) == {s \in Dirs \ {Top} : home[s] = d}
FilesOf(d)   == {f \in Files : home[f] = d}

(* The directories on the way from the top down to d, both included: those *)
(* in every set of directories that d is in, and with each the one above.  *)
Way(d) ==
    {a \in Dirs : \A S \in SUBSET Dirs :
        d \in S /\ (\A s \in S : home[s] \in S) => a \in S}

(* What lies below a directory that cannot be entered has no path.         *)
Init ==
    /\ home \in Trees
    /\ matching \in Patterns
    /\ \E shut \in Closed :
          /\ locked = {d \in Dirs : Way(d) \cap shut[1] # {}}
          /\ hidden = shut[2] \cup {d \in Dirs \ {Top} : home[d] \in locked}
    /\ pc = "start"
    /\ frames = <<>>
    /\ subs \in BOOLEAN
    /\ cwd = Outside
    /\ sdir = Outside
    /\ calls = <<>>

-----------------------------------------------------------------------------
(* The directory of the innermost frame. *)
Dir == frames[Len(frames)].dir
Todo == frames[Len(frames)].todo

Working(todo) == [frames EXCEPT ![Len(frames)].todo = todo]

(* os_chdir's result is not looked at: in a directory that cannot be       *)
(* entered the scanner goes on where it is.                                *)
Chdir(d) == cwd' = IF d \in locked THEN cwd ELSE d

(* filtername: the name must fit the pattern, and is looked up in the      *)
(* current directory.                                                      *)
Matches(e) == e \in matching
Misses(e)  == e \in matching => cwd # home[e]

(* A call of one of the program's functions; `more' is what it returns.    *)
(* Recorded also: file_process has left the process where it found it.     *)
Call(kind, of, more) ==
    calls' = Append(calls, [kind |-> kind, of |-> of, more |-> more, cwd |-> cwd, sdir |-> sdir',
                            kept |-> kind = "file_process" => cwd' = cwd])

(* It may leave the process in another directory. *)
Stray == cwd' \in {cwd} \cup Strays

(* A call of one, and then os_chdir. *)
StrayThenChdir(d) == IF d \in locked THEN Stray ELSE cwd' = d

-----------------------------------------------------------------------------
(* ez_dir_scanall.  It gives up without a trace when a path cannot be      *)
(* resolved or the destination lies inside the source.                     *)
Refuse ==
    /\ pc = "start"
    /\ pc' = "over"
    /\ UNCHANGED <<tree, frames, subs, cwd, sdir, calls>>

(* The top directory is announced from the caller's own directory, and is  *)
(* scanned in any case; the answer decides about the subdirectories.       *)
Start ==
    /\ pc = "start"
    /\ sdir' = Top
    /\ Stray
    /\ \E more \in BOOLEAN : subs' = (subs /\ more) /\ Call("dir_process", Top, more)
    /\ frames' = <<[dir |-> Top, todo |-> {}]>>
    /\ pc' = "enter"
    /\ UNCHANGED tree

(* scan_dir_r, its first pass.  A call that is too deep returns at once.   *)
TooDeep ==
    /\ pc = "enter"
    /\ Len(frames) > MAXNEST
    /\ pc' = "return"
    /\ UNCHANGED <<tree, frames, subs, cwd, sdir, calls>>

(* Neither opendir succeeds; what os_chdir has done stays.                 *)
CannotOpen ==
    /\ pc = "enter"
    /\ Len(frames) <= MAXNEST
    /\ Dir \in hidden
    /\ Chdir(Dir)
    /\ pc' = "return"
    /\ UNCHANGED <<tree, frames, subs, sdir, calls>>

(* The list holds the first MAXDIRS of the subdirectories, in whatever     *)
(* order readdir gives them; where the directory was not entered, those    *)
(* whose name is that of a directory in the current one.                   *)
Listed(d, list) ==
    /\ list \subseteq SubdirsOf(d)
    /\ Cardinality(list) <= MAXDIRS
    /\ d \in locked \/ list = SubdirsOf(d) \/ Cardinality(list) = MAXDIRS

(* mutant: the depth is not tested *)
ListSubdirsAnyDepth ==
    /\ pc = "enter"
    /\ Dir \notin hidden
    /\ Chdir(Dir)
    /\ \E list \in SUBSET SubdirsOf(Dir) : Listed(Dir, list) /\ frames' = Working(list)
    /\ pc' = "subdirs"
    /\ UNCHANGED <<tree, subs, sdir, calls>>

ListSubdirs ==
    /\ pc = "enter"
    /\ Len(frames) <= MAXNEST
    /\ Dir \notin hidden
    /\ Chdir(Dir)
    /\ \E list \in SUBSET SubdirsOf(Dir) : Listed(Dir, list) /\ frames' = Working(list)
    /\ pc' = "subdirs"
    /\ UNCHANGED <<tree, subs, sdir, calls>>

-----------------------------------------------------------------------------
(* The second pass: the subdirectories.  A name the pattern refuses is     *)
(* skipped, with everything below it.                                      *)
SkipSubdir(s) ==
    /\ pc = "subdirs"
    /\ s \in Todo
    /\ Misses(s)
    /\ frames' = Working(Todo \ {s})
    /\ UNCHANGED <<tree, pc, subs, cwd, sdir, calls>>

(* mutant: continue without the next index *)
PassSubdirKept(s) ==
    /\ pc = "subdirs"
    /\ s \in Todo
    /\ Matches(s)
    /\ ~subs
    /\ sdir' = s
    /\ Chdir(Dir)
    /\ UNCHANGED <<tree, pc, frames, subs, calls>>

PassSubdir(s) ==
    /\ pc = "subdirs"
    /\ s \in Todo
    /\ Matches(s)
    /\ ~subs
    /\ sdir' = s
    /\ Chdir(Dir)
    /\ frames' = Working(Todo \ {s})
    /\ UNCHANGED <<tree, pc, subs, calls>>

(* dir_process returns 0: the subdirectory is left out. *)
CutSubdir(s) ==
    /\ pc = "subdirs"
    /\ s \in Todo
    /\ Matches(s)
    /\ subs
    /\ sdir' = s
    /\ StrayThenChdir(Dir)
    /\ Call("dir_process", s, FALSE)
    /\ frames' = Working(Todo \ {s})
    /\ UNCHANGED <<tree, pc, subs>>

ScanSubdir(s) ==
    /\ pc = "subdirs"
    /\ s \in Todo
    /\ Matches(s)
    /\ subs
    /\ sdir' = s
    /\ Stray
    /\ Call("dir_process", s, TRUE)
    /\ frames' = Append(Working(Todo \ {s}), [dir |-> s, todo |-> {}])
    /\ pc' = "enter"
    /\ UNCHANGED <<tree, subs>>

(* mutant: dir_finish comes before the files, as it did before 11/28/2009 *)
SubdirsDoneFinishes ==
    /\ pc = "subdirs"
    /\ Todo = {}
    /\ UNCHANGED sdir
    /\ Call("dir_finish", Dir, TRUE)
    /\ Chdir(Dir)
    /\ frames' = Working(FilesOf(Dir))
    /\ pc' = "files"
    /\ UNCHANGED <<tree, subs>>

SubdirsDone ==
    /\ pc = "subdirs"
    /\ Todo = {}
    /\ Chdir(Dir)
    /\ frames' = Working(FilesOf(Dir))
    /\ pc' = "files"
    /\ UNCHANGED <<tree, subs, sdir, calls>>

-----------------------------------------------------------------------------
(* The third pass: the files.  Where file_process leaves the process, the  *)
(* next file is looked up and handed on.                                   *)

(* mutant: sdir_fullname is still that of the last subdirectory *)
ProcessFileUnnamed(f) ==
    /\ pc = "files"
    /\ f \in Todo
    /\ Matches(f)
    /\ UNCHANGED sdir
    /\ Stray
    /\ Call("file_process", f, TRUE)
    /\ frames' = Working(Todo \ {f})
    /\ UNCHANGED <<tree, pc, subs>>

ProcessFile(f) ==
    /\ pc = "files"
    /\ f \in Todo
    /\ Matches(f)
    /\ sdir' = Dir
    /\ Stray
    /\ Call("file_process", f, TRUE)
    /\ frames' = Working(Todo \ {f})
    /\ UNCHANGED <<tree, pc, subs>>

SkipFile(f) ==
    /\ pc = "files"
    /\ f \in Todo
    /\ Misses(f)
    /\ frames' = Working(Todo \ {f})
    /\ UNCHANGED <<tree, pc, subs, cwd, sdir, calls>>

FilesDone ==
    /\ pc = "files"
    /\ Todo = {}
    /\ UNCHANGED sdir
    /\ StrayThenChdir(Dir)
    /\ Call("filelist_finish", Dir, TRUE)
    /\ pc' = "finish"
    /\ UNCHANGED <<tree, frames, subs>>

(* dir_finish may delete the directory, and then os_chdir(dpath) fails. *)
Finish ==
    /\ pc = "finish"
    /\ UNCHANGED sdir
    /\ Stray
    /\ Call("dir_finish", Dir, TRUE)
    /\ pc' = "return"
    /\ UNCHANGED <<tree, frames, subs>>

(* mutant: the loop's index is not on the stack, and starts again *)
ReturnToParentRestarts ==
    /\ pc = "return"
    /\ Len(frames) > 1
    /\ sdir' = Dir
    /\ Chdir(home[Dir])
    /\ frames' = [SubSeq(frames, 1, Len(frames) - 1)
                      EXCEPT ![Len(frames) - 1].todo = SubdirsOf(home[Dir])]
    /\ pc' = "subdirs"
    /\ UNCHANGED <<tree, subs, calls>>

(* mutant: the parent does not change back *)
ReturnToParentAsLeft ==
    /\ pc = "return"
    /\ Len(frames) > 1
    /\ sdir' = Dir
    /\ frames' = SubSeq(frames, 1, Len(frames) - 1)
    /\ pc' = "subdirs"
    /\ UNCHANGED <<tree, subs, cwd, calls>>

(* Back in the caller: another scan_dir_r, which goes back to its own      *)
(* directory, or ez_dir_scanall.                                           *)
ReturnToParent ==
    /\ pc = "return"
    /\ Len(frames) > 1
    /\ sdir' = Dir
    /\ Chdir(home[Dir])
    /\ frames' = SubSeq(frames, 1, Len(frames) - 1)
    /\ pc' = "subdirs"
    /\ UNCHANGED <<tree, subs, calls>>

ReturnToCaller ==
    /\ pc = "return"
    /\ Len(frames) = 1
    /\ cwd' = Outside
    /\ frames' = <<>>
    /\ pc' = "over"
    /\ UNCHANGED <<tree, subs, sdir, calls>>

-----------------------------------------------------------------------------
Next ==
    \/ Refuse \/ Start \/ TooDeep \/ CannotOpen \/ ListSubdirs
    \/ \E s \in Dirs : SkipSubdir(s) \/ PassSubdir(s) \/ CutSubdir(s) \/ ScanSubdir(s)
    \/ SubdirsDone
    \/ \E f \in Files : ProcessFile(f) \/ SkipFile(f)
    \/ FilesDone \/ Finish \/ ReturnToParent \/ ReturnToCaller

(* One thread; the program's own functions return. *)
Spec == Init /\ [][Next]_scanVars /\ WF_scanVars(Next)

-----------------------------------------------------------------------------
Kinds == {"dir_process", "file_process", "filelist_finish", "dir_finish"}

ScanTypeOK ==
    /\ home \in Trees /\ matching \subseteq Entries /\ locked \subseteq Dirs /\ hidden \subseteq Dirs
    /\ pc \in {"start", "enter", "subdirs", "files", "finish", "return", "over"}
    /\ frames \in Seq([dir : Dirs, todo : SUBSET Entries])
    /\ Len(frames) <= MAXNEST + 1
    /\ subs \in BOOLEAN
    /\ cwd \in Dirs \cup {Outside} /\ sdir \in Dirs \cup {Outside}
    /\ calls \in Seq([kind : Kinds, of : Entries, more : BOOLEAN,
                      cwd : Dirs \cup {Outside}, sdir : Dirs, kept : BOOLEAN])

Called(kind, of) == \E i \in DOMAIN calls : calls[i].kind = kind /\ calls[i].of = of

(* "each file (as filtered by selection criteria) will be visited exactly  *)
(* once", and each directory once for each of its functions                *)
(* (scandir.h:298): never twice, whatever the tree, the order of its       *)
(* entries and the directories the functions leave the process in.         *)
NoneTwice ==
    \A i, j \in DOMAIN calls :
        calls[i].kind = calls[j].kind /\ calls[i].of = calls[j].of => i = j

(* The calls about the directory that the entry of a call is in. *)
ParentCalls(i) ==
    {j \in DOMAIN calls : calls[i].of # Top /\ calls[j].of = home[calls[i].of]}

(* The call about an entry lies between dir_process and dir_finish of the  *)
(* directory it is in, and all about a subdirectory comes before the       *)
(* directory's own files: "dir_process() (before file scan)" and           *)
(* "dir_finish() (after files have been scanned)" (scandir.h:300).         *)
Bracketed ==
    \A i \in DOMAIN calls :
        LET of == calls[i].of IN
        /\ of # Top => \E j \in ParentCalls(i) : calls[j].kind = "dir_process" /\ j < i
        /\ \A j \in ParentCalls(i) : calls[j].kind # "dir_process" => i < j
        /\ calls[i].kind # "dir_process" /\ of \in Dirs =>
              \E j \in 1..i : calls[j].of = of /\ calls[j].kind = "dir_process"
        /\ of \in Files =>
              \A j \in DOMAIN calls : calls[j].of \in SubdirsOf(home[of]) => j < i

(* The directory an entry's function should find the process in. *)
Around(call) == IF call.kind = "file_process" THEN home[call.of] ELSE call.of

(* No file_process has left the directory before the call. *)
Undisturbed(i) ==
    \A j \in 1..i - 1 :
        calls[j].kind = "file_process" /\ home[calls[j].of] = Around(calls[i]) => calls[j].kept

(* "current working directory is set to the folder in which this file      *)
(* resides" (scandir.h:48), and to "this dir" when its files are done      *)
(* (scandir.h:53), whatever the functions called for its subdirectories    *)
(* have done to it: unless it cannot be entered, or file_process has gone  *)
(* elsewhere from it.  And sdir_fullname "contains the directory currently *)
(* being scanned" (scandir.h:283) in file_process, and the one to be       *)
(* scanned in dir_process.                                                 *)
InPlace ==
    \A i \in DOMAIN calls :
        LET call == calls[i] IN
        /\ /\ call.kind \in {"file_process", "filelist_finish"}
           /\ Around(call) \notin locked
           /\ Undisturbed(i)
           => call.cwd = Around(call)
        /\ call.kind \in {"dir_process", "file_process"} => call.sdir = Around(call)

Depth(d) == Cardinality(Way(d))

(* Of the subdirectories of d, as many as its list holds have been called. *)
SubdirsWhole(d) ==
    \E list \in SUBSET SubdirsOf(d) :
        /\ list = SubdirsOf(d) \/ Cardinality(list) = MAXDIRS
        /\ \A s \in list \cap matching : Called("dir_process", s)

(* A file_process has left the process elsewhere than in d.                *)
Strayed(d) ==
    \E i \in DOMAIN calls :
        calls[i].kind = "file_process" /\ home[calls[i].of] = d /\ ~calls[i].kept

FilesWhole(d) ==
    Strayed(d) \/ \A f \in FilesOf(d) \cap matching : Called("file_process", f)

Whole(d) ==
    /\ Called("dir_finish", d) /\ Called("filelist_finish", d)
    /\ d \notin locked => FilesWhole(d) /\ (subs => SubdirsWhole(d))

(* Every directory the program lets the scan into gets its filelist_finish *)
(* and its dir_finish, unless it cannot be listed or lies deeper than      *)
(* MAXNEST.  If it can be entered, also its subdirectories are called, of  *)
(* more than MAXDIRS that many, and its files, unless file_process goes    *)
(* elsewhere.  And the caller's directory is current again ("on return,    *)
(* current working dir is restored", scandir.h:22).                        *)
ScanWhole ==
    pc = "over" =>
        /\ cwd = Outside
        /\ \A i \in DOMAIN calls :
              LET d == calls[i].of IN
              /\ calls[i].kind = "dir_process"
              /\ calls[i].more \/ d = Top
              /\ d \notin hidden /\ Depth(d) <= MAXNEST
              => Whole(d)

(* A scan ends, whatever the tree. *)
ScanEnds == <>(pc = "over")
=============================================================================
