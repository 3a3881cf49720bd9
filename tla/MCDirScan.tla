----------------------------- MODULE MCDirScan -----------------------------
(* Patterns and closed directories for DirScan: at most one entry is       *)
(* refused, and at most one directory cannot be entered, or not listed.    *)
EXTENDS DirScan

AllButOne == {Entries} \cup {Entries \ {e} : e \in Entries \ {Top}}
AtMostOne ==
    {<<{}, {}>>} \cup UNION {{<<{d}, {}>>, <<{}, {d}>>} : d \in Dirs}
=============================================================================
