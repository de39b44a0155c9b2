---------------------------- MODULE DriftArchive ----------------------------
(***************************************************************************)
(* The drift archive on disk, services/driftarchive.py: the lines the      *)
(* passes append, the rotation of the files, and the page that reads them  *)
(* back, newest first, while both go on.                                   *)
(*                                                                         *)
(* Lines are numbered as they were written; a file is how many of them     *)
(* had been written when it began.                                         *)
(***************************************************************************)
EXTENDS Integers, FiniteSets

CONSTANTS
    FileLines,      \* lines a file takes before it is rotated
    Files,          \* the archive's file and its backups
    PageSize,       \* entries of one page
    MaxLines        \* bound: how many lines are written

ASSUME DriftArchiveAssumption ==
    /\ FileLines \in Nat \ {0} /\ Files \in Nat \ {0, 1} /\ PageSize \in Nat \ {0}
    /\ MaxLines \in Nat

VARIABLES
    files,      \* files[i]: lines written before file i began, the current file first
    written,    \* lines written since the archive began
    browser     \* the page: the lines it has, and the newest one when it began

archiveVars == <<files, written, browser>>

NoBrowser == [pc |-> "rest", got |-> {}, began |-> 0]

\* The lines that are in some file; one that does not exist yet is like an empty one.
Held == files[Files] + 1 .. written

\* emit: a full file is renamed, and the oldest one goes.
Rotated ==
    IF written - files[1] < FileLines THEN files
    ELSE [i \in 1 .. Files |-> IF i = 1 THEN written ELSE files[i - 1]]

\* record
WriteLine ==
    /\ written < MaxLines
    /\ files' = Rotated
    /\ written' = written + 1
    /\ UNCHANGED browser

\* Mutant: positions are counted from the oldest line.
WindowFromOldest(after) == {k \in Held : k - files[Files] \in after + 1 .. after + PageSize}

\* read: positions count back from the newest line.
Window(after) == {k \in Held : written - k + 1 \in after + 1 .. after + PageSize}

\* What the page has after a read behind so many entries, and whether there is more.
Read(got, began, after) ==
    [pc |-> IF written - files[Files] > after + PageSize THEN "more" ELSE "end",
     got |-> got \union Window(after), began |-> began]

OpenArchive ==
    /\ browser.pc = "rest"
    /\ browser' = Read({}, written, 0)
    /\ UNCHANGED <<files, written>>

\* The page asks for what lies behind as many entries as it has.
NextPage ==
    /\ browser.pc = "more"
    /\ browser' = Read(browser.got, browser.began, Cardinality(browser.got))
    /\ UNCHANGED <<files, written>>

CloseArchive ==
    /\ browser.pc # "rest"
    /\ browser' = NoBrowser
    /\ UNCHANGED <<files, written>>

ArchiveInit ==
    /\ files = [i \in 1 .. Files |-> 0] /\ written = 0
    /\ browser = NoBrowser

ArchiveNext == WriteLine \/ OpenArchive \/ NextPage \/ CloseArchive

ArchiveSpec == ArchiveInit /\ [][ArchiveNext]_archiveVars

-----------------------------------------------------------------------------
(* Properties.                                                              *)

\* settings.py:201: a cursor "stays valid as the file grows and across a rotation": whoever
\* pages to the end has had every line that was there at the start and still is.
PagingMissesNothing ==
    browser.pc = "end" => \A k \in Held : k <= browser.began => k \in browser.got
=============================================================================
