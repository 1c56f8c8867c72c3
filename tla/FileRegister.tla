----------------------------- MODULE FileRegister -----------------------------
(* What atomic_file.rs promises of the files it saves: a reader of a path    *)
(* finds the contents of one save, whole, or no file.  A save lands at one   *)
(* moment or answers an error and changes nothing.  Program ends and power   *)
(* cuts are in it: the first loses only saves that have not landed, the      *)
(* second may also tear a file, but never a private one.  That a power cut   *)
(* undoes no save that landed is the file system's part of it: the code      *)
(* syncs a private file's bytes, and no folder.                              *)
CONSTANTS
  Saver,    \* callers of write, write_private and write_async
  Path,     \* files, as callers spell them
  Version,  \* what a file can hold
  Private,  \* the paths saved with write_private
  None,     \* no file; nothing asked
  Torn      \* what a reader of a torn file finds

VARIABLES
  file,  \* file[p]: what a reader finds
  asks   \* asks[s]: the save asked by s, and how far it is

fileVars == <<file, asks>>

Ask == [path : Path, version : Version, state : {"asked", "landed", "failed"}]

FileInit ==
  /\ file = [p \in Path |-> None]
  /\ asks = [s \in Saver |-> None]

AskSave(s, p, v) ==
  /\ asks[s] = None
  /\ asks' = [asks EXCEPT ![s] = [path |-> p, version |-> v, state |-> "asked"]]
  /\ UNCHANGED file

Answered(s, state) ==
  /\ asks[s] # None
  /\ asks[s].state = "asked"
  /\ asks' = [asks EXCEPT ![s] = [path |-> asks[s].path,
                                  version |-> asks[s].version,
                                  state |-> state]]

Land(s) ==
  /\ Answered(s, "landed")
  /\ file' = [file EXCEPT ![asks[s].path] = asks[s].version]

Fail(s) ==
  /\ Answered(s, "failed")
  /\ UNCHANGED file

Answer(s) ==
  /\ asks[s] # None
  /\ asks[s].state # "asked"
  /\ asks' = [asks EXCEPT ![s] = None]
  /\ UNCHANGED file

Delete(p) ==
  /\ file' = [file EXCEPT ![p] = None]
  /\ UNCHANGED asks

\* The program ends, with the power or without it.
End(torn) ==
  /\ torn \subseteq Path \ Private
  /\ file' = [p \in Path |-> IF p \in torn THEN Torn ELSE file[p]]
  /\ asks' = [s \in Saver |-> None]

FileNext ==
  \/ \E s \in Saver, p \in Path, v \in Version : AskSave(s, p, v)
  \/ \E s \in Saver : Land(s) \/ Fail(s) \/ Answer(s)
  \/ \E p \in Path : Delete(p)
  \/ \E torn \in SUBSET (Path \ Private) : End(torn)

FileSpec == FileInit /\ [][FileNext]_fileVars
=============================================================================
