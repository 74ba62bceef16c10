------------------------------ MODULE StateFile ------------------------------
(***************************************************************************)
(* The state file of fanctl as write_state (src/fanctl/src/state.rs)       *)
(* writes it and read_state (src/src/fanwatch/state.py) reads it, one      *)
(* action per system call.                                                 *)
(*                                                                         *)
(* A name in the directory points to an inode, and a reader that has       *)
(* opened the file keeps the inode while the name moves on.  A file that   *)
(* is empty or cut short is never a JSON object.  Nothing but fanctl       *)
(* writes in the directory.                                                *)
(***************************************************************************)
CONSTANTS
  Inodes,
  Values,   \* whole statuses
  Cut,      \* content of a file that is empty or cut short
  None

ASSUME FileAssumption ==
  /\ None \notin Inodes /\ None \notin Values
  /\ Cut \notin Values /\ Cut # None

VARIABLES
  tmp,      \* inode named state.json.tmp, or None
  path,     \* inode named state.json, or None
  content,  \* what each inode holds
  writing,  \* what write_state does next: "nothing", "fill", "rename" or "remove"
  payload,  \* the status it writes
  fd,       \* inode read_state has open, or None
  got       \* what read_state returned last

names == <<tmp, path>>
writer == <<writing, payload>>
reader == <<fd, got>>
fileVars == <<names, content, writer, reader>>

FileInit ==
  /\ tmp = None /\ path = None
  /\ content = [i \in Inodes |-> Cut]
  /\ writing = "nothing" /\ payload \in Values
  /\ fd = None /\ got = None

-----------------------------------------------------------------------------
\* write_state.

\* Mutant: the file itself is truncated.
InPlace == IF path = None THEN Inodes \ {fd} ELSE {path}

\* A file left over by a call that failed is truncated, else a new one is made.
Truncated == IF tmp = None THEN Inodes \ {path, fd} ELSE {tmp}

\* fs::write opens the temporary file ...
OpenTmp(v) ==
  /\ writing = "nothing"
  /\ payload' = v
  /\ \/ \E i \in Truncated : tmp' = i /\ content' = [content EXCEPT ![i] = Cut]
        /\ writing' = "fill"
     \/ writing' = "remove" /\ UNCHANGED <<tmp, content>>
  /\ UNCHANGED <<path, reader>>

\* ... and writes it, unless the file system is full.
Fill ==
  /\ writing = "fill"
  /\ \/ content' = [content EXCEPT ![tmp] = payload] /\ writing' = "rename"
     \/ writing' = "remove" /\ UNCHANGED content
  /\ UNCHANGED <<names, payload, reader>>

Rename ==
  /\ writing = "rename"
  /\ \/ path' = tmp /\ tmp' = None /\ writing' = "nothing"
     \/ writing' = "remove" /\ UNCHANGED names
  /\ UNCHANGED <<content, payload, reader>>

\* Mutant: a failed write goes on to the rename.
RemoveAndRename ==
  /\ writing = "remove"
  /\ tmp' \in {tmp, None}
  /\ writing' = "rename"
  /\ UNCHANGED <<path, content, payload, reader>>

Remove ==
  /\ writing = "remove"
  /\ tmp' \in {tmp, None}
  /\ writing' = "nothing"
  /\ UNCHANGED <<path, content, payload, reader>>

Write == Fill \/ Rename \/ Remove

\* The process is killed in the middle of a call ...
WriterDies == writing' = "nothing" /\ UNCHANGED <<names, content, payload, reader>>

\* ... and systemd removes the runtime directory of a unit that has stopped.
DirectoryGoes ==
  /\ writing = "nothing"
  /\ tmp' = None /\ path' = None
  /\ UNCHANGED <<content, writer, reader>>

-----------------------------------------------------------------------------
\* read_state.

OpenState ==
  /\ fd = None
  /\ fd' = path
  /\ got' = IF path = None THEN None ELSE got
  /\ UNCHANGED <<names, content, writer>>

Parsed(text) == IF text = Cut THEN None ELSE text

ReadState ==
  /\ fd # None
  /\ got' = Parsed(content[fd])
  /\ fd' = None
  /\ UNCHANGED <<names, content, writer>>

-----------------------------------------------------------------------------
FileNext == (\E v \in Values : OpenTmp(v)) \/ Write \/ WriterDies \/ DirectoryGoes
         \/ OpenState \/ ReadState

FileSpec == FileInit /\ [][FileNext]_fileVars

-----------------------------------------------------------------------------
\* The register: the file a reader has open is already read.
Register == INSTANCE StatusRegister WITH
  published <- IF path = None THEN None ELSE content[path],
  got <- IF fd = None THEN got ELSE content[fd]

\* A reader never sees half a status, nor one that was never the file's, whatever
\* step of a write fails or is cut off by a crash (state.rs 6-13, state.py 14-34).
ImplementsRegister == Register!Spec
=============================================================================
