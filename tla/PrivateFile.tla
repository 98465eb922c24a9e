------------------------------ MODULE PrivateFile ------------------------------
(* read_private_text_file (src/src/monzo_mcp/private_files.py): one bounded   *)
(* read of a secret.  Between its system calls anybody who may write to the   *)
(* directory can make the path name another file.                             *)
EXTENDS Naturals

VARIABLES
    file,    \* what the path names
    reader,  \* the last step the reader has done
    opened,  \* what its descriptor is of, or "none"
    value    \* the text it has read, or "none"

fileVars == <<file, reader, opened, value>>

-----------------------------------------------------------------------------
\* A regular file is "private", or open to its group or to others ("public"), or
\* private and over max_bytes ("large"); "other" is a directory, socket or pipe.
Files == {"absent", "link", "other", "public", "large", "private"}

Readers == {"idle", "called", "seen", "open", "checked", "done", "failed"}

\* Of a text only its length matters, to the caller: it fits its limits or not.
Texts == {"fit", "unfit"}

FileTypeOK ==
    /\ file \in Files
    /\ reader \in Readers
    /\ opened \in (Files \ {"absent", "link"}) \cup {"none"}
    /\ value \in Texts \cup {"none"}

FileInit ==
    /\ file = "private"
    /\ reader = "idle"
    /\ opened = "none"
    /\ value = "none"

\* Only what happens between the steps of a read can be seen by it.
Replaced ==
    /\ reader \in {"called", "seen"}
    /\ file' \in Files \ {file}
    /\ UNCHANGED <<reader, opened, value>>

\* _is_private_regular_file
IsPrivateRegularFile(f) == f = "private"

\* lstat, which fails for an absent file and describes a link itself.
Lstat ==
    /\ reader = "called"
    /\ reader' = IF IsPrivateRegularFile(file) THEN "seen" ELSE "failed"
    /\ UNCHANGED <<file, opened, value>>

\* O_NOFOLLOW refuses a link.
Open ==
    /\ reader = "seen"
    /\ file \notin {"absent", "link"}
    /\ reader' = "open"
    /\ opened' = file
    /\ UNCHANGED <<file, value>>

OpenRefused ==
    /\ reader = "seen"
    /\ file \in {"absent", "link", "other"}
    /\ reader' = "failed"
    /\ UNCHANGED <<file, opened, value>>

\* Variant: the second look is left out.
SameFileUnchecked == TRUE

\* fstat describes the file behind the descriptor.
SameFile == IsPrivateRegularFile(opened)

Fstat ==
    /\ reader = "open"
    /\ reader' = IF SameFile THEN "checked" ELSE "failed"
    /\ UNCHANGED <<file, opened, value>>

\* The text may be any: its owner can still write to the file.
ReadText ==
    /\ reader = "checked"
    /\ reader' = "done"
    /\ value' \in Texts
    /\ UNCHANGED <<file, opened>>

\* Empty, not UTF-8, or an I/O error.
ReadNothing ==
    /\ reader = "checked"
    /\ reader' = "failed"
    /\ UNCHANGED <<file, opened, value>>

ReaderStep == Lstat \/ Open \/ OpenRefused \/ Fstat \/ ReadText \/ ReadNothing
=============================================================================
