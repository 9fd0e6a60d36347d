----------------------------- MODULE AtomicFile -----------------------------
(***************************************************************************)
(* WriteFile of internal/atomicfile: a file is written beside its place    *)
(* and renamed into it.  Where a rename does not replace a file, on        *)
(* Windows, the old file may have to be removed first.                     *)
(***************************************************************************)
CONSTANT None

VARIABLES
  disk,                 \* what readers find: a partial function from paths to contents
  temp,                 \* the temporary file of the call, or None
  replaces              \* does a rename replace a file?

fileVars == <<disk, temp, replaces>>

\* A map with one key more, or another value at it.
Put(f, key, value) == [k \in DOMAIN f \cup {key} |-> IF k = key THEN value ELSE f[k]]

\* The directory is made, the temporary file created, written, synced, closed.
WriteTemp(content) ==
  /\ temp = None
  /\ temp' = content
  /\ UNCHANGED <<disk, replaces>>

\* The last step of a call.  On Windows it may do without Remove.
Rename(path) ==
  /\ temp # None
  /\ disk' = Put(disk, path, temp)
  /\ temp' = None
  /\ UNCHANGED replaces

\* A rename failed that does not replace.
Remove(path) ==
  /\ temp # None /\ ~replaces /\ path \in DOMAIN disk
  /\ disk' = [p \in DOMAIN disk \ {path} |-> disk[p]]
  /\ UNCHANGED <<temp, replaces>>

\* Each of these can fail; the temporary file is removed.  A crash leaves it,
\* under a name nobody reads.
GiveUp == temp' = None /\ UNCHANGED <<disk, replaces>>
=============================================================================
