--------------------------- MODULE CredentialStore ---------------------------
(* The encrypted credential directory and every process that opens it         *)
(* (src/src/monzo_mcp/credentials.py): a non-blocking flock, a key file made  *)
(* with O_EXCL, one encrypted bundle replaced through a temporary file, and   *)
(* in each process a ClientCredentialStore whose writes run on a worker       *)
(* thread (asyncio.to_thread) under an asyncio.Lock.                          *)
(*                                                                            *)
(* A process that ends and starts again keeps its name.  A bundle is the pair *)
(* (OAuth client, token); encryption is abstracted to "the file holds this    *)
(* bundle whole" or Torn.  Each write thread is a Job that walks through the  *)
(* system calls of _write_payload.                                            *)
EXTENDS FiniteSets

CONSTANTS
    Procs,    \* the server and the auth commands started on one directory
    Jobs,     \* slots for write threads that exist at the same time
    Clients,  \* OAuth client configurations
    Tokens,   \* OAuth token sets
    None,     \* "no value": an unset field, no job, no acknowledged bundle
    NoFile,   \* the bundle file does not exist
    Torn,     \* the bundle file holds part of a bundle
    Closed,   \* self._payload is None
    Faults    \* the faults that may happen, a subset of FaultKinds

FaultKinds == {"io",       \* a system call before os.replace fails
               "dirsync",  \* the directory fsync after os.replace fails
               "cancel",   \* the task that awaits a save is cancelled
               "kill",     \* a process dies
               "power"}    \* the host stops; what was not synced may be lost

Fields == [oauth : Clients \cup {None}, token : Tokens \cup {None}]
EmptyBundle == [oauth |-> None, token |-> None]

ASSUME NoneAssumption == None \notin Clients \cup Tokens \cup Jobs
ASSUME FileAssumption == /\ NoFile \notin Fields
                         /\ Torn \notin Fields
                         /\ Closed \notin Fields
                         /\ None \notin Fields
                         /\ NoFile # Torn
ASSUME FaultsAssumption == Faults \subseteq FaultKinds

VARIABLES
    phase,    \* phase[p]: the life of p's store; the flock is p's unless "down"
    mode,     \* mode[p]: which command opened the store
    memory,   \* memory[p]: self._payload
    hasKey,   \* hasKey[p]: self._key is not None
    call,     \* call[p]: the job awaited inside p's write lock, or None
    job,      \* job[j]: the write thread in slot j
    keyFile,  \* the key file as every process sees it
    keyDisk,  \* what the key file may hold after a power loss
    file,     \* the bundle file as every process sees it
    onDisk,   \* what the bundle file may hold after a power loss
    acked     \* the bundle of the last save that returned, until the next save

storeVars == <<phase, mode, memory, hasKey>>
keyVars   == <<keyFile, keyDisk>>
fileVars  == <<file, onDisk>>
vars == <<storeVars, call, job, keyVars, fileVars, acked>>

-----------------------------------------------------------------------------
Phases == {"down", "locked", "keyOpened", "keyWritten", "open", "closing"}

\* login passes create_key=True, status and logout allow_empty=True.
Modes == {"login", "serve", "inspect"}

Stages == {"queued",    \* submitted to the executor
           "temp",      \* mkstemp done, content not yet synced
           "stable",    \* temporary file written and fsynced
           "replaced",  \* os.replace done, directory not yet synced
           "saved",     \* the thread returned
           "failed"}    \* the thread raised

KeyStates == {"absent", "partial", "whole"}

Free == [stage |-> "free"]
JobRecords == [stage : Stages, proc : Procs, bundle : Fields]
FileStates == Fields \cup {NoFile, Torn}

TypeOK ==
    /\ phase \in [Procs -> Phases]
    /\ mode \in [Procs -> Modes]
    /\ memory \in [Procs -> Fields \cup {Closed}]
    /\ hasKey \in [Procs -> BOOLEAN]
    /\ call \in [Procs -> Jobs \cup {None}]
    /\ job \in [Jobs -> JobRecords \cup {Free}]
    /\ keyFile \in KeyStates
    /\ keyDisk \subseteq KeyStates
    /\ file \in FileStates
    /\ onDisk \subseteq FileStates
    /\ acked \in Fields \cup {None}

Init ==
    /\ phase = [p \in Procs |-> "down"]
    /\ mode = [p \in Procs |-> "serve"]
    /\ memory = [p \in Procs |-> Closed]
    /\ hasKey = [p \in Procs |-> FALSE]
    /\ call = [p \in Procs |-> None]
    /\ job = [j \in Jobs |-> Free]
    /\ keyFile = "absent"
    /\ keyDisk = {"absent"}
    /\ file = NoFile
    /\ onDisk = {NoFile}
    /\ acked = None

JobsOf(p) == {j \in Jobs : job[j] # Free /\ job[j].proc = p}
LockHeld == \E q \in Procs : phase[q] # "down"

\* Variant: a missing bundle file is not replaced by an empty payload.
ReadBundleRaw == file

\* The bundle a reader obtains from the file: a missing file reads as empty.
ReadBundle == IF file = NoFile THEN EmptyBundle ELSE file

-----------------------------------------------------------------------------
(* Opening: _open runs on a worker thread, one system call after another.     *)

\* flock(LOCK_EX | LOCK_NB) succeeds.  While LockHeld, acquire raises
\* CredentialLockedError and nothing changes.  A new process only takes the
\* name p once the old one has ended, its threads with it.
AcquireLock(p, m) ==
    /\ phase[p] = "down"
    /\ JobsOf(p) = {}
    /\ ~LockHeld
    /\ phase' = [phase EXCEPT ![p] = "locked"]
    /\ mode' = [mode EXCEPT ![p] = m]
    /\ UNCHANGED <<memory, hasKey, call, job, keyVars, fileVars, acked>>

\* os.open(O_CREAT | O_EXCL): from here on the key file exists, empty.
CreateKeyFile(p) ==
    /\ phase[p] = "locked" /\ mode[p] = "login" /\ keyFile = "absent"
    /\ phase' = [phase EXCEPT ![p] = "keyOpened"]
    /\ keyFile' = "partial"
    /\ keyDisk' = keyDisk \cup {"partial"}
    /\ UNCHANGED <<mode, memory, hasKey, call, job, fileVars, acked>>

WriteKeyFile(p) ==
    /\ phase[p] = "keyOpened"
    /\ phase' = [phase EXCEPT ![p] = "keyWritten"]
    /\ keyFile' = "whole"
    /\ keyDisk' = keyDisk \cup {"whole"}
    /\ UNCHANGED <<mode, memory, hasKey, call, job, fileVars, acked>>

\* Variant: the key file is never synced.
SyncKeyFileSkipped(p) ==
    /\ phase[p] = "keyWritten"
    /\ phase' = [phase EXCEPT ![p] = "locked"]
    /\ UNCHANGED <<mode, memory, hasKey, call, job, keyVars, fileVars, acked>>

\* fsync of the key file, then of its directory.
SyncKeyFile(p) ==
    /\ phase[p] = "keyWritten"
    /\ phase' = [phase EXCEPT ![p] = "locked"]
    /\ keyDisk' = {keyFile}
    /\ UNCHANGED <<mode, memory, hasKey, call, job, keyFile, fileVars, acked>>

\* No key and no bundle: `status` and `logout` see an empty bundle, keyless.
OpenEmpty(p) ==
    /\ phase[p] = "locked" /\ mode[p] = "inspect"
    /\ keyFile = "absent" /\ file = NoFile
    /\ phase' = [phase EXCEPT ![p] = "open"]
    /\ memory' = [memory EXCEPT ![p] = EmptyBundle]
    /\ UNCHANGED <<mode, hasKey, call, job, keyVars, fileVars, acked>>

OpenBundle(p) ==
    /\ phase[p] = "locked"
    /\ keyFile = "whole" /\ file # Torn
    /\ phase' = [phase EXCEPT ![p] = "open"]
    /\ hasKey' = [hasKey EXCEPT ![p] = TRUE]
    /\ memory' = [memory EXCEPT ![p] = ReadBundle]
    /\ UNCHANGED <<mode, call, job, keyVars, fileVars, acked>>

\* What _open refuses: no key (unless it may create one or start empty), an
\* unreadable key, an undecryptable bundle.
Refused(p) ==
    \/ keyFile = "absent" /\ mode[p] = "serve"
    \/ keyFile = "absent" /\ mode[p] = "inspect" /\ file # NoFile
    \/ keyFile = "partial"
    \/ keyFile = "whole" /\ file = Torn

\* Variant: a refusal does not release the lock.
OpenFailsKeepsLock(p) ==
    /\ phase[p] \in {"locked", "keyOpened", "keyWritten"} /\ "io" \in Faults
    /\ phase' = [phase EXCEPT ![p] = "down"]
    /\ UNCHANGED <<mode, memory, hasKey, call, job, keyVars, fileVars, acked>>

\* `except Exception: self._lock.release(); raise`.  A key file that was
\* already created stays behind as it is.
OpenFails(p) ==
    /\ \/ phase[p] = "locked" /\ Refused(p)
       \/ phase[p] \in {"locked", "keyOpened", "keyWritten"} /\ "io" \in Faults
    /\ phase' = [phase EXCEPT ![p] = "down"]
    /\ UNCHANGED <<mode, memory, hasKey, call, job, keyVars, fileVars, acked>>

-----------------------------------------------------------------------------
(* save, clear and save_oauth: inside the write lock, copy self._payload with *)
(* one field replaced, then _persist: hand the copy to a thread and wait.     *)

Persist(p, b) ==
    /\ phase[p] = "open"
    /\ hasKey[p]
    /\ call[p] = None
    /\ \E j \in Jobs :
        /\ job[j] = Free
        /\ job' = [job EXCEPT ![j] = [stage |-> "queued", proc |-> p, bundle |-> b]]
        /\ call' = [call EXCEPT ![p] = j]
    /\ acked' = None
    /\ UNCHANGED <<storeVars, keyVars, fileVars>>

Save(p, t)      == Persist(p, [memory[p] EXCEPT !.token = t])
Clear(p)        == Persist(p, [memory[p] EXCEPT !.token = None])

\* Variant: a new OAuth client is saved into a fresh payload.
SaveOAuthAfresh(p, c) == Persist(p, [EmptyBundle EXCEPT !.oauth = c])

SaveOAuth(p, c) == Persist(p, [memory[p] EXCEPT !.oauth = c])

\* The steps of the thread that runs _write_payload.
MakeTemp(j) ==
    /\ job[j].stage = "queued"
    /\ job' = [job EXCEPT ![j].stage = "temp"]
    /\ UNCHANGED <<storeVars, call, keyVars, fileVars, acked>>

SyncTemp(j) ==
    /\ job[j].stage = "temp"
    /\ job' = [job EXCEPT ![j].stage = "stable"]
    /\ UNCHANGED <<storeVars, call, keyVars, fileVars, acked>>

\* What a rename may leave after a power loss: the file's content reaches the
\* disk whole only if it was synced before.
Residue(j) == IF job[j].stage = "stable" THEN {job[j].bundle}
                                         ELSE {job[j].bundle, Torn}

\* Variant: the temporary file is renamed before it is synced.
ReadyToReplaceUnsynced(j) == job[j].stage \in {"temp", "stable"}

ReadyToReplace(j) == job[j].stage = "stable"

Replace(j) ==
    /\ ReadyToReplace(j)
    /\ job' = [job EXCEPT ![j].stage = "replaced"]
    /\ file' = job[j].bundle
    /\ onDisk' = onDisk \cup Residue(j)
    /\ UNCHANGED <<storeVars, call, keyVars, acked>>

\* Variant: the directory is never synced.
SyncDirectorySkipped(j) ==
    /\ job[j].stage = "replaced"
    /\ job' = [job EXCEPT ![j].stage = "saved"]
    /\ UNCHANGED <<storeVars, call, keyVars, fileVars, acked>>

SyncDirectory(j) ==
    /\ job[j].stage = "replaced"
    /\ job' = [job EXCEPT ![j].stage = "saved"]
    /\ onDisk' = {file}
    /\ UNCHANGED <<storeVars, call, keyVars, file, acked>>

\* Any OSError becomes "could not be saved".
WriteFails(j) ==
    /\ \/ job[j].stage \in {"queued", "temp", "stable"} /\ "io" \in Faults
       \/ job[j].stage = "replaced" /\ "dirsync" \in Faults
    /\ job' = [job EXCEPT ![j].stage = "failed"]
    /\ UNCHANGED <<storeVars, call, keyVars, fileVars, acked>>

\* Variant: self._payload keeps the old bundle after a successful write.
SaveReturnsStale(p) ==
    /\ call[p] # None
    /\ job[call[p]].stage = "saved"
    /\ acked' = job[call[p]].bundle
    /\ call' = [call EXCEPT ![p] = None]
    /\ job' = [job EXCEPT ![call[p]] = Free]
    /\ UNCHANGED <<storeVars, keyVars, fileVars>>

\* The awaiting task resumes: self._payload = payload, then the write lock is
\* released and the caller sees success.
SaveReturns(p) ==
    /\ call[p] # None
    /\ job[call[p]].stage = "saved"
    /\ memory' = [memory EXCEPT ![p] = job[call[p]].bundle]
    /\ acked' = job[call[p]].bundle
    /\ call' = [call EXCEPT ![p] = None]
    /\ job' = [job EXCEPT ![call[p]] = Free]
    /\ UNCHANGED <<phase, mode, hasKey, keyVars, fileVars>>

\* The exception leaves the write lock: self._payload keeps the old bundle.
SaveRaises(p) ==
    /\ call[p] # None
    /\ job[call[p]].stage = "failed"
    /\ call' = [call EXCEPT ![p] = None]
    /\ job' = [job EXCEPT ![call[p]] = Free]
    /\ UNCHANGED <<storeVars, keyVars, fileVars, acked>>

\* asyncio cancels the awaiting task: a thread that has not started is dropped,
\* one that runs goes on alone, and the write lock is free either way.
CancelSave(p) ==
    /\ "cancel" \in Faults
    /\ call[p] # None
    /\ call' = [call EXCEPT ![p] = None]
    /\ job' = IF job[call[p]].stage = "queued"
              THEN [job EXCEPT ![call[p]] = Free]
              ELSE job
    /\ UNCHANGED <<storeVars, keyVars, fileVars, acked>>

\* A thread nobody waits for ends.
OrphanEnds(j) ==
    /\ job[j].stage \in {"saved", "failed"}
    /\ call[job[j].proc] # j
    /\ job' = [job EXCEPT ![j] = Free]
    /\ UNCHANGED <<storeVars, call, keyVars, fileVars, acked>>

-----------------------------------------------------------------------------
(* Closing: the `async with` block ends, so no task of p awaits a save.       *)

\* Variant: the store closes under a save in progress.
ForgetStateEarly(p) ==
    /\ phase[p] = "open"
    /\ phase' = [phase EXCEPT ![p] = "closing"]
    /\ memory' = [memory EXCEPT ![p] = Closed]
    /\ hasKey' = [hasKey EXCEPT ![p] = FALSE]
    /\ UNCHANGED <<mode, call, job, keyVars, fileVars, acked>>

ForgetState(p) ==
    /\ phase[p] = "open" /\ call[p] = None
    /\ phase' = [phase EXCEPT ![p] = "closing"]
    /\ memory' = [memory EXCEPT ![p] = Closed]
    /\ hasKey' = [hasKey EXCEPT ![p] = FALSE]
    /\ UNCHANGED <<mode, call, job, keyVars, fileVars, acked>>

ReleaseLock(p) ==
    /\ phase[p] = "closing"
    /\ phase' = [phase EXCEPT ![p] = "down"]
    /\ UNCHANGED <<mode, memory, hasKey, call, job, keyVars, fileVars, acked>>

-----------------------------------------------------------------------------
(* The environment.                                                           *)

\* The kernel closes the lock file of a dead process.
Kill(p) ==
    /\ "kill" \in Faults
    /\ phase[p] # "down" \/ JobsOf(p) # {}
    /\ phase' = [phase EXCEPT ![p] = "down"]
    /\ memory' = [memory EXCEPT ![p] = Closed]
    /\ hasKey' = [hasKey EXCEPT ![p] = FALSE]
    /\ call' = [call EXCEPT ![p] = None]
    /\ job' = [j \in Jobs |-> IF j \in JobsOf(p) THEN Free ELSE job[j]]
    /\ UNCHANGED <<mode, keyVars, fileVars, acked>>

PowerLoss ==
    /\ "power" \in Faults
    /\ phase' = [p \in Procs |-> "down"]
    /\ memory' = [p \in Procs |-> Closed]
    /\ hasKey' = [p \in Procs |-> FALSE]
    /\ call' = [p \in Procs |-> None]
    /\ job' = [j \in Jobs |-> Free]
    /\ keyFile' \in keyDisk
    /\ keyDisk' = {keyFile'}
    /\ file' \in onDisk
    /\ onDisk' = {file'}
    /\ UNCHANGED <<mode, acked>>

-----------------------------------------------------------------------------
Opening(p) ==
    \/ CreateKeyFile(p)
    \/ WriteKeyFile(p)
    \/ SyncKeyFile(p)
    \/ OpenEmpty(p)
    \/ OpenBundle(p)
    \/ OpenFails(p)

Request(p) ==
    \/ \E m \in Modes : AcquireLock(p, m)
    \/ \E t \in Tokens : Save(p, t)
    \/ Clear(p)
    \/ \E c \in Clients : SaveOAuth(p, c)
    \/ ForgetState(p)

Answer(p) == SaveReturns(p) \/ SaveRaises(p) \/ ReleaseLock(p)

ThreadStep(j) ==
    \/ MakeTemp(j)
    \/ SyncTemp(j)
    \/ Replace(j)
    \/ SyncDirectory(j)
    \/ WriteFails(j)
    \/ OrphanEnds(j)

Next ==
    \/ \E p \in Procs : \/ Opening(p)
                        \/ Request(p)
                        \/ Answer(p)
                        \/ CancelSave(p)
                        \/ Kill(p)
    \/ \E j \in Jobs : ThreadStep(j)
    \/ PowerLoss

Spec == Init /\ [][Next]_vars

\* Worker threads run, and the event loop resumes a task whose thread ended.
\* Nobody is obliged to call the store, to close it, or to fail.
Fairness ==
    /\ \A p \in Procs : WF_vars(Opening(p)) /\ WF_vars(Answer(p))
    /\ \A j \in Jobs : WF_vars(ThreadStep(j))

FairSpec == Spec /\ Fairness

-----------------------------------------------------------------------------
(* Properties.  Each one says under which faults it is meant to hold.         *)

\* Whatever happens, and whenever the host stops, the bundle file is absent or
\* one whole bundle: never part of one (the temporary file of _write_payload is
\* synced before it takes the name).  Every fault allowed.
WholeBundle == Torn \notin onDisk \cup {file}

\* A save that returned is in the file, and would be after a power loss, until
\* somebody starts another save.  In particular a write that began earlier does
\* not land on top of it.  Every fault but "cancel".
AckedSurvives == acked # None => file = acked /\ onDisk = {acked}

\* Between two saves the decrypted bundle in memory is the one in the file, so
\* that the copy a save starts from loses no earlier update.  Every fault but
\* "cancel" and "dirsync".
MemoryMatchesFile ==
    \A p \in Procs : phase[p] = "open" /\ call[p] = None => memory[p] = ReadBundle

\* The bundle file is only ever replaced by a thread of the process that holds
\* the directory lock.  Every fault but "cancel".
LockedReplace == [][\A j \in Jobs : Replace(j) => phase[job[j].proc] # "down"]_vars

\* A save that raises has left the previous bundle in the file: the one the
\* process still has in memory.  Every fault but "cancel" and "dirsync".
FailedSaveLeavesBundle ==
    [][\A p \in Procs : SaveRaises(p) => ReadBundle = memory[p]]_vars

\* No power loss leaves an encrypted bundle without the key that opens it: the
\* key file and its directory are synced before the first bundle is written.
\* Only when nothing but power losses happens: a process killed (or failing)
\* between writing and syncing the key leaves it readable but unsynced.
KeyBeforeBundle == onDisk \cap Fields # {} => keyDisk = {"whole"}

\* Every write thread ends, and with it the save that waits for it; and a store
\* that took the directory lock ends up open or has released it again, however
\* opening fails.
StoreSettles ==
    /\ \A j \in Jobs : job[j] # Free ~> job[j] = Free
    /\ \A p \in Procs : phase[p] = "locked" ~> phase[p] \in {"open", "down"}

\* The store is a durable register (see DurableRegister): every change of the
\* file replaces one field of the bundle that was there, whichever process
\* wrote that one, and a restart or power loss loses no acknowledged change.
\* Every fault but "cancel" and "dirsync".
Register == INSTANCE DurableRegister WITH
    value <- ReadBundle,
    survivors <- {IF c = NoFile THEN EmptyBundle ELSE c : c \in onDisk}
RegisterSpec == Register!Spec

\* What remains of that promise under every fault (see LateRegister): a write
\* may land late, but it is a whole bundle, one field away from what its caller
\* had in memory, and a caller is told of success, and memory follows, only
\* after the bundle was in the file and synced.
BundlesIn(stages) == {job[j].bundle : j \in {i \in Jobs : job[i].stage \in stages}}
LateWrites == INSTANCE LateRegister WITH
    value <- ReadBundle,
    survivors <- {IF c = NoFile THEN EmptyBundle ELSE c : c \in onDisk},
    views <- {memory[p] : p \in {q \in Procs : phase[q] = "open"}},
    pending <- BundlesIn({"queued", "temp", "stable"}),
    landed <- BundlesIn({"replaced"}),
    settled <- BundlesIn({"saved"})
LateRegisterSpec == LateWrites!Spec

-----------------------------------------------------------------------------
(* Why the properties hold: what CredentialStoreProofs shows to be inductive. *)

\* An open store has a decrypted bundle to copy from.
OpenHasMemory == \A p \in Procs : phase[p] = "open" => memory[p] \in Fields

\* flock is exclusive, and stays so through crashes.
OneHolder == \A p, q \in Procs : phase[p] # "down" /\ phase[q] # "down" => p = q

\* Without cancellation every write thread is awaited, inside the write lock of
\* a store that is open; so there is at most one.
ThreadsAwaited ==
    /\ \A j \in Jobs : job[j] # Free => /\ phase[job[j].proc] = "open"
                                        /\ call[job[j].proc] = j
    /\ \A p \in Procs : call[p] # None => /\ job[call[p]] # Free
                                          /\ job[call[p]].proc = p

\* Without cancellation a thread finds its bundle in the file until it ends, and
\* synced once it reports success; while an acknowledged bundle is protected,
\* nobody writes.
SavedIsSynced ==
    /\ \A j \in Jobs : job[j].stage \in {"replaced", "saved"} => file = job[j].bundle
    /\ \A j \in Jobs : job[j].stage = "saved" => onDisk = {file}
    /\ acked # None => \A j \in Jobs : job[j] = Free

\* Without "dirsync" the file differs from the memory of an open store only
\* between os.replace and the assignment to self._payload.
Replaced(p) == call[p] # None /\ job[call[p]].stage \in {"replaced", "saved"}
MemoryLags ==
    \A p \in Procs : phase[p] = "open" /\ ~Replaced(p) => memory[p] = ReadBundle

\* Without "io" and "kill" whoever has a key, in memory or for a write, has a
\* synced one; a key file that is whole but unsynced is about to be synced; and
\* no key comes back that was never there.
KeyIsSynced ==
    /\ onDisk \cap Fields # {} => keyDisk = {"whole"}
    /\ \A p \in Procs : hasKey[p] => keyDisk = {"whole"}
    /\ \A j \in Jobs : job[j] # Free => keyDisk = {"whole"}
    /\ keyDisk = {"whole"} => keyFile = "whole"
    /\ keyFile = "absent" => keyDisk = {"absent"}
    /\ keyFile = "whole" => \/ keyDisk = {"whole"}
                            \/ \E p \in Procs : phase[p] = "keyWritten"
    /\ \A p \in Procs : /\ phase[p] = "keyOpened" => keyFile = "partial"
                        /\ phase[p] = "keyWritten" => keyFile = "whole"
=============================================================================
