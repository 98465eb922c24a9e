------------------------ MODULE CredentialStoreProofs ------------------------
(* What CredentialStore guarantees for every set of processes, threads,       *)
(* OAuth clients and tokens.  MCCredentialStore checks the same formulas on   *)
(* small instances.                                                           *)
EXTENDS CredentialStore, TLAPS

-----------------------------------------------------------------------------
(* Type correctness.  A bundle handed to a thread is a copy of self._payload, *)
(* so the types are inductive only together with OpenHasMemory.               *)

\* Save, Clear and SaveOAuth differ only in the well-typed bundle they hand to
\* a thread; acquiring the lock and forgetting the state write nothing.
LEMMA RequestCases ==
    ASSUME TypeOK, OpenHasMemory, NEW p \in Procs, Request(p)
    PROVE  \/ \E m \in Modes : AcquireLock(p, m)
           \/ \E b \in Fields : Persist(p, b)
           \/ ForgetState(p)
<1>1. ASSUME phase[p] = "open", NEW t \in Tokens \cup {None}
      PROVE  [memory[p] EXCEPT !.token = t] \in Fields
  BY <1>1 DEF OpenHasMemory, Fields
<1>2. ASSUME phase[p] = "open", NEW c \in Clients
      PROVE  [memory[p] EXCEPT !.oauth = c] \in Fields
  BY <1>2 DEF OpenHasMemory, Fields
<1>3. ASSUME NEW b, Persist(p, b) PROVE phase[p] = "open"
  BY <1>3 DEF Persist
<1>4. CASE \E t \in Tokens : Save(p, t)
  BY <1>1, <1>3, <1>4 DEF Save
<1>5. CASE Clear(p)
  BY <1>1, <1>3, <1>5 DEF Clear
<1>6. CASE \E c \in Clients : SaveOAuth(p, c)
  BY <1>2, <1>3, <1>6 DEF SaveOAuth
<1> QED BY <1>4, <1>5, <1>6 DEF Request

\* What a job slot holds, by its stage.
LEMMA JobTypes ==
    ASSUME TypeOK, NEW j \in Jobs
    PROVE  /\ job[j] = Free <=> job[j].stage = "free"
           /\ job[j] # Free => /\ job[j] \in JobRecords
                               /\ job[j].proc \in Procs
                               /\ job[j].bundle \in Fields
                               /\ job[j].stage \in Stages
BY DEF TypeOK, JobRecords, Free, Stages

LEMMA EmptyBundleType == EmptyBundle \in Fields
BY DEF EmptyBundle, Fields

LEMMA TypeInit == Init => TypeOK /\ OpenHasMemory
BY DEF Init, TypeOK, OpenHasMemory, Phases, Modes, KeyStates, FileStates

LEMMA TypeOpening ==
    ASSUME TypeOK, OpenHasMemory, NEW p \in Procs, Opening(p)
    PROVE  TypeOK' /\ OpenHasMemory'
<1> USE DEF TypeOK, OpenHasMemory, Phases, KeyStates, keyVars, fileVars
<1>1. CASE CreateKeyFile(p)
  BY <1>1 DEF CreateKeyFile
<1>2. CASE WriteKeyFile(p)
  BY <1>2 DEF WriteKeyFile
<1>3. CASE SyncKeyFile(p)
  BY <1>3 DEF SyncKeyFile
<1>4. CASE OpenEmpty(p)
  BY <1>4, EmptyBundleType DEF OpenEmpty
<1>5. CASE OpenBundle(p)
  <2>1. ReadBundle \in Fields
    BY <1>5, EmptyBundleType DEF OpenBundle, ReadBundle, FileStates
  <2> QED BY <1>5, <2>1 DEF OpenBundle
<1>6. CASE OpenFails(p)
  BY <1>6 DEF OpenFails
<1> QED BY <1>1, <1>2, <1>3, <1>4, <1>5, <1>6 DEF Opening

LEMMA TypeRequest ==
    ASSUME TypeOK, OpenHasMemory, NEW p \in Procs, Request(p)
    PROVE  TypeOK' /\ OpenHasMemory'
<1> USE DEF TypeOK, OpenHasMemory, Phases, storeVars, keyVars, fileVars
<1>1. ASSUME NEW m \in Modes, AcquireLock(p, m) PROVE TypeOK' /\ OpenHasMemory'
  BY <1>1 DEF AcquireLock
<1>2. ASSUME NEW b \in Fields, Persist(p, b) PROVE TypeOK' /\ OpenHasMemory'
  BY <1>2 DEF Persist, JobRecords, Stages
<1>3. CASE ForgetState(p)
  BY <1>3 DEF ForgetState
<1> QED BY <1>1, <1>2, <1>3, RequestCases

LEMMA TypeAnswer ==
    ASSUME TypeOK, OpenHasMemory, NEW p \in Procs, Answer(p) \/ CancelSave(p) \/ Kill(p)
    PROVE  TypeOK' /\ OpenHasMemory'
<1> USE DEF TypeOK, OpenHasMemory, Phases, storeVars, keyVars, fileVars
<1>1. CASE SaveReturns(p)
  <2>1. call[p] \in Jobs /\ job[call[p]].bundle \in Fields
    BY <1>1, JobTypes DEF SaveReturns, Free
  <2> QED BY <1>1, <2>1 DEF SaveReturns
<1>2. CASE SaveRaises(p)
  BY <1>2 DEF SaveRaises
<1>3. CASE ReleaseLock(p)
  BY <1>3 DEF ReleaseLock
<1>4. CASE CancelSave(p)
  BY <1>4 DEF CancelSave
<1>5. CASE Kill(p)
  BY <1>5 DEF Kill
<1> QED BY <1>1, <1>2, <1>3, <1>4, <1>5 DEF Answer

LEMMA TypeThread ==
    ASSUME TypeOK, OpenHasMemory, NEW j \in Jobs, ThreadStep(j)
    PROVE  TypeOK' /\ OpenHasMemory'
<1> USE DEF OpenHasMemory, storeVars, keyVars, fileVars
<1>1. ASSUME NEW s \in Stages, job[j] # Free
      PROVE  [job[j] EXCEPT !.stage = s] \in JobRecords
  BY <1>1, JobTypes DEF JobRecords
<1>2. CASE MakeTemp(j)
  BY <1>1, <1>2 DEF MakeTemp, TypeOK, Free, Stages
<1>3. CASE SyncTemp(j)
  BY <1>1, <1>3 DEF SyncTemp, TypeOK, Free, Stages
<1>4. CASE Replace(j)
  <2>1. job[j] # Free /\ job[j].bundle \in Fields /\ Residue(j) \subseteq FileStates
    BY <1>4, JobTypes DEF Replace, ReadyToReplace, Residue, Free, FileStates
  <2> QED BY <1>1, <1>4, <2>1 DEF Replace, TypeOK, Stages, FileStates
<1>5. CASE SyncDirectory(j)
  BY <1>1, <1>5 DEF SyncDirectory, TypeOK, Free, Stages
<1>6. CASE WriteFails(j)
  BY <1>1, <1>6 DEF WriteFails, TypeOK, Free, Stages
<1>7. CASE OrphanEnds(j)
  BY <1>7 DEF OrphanEnds, TypeOK
<1> QED BY <1>2, <1>3, <1>4, <1>5, <1>6, <1>7 DEF ThreadStep

LEMMA TypePowerLoss ==
    ASSUME TypeOK, OpenHasMemory, PowerLoss
    PROVE  TypeOK' /\ OpenHasMemory'
BY DEF TypeOK, OpenHasMemory, PowerLoss, Phases

LEMMA TypeStep ==
    ASSUME TypeOK, OpenHasMemory, [Next]_vars
    PROVE  TypeOK' /\ OpenHasMemory'
<1>1. CASE Next
  BY <1>1, TypeOpening, TypeRequest, TypeAnswer, TypeThread, TypePowerLoss DEF Next
<1>2. CASE UNCHANGED vars
  BY <1>2 DEF vars, storeVars, keyVars, fileVars, TypeOK, OpenHasMemory
<1> QED BY <1>1, <1>2

\* Every variable keeps its type, and an open store always has a bundle to copy
\* from, whatever faults happen.
THEOREM TypeCorrect == Spec => [](TypeOK /\ OpenHasMemory)
<1>1. Init => TypeOK /\ OpenHasMemory
  BY TypeInit
<1>2. TypeOK /\ OpenHasMemory /\ [Next]_vars => (TypeOK /\ OpenHasMemory)'
  BY TypeStep
<1> QED BY <1>1, <1>2, PTL DEF Spec

-----------------------------------------------------------------------------
(* The bundle file is never torn.                                             *)

LEMMA WholeStep ==
    ASSUME TypeOK, WholeBundle, [Next]_vars
    PROVE  WholeBundle'
<1> USE DEF WholeBundle, keyVars, fileVars
<1>1. CASE UNCHANGED fileVars
  BY <1>1
<1>2. ASSUME NEW j \in Jobs, Replace(j) PROVE WholeBundle'
  <2>1. job[j].stage = "stable" /\ job[j].bundle # Torn
    BY <1>2, JobTypes, FileAssumption DEF Replace, ReadyToReplace, Free
  <2>2. file' = job[j].bundle /\ onDisk' = onDisk \cup {job[j].bundle}
    BY <1>2, <2>1 DEF Replace, Residue
  <2> QED BY <2>1, <2>2
<1>3. ASSUME NEW j \in Jobs, SyncDirectory(j) PROVE WholeBundle'
  BY <1>3 DEF SyncDirectory
<1>4. CASE PowerLoss
  BY <1>4 DEF PowerLoss
<1>5. ASSUME NEW j \in Jobs, ThreadStep(j), ~Replace(j), ~SyncDirectory(j)
      PROVE  UNCHANGED fileVars
  BY <1>5 DEF ThreadStep, MakeTemp, SyncTemp, WriteFails, OrphanEnds
<1>6. ASSUME NEW p \in Procs,
             Opening(p) \/ Request(p) \/ Answer(p) \/ CancelSave(p) \/ Kill(p)
      PROVE  UNCHANGED fileVars
  BY <1>6 DEF Opening, CreateKeyFile, WriteKeyFile, SyncKeyFile, OpenEmpty,
              OpenBundle, OpenFails, Request, AcquireLock, Save, Clear, SaveOAuth,
              Persist, ForgetState, Answer, SaveReturns, SaveRaises, ReleaseLock,
              CancelSave, Kill
<1>7. CASE UNCHANGED vars
  BY <1>1, <1>7 DEF vars
<1> QED BY <1>1, <1>2, <1>3, <1>4, <1>5, <1>6, <1>7 DEF Next

\* Whatever fails, is cancelled or is killed, and whenever the power is lost,
\* the bundle file is absent or one whole bundle.
THEOREM NeverTorn == Spec => []WholeBundle
<1>1. Init => WholeBundle
  BY FileAssumption DEF Init, WholeBundle
<1>2. TypeOK /\ WholeBundle /\ [Next]_vars => WholeBundle'
  BY WholeStep
<1> QED BY <1>1, <1>2, TypeCorrect, PTL DEF Spec

-----------------------------------------------------------------------------
(* The flock and the write lock: as long as no save is cancelled, there is at *)
(* most one write thread, and it belongs to the process that holds the lock.  *)

NoCancel == "cancel" \notin Faults
Awaited == OneHolder /\ ThreadsAwaited

\* The lock has one holder at a time, cancellation or not.
LEMMA HolderStep ==
    ASSUME TypeOK, OneHolder, [Next]_vars
    PROVE  OneHolder'
<1> USE DEF TypeOK, OneHolder, Phases
<1>1. ASSUME NEW p \in Procs, Opening(p) PROVE OneHolder'
  BY <1>1 DEF Opening, CreateKeyFile, WriteKeyFile, SyncKeyFile, OpenEmpty,
              OpenBundle, OpenFails
<1>2. ASSUME NEW p \in Procs, Request(p) PROVE OneHolder'
  BY <1>2 DEF Request, AcquireLock, LockHeld, Save, Clear, SaveOAuth, Persist,
              ForgetState, storeVars
<1>3. ASSUME NEW p \in Procs, Answer(p) \/ CancelSave(p) \/ Kill(p) PROVE OneHolder'
  BY <1>3 DEF Answer, SaveReturns, SaveRaises, ReleaseLock, CancelSave, Kill, storeVars
<1>4. ASSUME NEW j \in Jobs, ThreadStep(j) PROVE OneHolder'
  BY <1>4 DEF ThreadStep, MakeTemp, SyncTemp, Replace, SyncDirectory, WriteFails,
              OrphanEnds, storeVars
<1>5. CASE PowerLoss \/ UNCHANGED vars
  BY <1>5 DEF PowerLoss, vars, storeVars
<1> QED BY <1>1, <1>2, <1>3, <1>4, <1>5 DEF Next

LEMMA AwaitedOpening ==
    ASSUME TypeOK, Awaited, NEW p \in Procs, Opening(p)
    PROVE  Awaited'
<1>1. phase[p] \in {"locked", "keyOpened", "keyWritten"}
      /\ UNCHANGED <<call, job>>
      /\ phase' \in [Procs -> Phases]
      /\ \A q \in Procs \ {p} : phase'[q] = phase[q]
  BY DEF Opening, CreateKeyFile, WriteKeyFile, SyncKeyFile, OpenEmpty, OpenBundle,
         OpenFails, TypeOK, Phases
<1>2. \A j \in Jobs : job[j] # Free => job[j].proc # p /\ job[j].proc \in Procs
  BY <1>1, JobTypes DEF Awaited, ThreadsAwaited
<1> QED BY <1>1, <1>2 DEF Awaited, OneHolder, ThreadsAwaited

LEMMA AwaitedRequest ==
    ASSUME TypeOK, OpenHasMemory, Awaited, NEW p \in Procs, Request(p)
    PROVE  Awaited'
<1> USE DEF TypeOK, Awaited, OneHolder, ThreadsAwaited
<1>1. ASSUME NEW m \in Modes, AcquireLock(p, m) PROVE Awaited'
  BY <1>1, JobTypes DEF AcquireLock, LockHeld, Phases
<1>2. ASSUME NEW b \in Fields, Persist(p, b) PROVE Awaited'
  <2>1. PICK j \in Jobs :
          /\ job[j] = Free
          /\ job' = [job EXCEPT ![j] = [stage |-> "queued", proc |-> p, bundle |-> b]]
          /\ call' = [call EXCEPT ![p] = j]
    BY <1>2 DEF Persist
  <2>2. UNCHANGED phase /\ phase[p] = "open" /\ call[p] = None
    BY <1>2 DEF Persist, storeVars
  <2>3. job'[j] = [stage |-> "queued", proc |-> p, bundle |-> b]
        /\ job'[j] # Free /\ call'[p] = j /\ j # None
    BY <2>1, NoneAssumption DEF Free
  <2>4. \A k \in Jobs \ {j} : job'[k] = job[k]
    BY <2>1
  <2>5. \A q \in Procs \ {p} : call'[q] = call[q]
    BY <2>1
  <2>6. \A q \in Procs : q # p => call[q] = None
    <3> SUFFICES ASSUME NEW q \in Procs, call[q] # None PROVE q = p
      OBVIOUS
    <3>1. call[q] \in Jobs /\ job[call[q]] # Free /\ job[call[q]].proc = q
      OBVIOUS
    <3>2. phase[q] = "open"
      BY <3>1
    <3> QED BY <3>2, <2>2
  <2>7. \A k \in Jobs \ {j} : job[k] = Free
    BY <2>2, <2>6, JobTypes, NoneAssumption
  <2> QED BY <2>2, <2>3, <2>4, <2>5, <2>6, <2>7
<1>3. CASE ForgetState(p)
  <2>1. \A j \in Jobs : job[j] # Free => job[j].proc # p /\ job[j].proc \in Procs
    BY <1>3, JobTypes, NoneAssumption DEF ForgetState
  <2> QED BY <1>3, <2>1 DEF ForgetState, Phases
<1> QED BY <1>1, <1>2, <1>3, RequestCases

LEMMA AwaitedAnswer ==
    ASSUME NoCancel, TypeOK, Awaited, NEW p \in Procs,
           Answer(p) \/ CancelSave(p) \/ Kill(p)
    PROVE  Awaited'
<1> USE DEF TypeOK, Awaited, OneHolder, ThreadsAwaited
<1>1. ASSUME call[p] # None, UNCHANGED phase,
             call' = [call EXCEPT ![p] = None], job' = [job EXCEPT ![call[p]] = Free]
      PROVE  Awaited'
  <2>1. call[p] \in Jobs /\ job[call[p]] # Free /\ job[call[p]].proc = p
    BY <1>1
  <2>2. \A j \in Jobs : job'[j] # Free =>
          j # call[p] /\ job'[j] = job[j] /\ job[j].proc # p /\ job[j].proc \in Procs
    BY <1>1, <2>1, JobTypes
  <2>3. \A q \in Procs : call'[q] # None =>
          q # p /\ call'[q] = call[q] /\ call[q] # call[p] /\ call[q] \in Jobs
    BY <1>1, <2>1
  <2> QED BY <1>1, <2>1, <2>2, <2>3
<1>2. CASE SaveReturns(p)
  BY <1>1, <1>2 DEF SaveReturns
<1>3. CASE SaveRaises(p)
  BY <1>1, <1>3 DEF SaveRaises, storeVars
<1>4. CASE ReleaseLock(p)
  <2>1. \A j \in Jobs : job[j] # Free => job[j].proc # p /\ job[j].proc \in Procs
    BY <1>4, JobTypes DEF ReleaseLock
  <2> QED BY <1>4, <2>1 DEF ReleaseLock, Phases
<1>5. CASE CancelSave(p)
  BY <1>5 DEF CancelSave, NoCancel
<1>6. CASE Kill(p)
  <2>1. \A j \in Jobs : job'[j] # Free =>
          job'[j] = job[j] /\ job[j].proc # p /\ job[j].proc \in Procs
    BY <1>6, JobTypes DEF Kill, JobsOf
  <2>2. \A q \in Procs : call'[q] # None =>
          q # p /\ call'[q] = call[q] /\ call[q] \in Jobs
    BY <1>6 DEF Kill
  <2>3. \A q \in Procs : call'[q] # None => job'[call[q]] = job[call[q]]
    BY <1>6, <2>2 DEF Kill, JobsOf
  <2>4. \A q \in Procs : /\ phase'[q] = IF q = p THEN "down" ELSE phase[q]
                         /\ q # p => call'[q] = call[q]
    BY <1>6 DEF Kill
  <2>5. OneHolder'
    BY <2>4
  <2>6. \A j \in Jobs : job'[j] # Free => /\ phase'[job'[j].proc] = "open"
                                         /\ call'[job'[j].proc] = j
    BY <2>1, <2>4
  <2>7. \A q \in Procs : call'[q] # None => /\ job'[call'[q]] # Free
                                            /\ job'[call'[q]].proc = q
    BY <2>2, <2>3
  <2> QED BY <2>5, <2>6, <2>7
<1> QED BY <1>2, <1>3, <1>4, <1>5, <1>6 DEF Answer

LEMMA AwaitedThread ==
    ASSUME TypeOK, Awaited, NEW j \in Jobs, ThreadStep(j)
    PROVE  Awaited'
<1> USE DEF TypeOK, Awaited, OneHolder, ThreadsAwaited
<1>1. ASSUME NEW s \in Stages, job[j] # Free,
             job' = [job EXCEPT ![j].stage = s], UNCHANGED <<phase, call>>
      PROVE  Awaited'
  <2>1. job'[j].stage = s /\ job'[j].proc = job[j].proc /\ job'[j] # Free
    BY <1>1, JobTypes DEF JobRecords, Stages, Free
  <2>2. \A k \in Jobs \ {j} : job'[k] = job[k]
    BY <1>1
  <2> QED BY <1>1, <2>1, <2>2
<1>2. CASE OrphanEnds(j)
  BY <1>2, JobTypes DEF OrphanEnds, Free
<1>3. CASE MakeTemp(j)
  BY <1>1, <1>3 DEF MakeTemp, storeVars, Stages, Free
<1>4. CASE SyncTemp(j)
  BY <1>1, <1>4 DEF SyncTemp, storeVars, Stages, Free
<1>5. CASE Replace(j)
  BY <1>1, <1>5 DEF Replace, ReadyToReplace, storeVars, Stages, Free
<1>6. CASE SyncDirectory(j)
  BY <1>1, <1>6 DEF SyncDirectory, storeVars, Stages, Free
<1>7. CASE WriteFails(j)
  BY <1>1, <1>7 DEF WriteFails, storeVars, Stages, Free
<1> QED BY <1>2, <1>3, <1>4, <1>5, <1>6, <1>7 DEF ThreadStep

LEMMA AwaitedStep ==
    ASSUME NoCancel, TypeOK, OpenHasMemory, Awaited, [Next]_vars
    PROVE  Awaited'
<1>1. CASE PowerLoss
  BY <1>1 DEF PowerLoss, Awaited, OneHolder, ThreadsAwaited
<1>2. CASE UNCHANGED vars
  BY <1>2 DEF vars, storeVars, Awaited, OneHolder, ThreadsAwaited
<1> QED BY <1>1, <1>2, AwaitedOpening, AwaitedRequest, AwaitedAnswer, AwaitedThread
        DEF Next

\* If no save is cancelled, at most one process holds the lock, and every write
\* thread is awaited by the open store of that process.
THEOREM WritersAwaited == ASSUME NoCancel PROVE Spec => []Awaited
<1>1. Init => Awaited
  BY DEF Init, Awaited, OneHolder, ThreadsAwaited
<1>2. TypeOK /\ OpenHasMemory /\ Awaited /\ [Next]_vars => Awaited'
  BY AwaitedStep
<1> QED BY <1>1, <1>2, TypeCorrect, PTL DEF Spec

\* If no save is cancelled, the bundle is replaced under the directory lock only.
THEOREM ReplacedUnderLock == ASSUME NoCancel PROVE Spec => LockedReplace
<1>1. ASSUME TypeOK, Awaited, NEW j \in Jobs, Replace(j)
      PROVE  phase[job[j].proc] # "down"
  BY <1>1 DEF Awaited, ThreadsAwaited, Replace, ReadyToReplace, Free
<1>2. TypeOK /\ Awaited /\ [Next]_vars
        => [\A j \in Jobs : Replace(j) => phase[job[j].proc] # "down"]_vars
  BY <1>1
<1> QED BY <1>2, TypeCorrect, WritersAwaited, PTL DEF Spec, LockedReplace

-----------------------------------------------------------------------------
(* Durability: an acknowledged bundle is the only one a power loss can leave. *)

Durable == AckedSurvives /\ SavedIsSynced

\* Two threads never run together: both would be awaited by the lock holder.
LEMMA OneThread ==
    ASSUME TypeOK, Awaited
    PROVE  \A j, k \in Jobs : job[j] # Free /\ job[k] # Free => j = k
<1> SUFFICES ASSUME NEW j \in Jobs, NEW k \in Jobs, job[j] # Free, job[k] # Free
             PROVE  j = k
  OBVIOUS
<1>1. job[j].proc \in Procs /\ job[k].proc \in Procs
  BY JobTypes
<1>2. phase[job[j].proc] = "open" /\ phase[job[k].proc] = "open"
  BY DEF Awaited, ThreadsAwaited
<1>3. job[j].proc = job[k].proc
  BY <1>1, <1>2 DEF Awaited, OneHolder
<1> QED BY <1>3 DEF Awaited, ThreadsAwaited

\* A step that leaves the file alone, and frees threads at most, keeps an
\* acknowledged bundle.
LEMMA DurableStutter ==
    ASSUME TypeOK, Durable, UNCHANGED <<file, onDisk, acked>>,
           \A j \in Jobs : job'[j] = job[j] \/ job'[j] = Free
    PROVE  Durable'
BY DEF Durable, AckedSurvives, SavedIsSynced, Free

LEMMA DurableThread ==
    ASSUME TypeOK, Awaited, Durable, NEW j \in Jobs, ThreadStep(j)
    PROVE  Durable'
<1> USE DEF Durable, AckedSurvives, SavedIsSynced
<1>1. job[j] # Free
  BY DEF ThreadStep, MakeTemp, SyncTemp, Replace, ReadyToReplace, SyncDirectory,
         WriteFails, OrphanEnds, Free
<1>2. acked = None /\ acked' = acked
  BY <1>1 DEF ThreadStep, MakeTemp, SyncTemp, Replace, SyncDirectory, WriteFails,
              OrphanEnds
<1>3. \A k \in Jobs \ {j} : job[k] = Free /\ job'[k] = Free
  BY <1>1, OneThread DEF ThreadStep, MakeTemp, SyncTemp, Replace, SyncDirectory,
                         WriteFails, OrphanEnds, TypeOK
<1>4. CASE MakeTemp(j) \/ SyncTemp(j) \/ WriteFails(j) \/ OrphanEnds(j)
  <2>1. job'[j].stage \notin {"replaced", "saved"}
    BY <1>1, <1>4, JobTypes DEF MakeTemp, SyncTemp, WriteFails, OrphanEnds,
                                TypeOK, JobRecords, Free
  <2> QED BY <1>2, <1>3, <2>1 DEF Free
<1>5. CASE Replace(j)
  <2>1. job'[j].stage = "replaced" /\ job'[j].bundle = job[j].bundle
    BY <1>1, <1>5, JobTypes DEF Replace, TypeOK, JobRecords, Free
  <2>2. file' = job[j].bundle
    BY <1>5 DEF Replace
  <2> QED BY <1>2, <1>3, <2>1, <2>2 DEF Free
<1>6. CASE SyncDirectory(j)
  <2>1. job'[j].bundle = job[j].bundle
    BY <1>1, <1>6, JobTypes DEF SyncDirectory, TypeOK, JobRecords, Free
  <2>2. job[j].stage = "replaced" /\ onDisk' = {file} /\ file' = file
    BY <1>6 DEF SyncDirectory
  <2> QED BY <1>2, <1>3, <2>1, <2>2 DEF Free
<1> QED BY <1>4, <1>5, <1>6 DEF ThreadStep

LEMMA DurableProcess ==
    ASSUME TypeOK, OpenHasMemory, Awaited, Durable, NEW p \in Procs,
           Opening(p) \/ Request(p) \/ Answer(p) \/ CancelSave(p) \/ Kill(p)
    PROVE  Durable'
<1> USE DEF keyVars, fileVars, storeVars
<1>1. CASE Opening(p)
  BY <1>1, DurableStutter DEF Opening, CreateKeyFile, WriteKeyFile, SyncKeyFile,
       OpenEmpty, OpenBundle, OpenFails
<1>2. CASE (\E m \in Modes : AcquireLock(p, m)) \/ ForgetState(p)
  BY <1>2, DurableStutter DEF AcquireLock, ForgetState
<1>3. ASSUME NEW b \in Fields, Persist(p, b) PROVE Durable'
  <2>1. PICK j \in Jobs :
          job' = [job EXCEPT ![j] = [stage |-> "queued", proc |-> p, bundle |-> b]]
    BY <1>3 DEF Persist
  <2>2. acked' = None /\ UNCHANGED <<file, onDisk>>
    BY <1>3 DEF Persist
  <2>3. job'[j].stage = "queued" /\ \A k \in Jobs \ {j} : job'[k] = job[k]
    BY <2>1 DEF TypeOK
  <2> QED BY <2>2, <2>3 DEF Durable, AckedSurvives, SavedIsSynced
<1>4. CASE SaveReturns(p)
  <2> DEFINE j == call[p]
  <2>1. j \in Jobs /\ job[j].stage = "saved" /\ job[j] # Free
    BY <1>4 DEF SaveReturns, TypeOK, Free
  <2>2. \A k \in Jobs : job'[k] = Free
    BY <1>4, <2>1, OneThread DEF SaveReturns, TypeOK
  <2>3. acked' = job[j].bundle /\ UNCHANGED <<file, onDisk>>
    BY <1>4 DEF SaveReturns
  <2>4. file = job[j].bundle /\ onDisk = {file}
    BY <2>1 DEF Durable, SavedIsSynced
  <2> QED BY <2>2, <2>3, <2>4 DEF Durable, AckedSurvives, SavedIsSynced, Free
<1>5. CASE SaveRaises(p) \/ CancelSave(p)
  BY <1>5, DurableStutter DEF SaveRaises, CancelSave, TypeOK
<1>6. CASE ReleaseLock(p) \/ Kill(p)
  BY <1>6, DurableStutter DEF ReleaseLock, Kill
<1> QED BY <1>1, <1>2, <1>3, <1>4, <1>5, <1>6, RequestCases DEF Answer

LEMMA DurableStep ==
    ASSUME TypeOK, OpenHasMemory, Awaited, Durable, [Next]_vars
    PROVE  Durable'
<1>1. CASE PowerLoss
  BY <1>1 DEF PowerLoss, Durable, AckedSurvives, SavedIsSynced, Free
<1>2. CASE UNCHANGED vars
  BY <1>2, DurableStutter DEF vars, fileVars
<1> QED BY <1>1, <1>2, DurableThread, DurableProcess DEF Next

\* If no save is cancelled, a save that returned is in the file, and would be
\* after a power loss, until somebody starts another save.
THEOREM SavesAreDurable == ASSUME NoCancel PROVE Spec => []AckedSurvives
<1>1. Init => Durable
  BY DEF Init, Durable, AckedSurvives, SavedIsSynced, Free
<1>2. TypeOK /\ OpenHasMemory /\ Awaited /\ Durable /\ [Next]_vars => Durable'
  BY DurableStep
<1>3. Durable => AckedSurvives
  BY DEF Durable
<1> QED BY <1>1, <1>2, <1>3, TypeCorrect, WritersAwaited, PTL DEF Spec

-----------------------------------------------------------------------------
(* Memory and file: as long as the directory fsync does not fail either, the  *)
(* copy a save starts from is the bundle in the file.                         *)

NoDirsyncFault == "dirsync" \notin Faults

LEMMA MemoryThread ==
    ASSUME NoDirsyncFault, TypeOK, Awaited, MemoryLags, NEW j \in Jobs, ThreadStep(j)
    PROVE  MemoryLags'
<1> USE DEF storeVars, fileVars, TypeOK
<1>1. job[j] # Free /\ UNCHANGED <<memory, phase, call>>
  BY DEF ThreadStep, MakeTemp, SyncTemp, Replace, ReadyToReplace, SyncDirectory,
         WriteFails, OrphanEnds, Free
<1>2. job[j].proc \in Procs /\ call[job[j].proc] = j /\ phase[job[j].proc] = "open"
  BY <1>1, JobTypes DEF Awaited, ThreadsAwaited
<1>3. \A q \in Procs : phase[q] = "open" => q = job[j].proc
  BY <1>2 DEF Awaited, OneHolder
<1>4. CASE Replace(j) \/ SyncDirectory(j)
  <2>1. job'[j].stage \in {"replaced", "saved"}
    BY <1>1, <1>4, JobTypes DEF Replace, SyncDirectory, JobRecords, Free
  <2> QED BY <1>1, <1>2, <1>3, <2>1, NoneAssumption DEF MemoryLags, Replaced
<1>5. CASE MakeTemp(j) \/ SyncTemp(j) \/ WriteFails(j)
  <2>1. job[j].stage \notin {"replaced", "saved"} /\ UNCHANGED file
    BY <1>5 DEF MakeTemp, SyncTemp, WriteFails, NoDirsyncFault
  <2> QED BY <1>1, <1>2, <1>3, <2>1 DEF MemoryLags, Replaced, ReadBundle
<1>6. CASE OrphanEnds(j)
  BY <1>2, <1>6 DEF OrphanEnds
<1> QED BY <1>4, <1>5, <1>6 DEF ThreadStep

LEMMA MemoryProcess ==
    ASSUME NoCancel, TypeOK, OpenHasMemory, Awaited, Durable, MemoryLags,
           NEW p \in Procs,
           Opening(p) \/ Request(p) \/ Answer(p) \/ CancelSave(p) \/ Kill(p)
    PROVE  MemoryLags'
<1> USE DEF keyVars, fileVars, storeVars, TypeOK, MemoryLags, Replaced, ReadBundle
<1>1. CASE Opening(p)
  BY <1>1 DEF Opening, CreateKeyFile, WriteKeyFile, SyncKeyFile, OpenEmpty,
       OpenBundle, OpenFails
<1>2. CASE (\E m \in Modes : AcquireLock(p, m)) \/ ForgetState(p)
  BY <1>2 DEF AcquireLock, ForgetState
<1>3. ASSUME NEW b \in Fields, Persist(p, b) PROVE MemoryLags'
  <2>1. PICK j \in Jobs :
          /\ job[j] = Free
          /\ job' = [job EXCEPT ![j] = [stage |-> "queued", proc |-> p, bundle |-> b]]
          /\ call' = [call EXCEPT ![p] = j]
    BY <1>3 DEF Persist
  <2>2. UNCHANGED <<phase, memory, file>> /\ phase[p] = "open" /\ call[p] = None
    BY <1>3 DEF Persist
  <2>3. \A q \in Procs : phase[q] = "open" => q = p
    BY <2>2 DEF Awaited, OneHolder
  <2>4. memory[p] = ReadBundle
    BY <2>2
  <2> QED BY <2>1, <2>2, <2>3, <2>4
<1>4. CASE SaveReturns(p)
  <2> DEFINE j == call[p]
  <2>1. j \in Jobs /\ job[j].stage = "saved" /\ job[j] # Free /\ job[j].bundle \in Fields
    BY <1>4, JobTypes DEF SaveReturns, Free
  <2>2. memory'[p] = job[j].bundle /\ UNCHANGED <<file, phase>>
    BY <1>4 DEF SaveReturns
  <2>3. file = job[j].bundle /\ file # NoFile
    BY <2>1, FileAssumption DEF Durable, SavedIsSynced
  <2>4. phase[p] = "open"
    BY <1>4 DEF Awaited, ThreadsAwaited, SaveReturns
  <2>5. \A q \in Procs : phase[q] = "open" => q = p
    BY <2>4 DEF Awaited, OneHolder
  <2> QED BY <2>2, <2>3, <2>5
<1>5. CASE SaveRaises(p)
  <2>1. UNCHANGED <<file, phase, memory>> /\ ~Replaced(p)
    BY <1>5 DEF SaveRaises
  <2>2. phase[p] = "open"
    BY <1>5 DEF Awaited, ThreadsAwaited, SaveRaises
  <2>3. \A q \in Procs : phase[q] = "open" => q = p
    BY <2>2 DEF Awaited, OneHolder
  <2> QED BY <2>1, <2>3
<1>6. CASE CancelSave(p)
  BY <1>6 DEF CancelSave, NoCancel
<1>7. CASE ReleaseLock(p)
  BY <1>7 DEF ReleaseLock
<1>8. CASE Kill(p)
  <2>1. \A q \in Procs : call[q] # None /\ q # p => job'[call[q]] = job[call[q]]
    BY <1>8 DEF Kill, JobsOf, Awaited, ThreadsAwaited
  <2> QED BY <1>8, <2>1 DEF Kill
<1> QED BY <1>1, <1>2, <1>3, <1>4, <1>5, <1>6, <1>7, <1>8, RequestCases DEF Answer

LEMMA MemoryStep ==
    ASSUME NoCancel, NoDirsyncFault, TypeOK, OpenHasMemory, Awaited, Durable,
           MemoryLags, [Next]_vars
    PROVE  MemoryLags'
<1>1. CASE PowerLoss
  BY <1>1 DEF PowerLoss, MemoryLags
<1>2. CASE UNCHANGED vars
  BY <1>2 DEF vars, storeVars, fileVars, MemoryLags, Replaced, ReadBundle
<1> QED BY <1>1, <1>2, MemoryThread, MemoryProcess DEF Next

LEMMA MemoryInvariant ==
    ASSUME NoCancel, NoDirsyncFault
    PROVE  Spec => [](TypeOK /\ OpenHasMemory /\ Awaited /\ Durable /\ MemoryLags)
<1>1. Init => Durable /\ MemoryLags
  BY DEF Init, Durable, AckedSurvives, SavedIsSynced, Free, MemoryLags
<1>2. TypeOK /\ OpenHasMemory /\ Awaited /\ Durable /\ MemoryLags /\ [Next]_vars
        => Durable' /\ MemoryLags'
  BY DurableStep, MemoryStep
<1> QED BY <1>1, <1>2, TypeCorrect, WritersAwaited, PTL DEF Spec

\* Without cancellation and directory-sync failures, an open store that writes
\* nothing has in memory what the file holds.
THEOREM MemoryIsCurrent ==
    ASSUME NoCancel, NoDirsyncFault PROVE Spec => []MemoryMatchesFile
<1>1. MemoryLags => MemoryMatchesFile
  BY DEF MemoryLags, MemoryMatchesFile, Replaced
<1> QED BY <1>1, MemoryInvariant, PTL

\* Under the same assumptions a save that raises has left the old bundle, in
\* the file as in memory.
THEOREM FailureLeavesBundle ==
    ASSUME NoCancel, NoDirsyncFault PROVE Spec => FailedSaveLeavesBundle
<1>1. ASSUME TypeOK, Awaited, MemoryLags, NEW p \in Procs, SaveRaises(p)
      PROVE  ReadBundle = memory[p]
  <2>1. phase[p] = "open"
    BY <1>1 DEF SaveRaises, Awaited, ThreadsAwaited, TypeOK
  <2> QED BY <1>1, <2>1 DEF SaveRaises, MemoryLags, Replaced
<1>2. TypeOK /\ Awaited /\ MemoryLags /\ [Next]_vars
        => [\A p \in Procs : SaveRaises(p) => ReadBundle = memory[p]]_vars
  BY <1>1
<1> QED BY <1>2, MemoryInvariant, PTL DEF Spec, FailedSaveLeavesBundle

-----------------------------------------------------------------------------
(* The store implements DurableRegister.                                      *)

\* The bundle b is the bundle v with one field replaced, as by a save.
OneFieldOf(b, v) ==
    \/ \E t \in Tokens \cup {None} : b = [v EXCEPT !.token = t]
    \/ \E c \in Clients : b = [v EXCEPT !.oauth = c]

\* Until it takes the file's name, a pending bundle is one change away from it.
PendingChange ==
    \A j \in Jobs : job[j].stage \in {"queued", "temp", "stable"}
        => OneFieldOf(job[j].bundle, ReadBundle)

\* As RequestCases, saying how the bundle differs instead of its type.
LEMMA RequestChanges ==
    ASSUME NEW p \in Procs, Request(p)
    PROVE  \/ \E m \in Modes : AcquireLock(p, m)
           \/ \E b : Persist(p, b) /\ OneFieldOf(b, memory[p])
           \/ ForgetState(p)
BY DEF Request, Save, Clear, SaveOAuth, OneFieldOf

LEMMA PendingThread ==
    ASSUME TypeOK, Awaited, PendingChange, NEW j \in Jobs, ThreadStep(j)
    PROVE  PendingChange'
<1> USE DEF fileVars, TypeOK, PendingChange
<1>1. job[j] # Free
  BY DEF ThreadStep, MakeTemp, SyncTemp, Replace, ReadyToReplace, SyncDirectory,
         WriteFails, OrphanEnds, Free
<1>2. \A k \in Jobs \ {j} : job'[k] = Free
  BY <1>1, OneThread DEF ThreadStep, MakeTemp, SyncTemp, Replace, SyncDirectory,
                         WriteFails, OrphanEnds
<1>3. CASE MakeTemp(j) \/ SyncTemp(j)
  <2>1. job'[j].bundle = job[j].bundle /\ job[j].stage \in {"queued", "temp"}
        /\ ReadBundle' = ReadBundle
    BY <1>1, <1>3, JobTypes DEF MakeTemp, SyncTemp, JobRecords, ReadBundle
  <2> QED BY <1>2, <2>1 DEF Free, OneFieldOf
<1>4. CASE Replace(j) \/ SyncDirectory(j) \/ WriteFails(j) \/ OrphanEnds(j)
  <2>1. job'[j].stage \notin {"queued", "temp", "stable"}
    BY <1>1, <1>4, JobTypes DEF Replace, SyncDirectory, WriteFails, OrphanEnds,
                                JobRecords, Free
  <2> QED BY <1>2, <2>1 DEF Free
<1> QED BY <1>3, <1>4 DEF ThreadStep

LEMMA PendingStutter ==
    ASSUME PendingChange, UNCHANGED file,
           \A j \in Jobs : job'[j] = job[j] \/ job'[j] = Free
    PROVE  PendingChange'
BY DEF PendingChange, ReadBundle, OneFieldOf, Free

LEMMA PendingProcess ==
    ASSUME TypeOK, OpenHasMemory, Awaited, MemoryLags, PendingChange, NEW p \in Procs,
           Opening(p) \/ Request(p) \/ Answer(p) \/ CancelSave(p) \/ Kill(p)
    PROVE  PendingChange'
<1> USE DEF fileVars, storeVars
<1>1. CASE Opening(p)
  BY <1>1, PendingStutter DEF Opening, CreateKeyFile, WriteKeyFile, SyncKeyFile,
       OpenEmpty, OpenBundle, OpenFails
<1>2. CASE (\E m \in Modes : AcquireLock(p, m)) \/ ForgetState(p)
  BY <1>2, PendingStutter DEF AcquireLock, ForgetState
<1>3. ASSUME NEW b, Persist(p, b), OneFieldOf(b, memory[p]) PROVE PendingChange'
  <2>1. PICK j \in Jobs :
          job' = [job EXCEPT ![j] = [stage |-> "queued", proc |-> p, bundle |-> b]]
    BY <1>3 DEF Persist
  <2>2. UNCHANGED file /\ phase[p] = "open" /\ call[p] = None
    BY <1>3 DEF Persist
  <2>3. memory[p] = ReadBundle /\ ReadBundle' = ReadBundle
    BY <2>2 DEF MemoryLags, Replaced, ReadBundle
  <2>4. job'[j].bundle = b /\ \A k \in Jobs \ {j} : job'[k] = job[k]
    BY <2>1 DEF TypeOK
  <2>5. OneFieldOf(job'[j].bundle, ReadBundle')
    BY <1>3, <2>3, <2>4
  <2>6. \A k \in Jobs \ {j} : job'[k].stage \in {"queued", "temp", "stable"}
                             => OneFieldOf(job'[k].bundle, ReadBundle')
    BY <2>3, <2>4 DEF PendingChange
  <2> QED BY <2>5, <2>6 DEF PendingChange, OneFieldOf
<1>4. CASE Answer(p) \/ CancelSave(p) \/ Kill(p)
  BY <1>4, PendingStutter DEF Answer, SaveReturns, SaveRaises, ReleaseLock,
       CancelSave, Kill, TypeOK
<1> QED BY <1>1, <1>2, <1>3, <1>4, RequestChanges

LEMMA PendingStep ==
    ASSUME TypeOK, OpenHasMemory, Awaited, MemoryLags, PendingChange, [Next]_vars
    PROVE  PendingChange'
<1>1. CASE PowerLoss
  BY <1>1 DEF PowerLoss, PendingChange, Free
<1>2. CASE UNCHANGED vars
  BY <1>2, PendingStutter DEF vars, fileVars
<1> QED BY <1>1, <1>2, PendingThread, PendingProcess DEF Next

\* What a reader finds in a file whose content is c.
Reading(c) == IF c = NoFile THEN EmptyBundle ELSE c

LEMMA RegisterStep ==
    ASSUME TypeOK, OpenHasMemory, Awaited, Durable, MemoryLags, PendingChange,
           [Next]_vars
    PROVE  [Register!Next]_<<ReadBundle, {Reading(c) : c \in onDisk}, acked>>
<1> DEFINE absVars == <<ReadBundle, {Reading(c) : c \in onDisk}, acked>>
<1> USE DEF keyVars, fileVars, storeVars
<1>1. ASSUME UNCHANGED <<file, onDisk, acked>> PROVE UNCHANGED absVars
  BY <1>1 DEF ReadBundle
<1>2. ASSUME NEW p \in Procs, NEW b, Persist(p, b) PROVE Register!Begin
  BY <1>2 DEF Persist, ReadBundle, Register!Begin
<1>3. ASSUME NEW j \in Jobs, Replace(j) PROVE Register!Change
  <2>1. job[j].stage = "stable" /\ job[j] # Free /\ job[j].bundle \in Fields
    BY <1>3, JobTypes DEF Replace, ReadyToReplace, Free
  <2>2. ReadBundle' = job[j].bundle /\ Reading(job[j].bundle) = job[j].bundle
    BY <1>3, <2>1, FileAssumption DEF Replace, ReadBundle, Reading
  <2>3. acked = None /\ acked' = acked
    BY <1>3, <2>1 DEF Durable, SavedIsSynced, Replace
  <2>4. onDisk' = onDisk \cup {job[j].bundle}
    BY <1>3, <2>1 DEF Replace, Residue
  <2>5. {Reading(c) : c \in onDisk'} = {Reading(c) : c \in onDisk} \cup {ReadBundle'}
    BY <2>2, <2>4
  <2>6. OneFieldOf(ReadBundle', ReadBundle)
    BY <2>1, <2>2 DEF PendingChange
  <2> QED BY <2>3, <2>5, <2>6 DEF Register!Change, OneFieldOf, Reading
<1>4. ASSUME NEW j \in Jobs, SyncDirectory(j) PROVE Register!Settle
  <2>1. UNCHANGED <<file, acked>> /\ onDisk' = {file}
    BY <1>4 DEF SyncDirectory
  <2> QED BY <2>1 DEF Register!Settle, ReadBundle
<1>5. ASSUME NEW p \in Procs, SaveReturns(p) PROVE Register!Acknowledge
  <2>1. /\ job[call[p]] # Free /\ job[call[p]].stage = "saved"
        /\ call[p] \in Jobs /\ job[call[p]].bundle \in Fields
    BY <1>5, JobTypes DEF SaveReturns, TypeOK, Free
  <2>2. file = job[call[p]].bundle /\ onDisk = {file} /\ file # NoFile
    BY <2>1, FileAssumption DEF Durable, SavedIsSynced
  <2>3. acked' = file /\ UNCHANGED <<file, onDisk>>
    BY <1>5, <2>2 DEF SaveReturns
  <2> QED BY <2>2, <2>3 DEF Register!Acknowledge, ReadBundle
<1>6. ASSUME PowerLoss PROVE Register!Crash
  <2>1. file' \in onDisk /\ onDisk' = {file'} /\ acked' = acked
    BY <1>6 DEF PowerLoss
  <2> QED BY <2>1 DEF Register!Crash, ReadBundle
<1>7. ASSUME NEW j \in Jobs, ThreadStep(j), ~Replace(j), ~SyncDirectory(j)
      PROVE  UNCHANGED <<file, onDisk, acked>>
  BY <1>7 DEF ThreadStep, MakeTemp, SyncTemp, WriteFails, OrphanEnds
<1>8. ASSUME NEW p \in Procs, Opening(p) \/ Answer(p) \/ CancelSave(p) \/ Kill(p),
             ~SaveReturns(p)
      PROVE  UNCHANGED <<file, onDisk, acked>>
  BY <1>8 DEF Opening, CreateKeyFile, WriteKeyFile, SyncKeyFile, OpenEmpty,
              OpenBundle, OpenFails, Answer, SaveRaises, ReleaseLock, CancelSave, Kill
<1>9. ASSUME NEW p \in Procs, (\E m \in Modes : AcquireLock(p, m)) \/ ForgetState(p)
      PROVE  UNCHANGED <<file, onDisk, acked>>
  BY <1>9 DEF AcquireLock, ForgetState
<1>10. CASE UNCHANGED vars
  BY <1>1, <1>10 DEF vars
<1> QED BY <1>1, <1>2, <1>3, <1>4, <1>5, <1>6, <1>7, <1>8, <1>9, <1>10, RequestChanges
        DEF Next, Register!Next

\* Without cancellation and directory-sync failures the credential directory,
\* whatever its processes do, is one durable register: every change replaces
\* one field of the current bundle, and no acknowledged change is lost.
THEOREM StoreIsRegister ==
    ASSUME NoCancel, NoDirsyncFault PROVE Spec => RegisterSpec
<1>1. Init => PendingChange
  BY DEF Init, PendingChange, Free
<1>2. TypeOK /\ OpenHasMemory /\ Awaited /\ MemoryLags /\ PendingChange /\ [Next]_vars
        => PendingChange'
  BY PendingStep
<1>3. Init => Register!Init
  BY DEF Init, Register!Init, ReadBundle, EmptyBundle, Register!EmptyValue
<1>4. TypeOK /\ OpenHasMemory /\ Awaited /\ Durable /\ MemoryLags /\ PendingChange
        /\ [Next]_vars
        => [Register!Next]_<<ReadBundle, {Reading(c) : c \in onDisk}, acked>>
  BY RegisterStep
<1> QED BY <1>1, <1>2, <1>3, <1>4, MemoryInvariant, PTL
        DEF Spec, RegisterSpec, Register!Spec, Reading

-----------------------------------------------------------------------------
(* The store implements LateRegister, whatever faults happen.                 *)

\* Whoever awaits a write has the store open, and the thread is its own.
CallsAwaited ==
    \A p \in Procs : call[p] # None => /\ phase[p] = "open"
                                       /\ call[p] \in Jobs
                                       /\ job[call[p]] # Free
                                       /\ job[call[p]].proc = p

Late == OpenHasMemory /\ OneHolder /\ CallsAwaited

LEMMA CallsProcess ==
    ASSUME TypeOK, Late, NEW p \in Procs,
           Opening(p) \/ Request(p) \/ Answer(p) \/ CancelSave(p) \/ Kill(p)
    PROVE  CallsAwaited'
<1> USE DEF TypeOK, Late, CallsAwaited
<1>1. CASE Opening(p)
  <2>1. /\ phase[p] \in {"locked", "keyOpened", "keyWritten"}
        /\ UNCHANGED <<call, job>>
        /\ \A q \in Procs \ {p} : phase'[q] = phase[q]
    BY <1>1 DEF Opening, CreateKeyFile, WriteKeyFile, SyncKeyFile, OpenEmpty, OpenBundle,
           OpenFails
  <2> QED BY <2>1
<1>2. ASSUME NEW m \in Modes, AcquireLock(p, m) PROVE CallsAwaited'
  BY <1>2 DEF AcquireLock
<1>3. ASSUME NEW b \in Fields, Persist(p, b) PROVE CallsAwaited'
  <2>1. PICK j \in Jobs :
          /\ job[j] = Free
          /\ job' = [job EXCEPT ![j] = [stage |-> "queued", proc |-> p, bundle |-> b]]
          /\ call' = [call EXCEPT ![p] = j]
    BY <1>3 DEF Persist
  <2>2. UNCHANGED phase /\ phase[p] = "open"
    BY <1>3 DEF Persist, storeVars
  <2>3. job'[j] # Free /\ job'[j].proc = p
    BY <2>1 DEF Free
  <2> QED BY <2>1, <2>2, <2>3
<1>4. CASE ForgetState(p) \/ ReleaseLock(p)
  BY <1>4 DEF ForgetState, ReleaseLock
<1>5. CASE SaveReturns(p) \/ SaveRaises(p) \/ CancelSave(p)
  <2>1. /\ UNCHANGED phase /\ call' = [call EXCEPT ![p] = None]
        /\ job' \in {job, [job EXCEPT ![call[p]] = Free]}
        /\ job[call[p]].proc = p
    BY <1>5 DEF SaveReturns, SaveRaises, CancelSave, storeVars
  <2> QED BY <2>1
<1>6. CASE Kill(p)
  <2>1. \A q \in Procs \ {p} :
          call[q] # None => call'[q] = call[q] /\ job'[call[q]] = job[call[q]]
    BY <1>6 DEF Kill, JobsOf
  <2> QED BY <1>6, <2>1 DEF Kill
<1> QED BY <1>1, <1>2, <1>3, <1>4, <1>5, <1>6, RequestCases DEF Answer

LEMMA CallsThread ==
    ASSUME TypeOK, Late, NEW j \in Jobs, ThreadStep(j)
    PROVE  CallsAwaited'
<1> USE DEF TypeOK, Late, CallsAwaited
<1>1. ASSUME NEW s \in Stages, job[j] # Free,
             job' = [job EXCEPT ![j].stage = s], UNCHANGED <<phase, call>>
      PROVE  CallsAwaited'
  <2>1. job'[j].proc = job[j].proc /\ job'[j] # Free
    BY <1>1, JobTypes DEF JobRecords, Stages, Free
  <2> QED BY <1>1, <2>1
<1>2. CASE OrphanEnds(j)
  BY <1>2 DEF OrphanEnds, storeVars
<1>3. CASE MakeTemp(j) \/ SyncTemp(j) \/ Replace(j) \/ SyncDirectory(j) \/ WriteFails(j)
  BY <1>1, <1>3 DEF MakeTemp, SyncTemp, Replace, ReadyToReplace, SyncDirectory, WriteFails,
                    storeVars, Stages, Free
<1> QED BY <1>2, <1>3 DEF ThreadStep

\* Under every fault: at most one store is open, it has a bundle in memory, and
\* it awaits nobody's write but its own.
LEMMA LateInvariant == Spec => [](TypeOK /\ Late)
<1>1. Init => Late
  BY TypeInit DEF Init, Late, OneHolder, CallsAwaited
<1>2. ASSUME TypeOK, Late, [Next]_vars PROVE Late'
  <2>1. ASSUME PowerLoss \/ UNCHANGED vars PROVE CallsAwaited'
    BY <1>2, <2>1 DEF PowerLoss, vars, storeVars, Late, CallsAwaited
  <2>2. CallsAwaited'
    BY <1>2, <2>1, CallsProcess, CallsThread DEF Next
  <2> QED BY <1>2, <2>2, TypeStep, HolderStep DEF Late
<1>3. TypeOK /\ Late /\ [Next]_vars => Late'
  BY <1>2
<1> QED BY <1>1, <1>3, TypeCorrect, PTL DEF Spec

\* The bundles of the threads in some stages, when one thread moves on, ...
LEMMA BundlesMove ==
    ASSUME TypeOK, NEW S, NEW j \in Jobs, NEW b, job[j].bundle = b, job'[j].bundle = b,
           \A i \in Jobs \ {j} : job'[i] = job[i]
    PROVE  /\ job'[j].stage \in S => BundlesIn(S)' = BundlesIn(S) \cup {b}
           /\ job'[j].stage \notin S => BundlesIn(S)' \in {BundlesIn(S), BundlesIn(S) \ {b}}
           /\ job'[j].stage \notin S /\ job[j].stage \notin S
                => BundlesIn(S)' = BundlesIn(S)
           /\ job'[j].stage \in S /\ job[j].stage \in S => BundlesIn(S)' = BundlesIn(S)
BY DEF BundlesIn

\* ... when one starts, ...
LEMMA BundlesStart ==
    ASSUME TypeOK, NEW S, "free" \notin S, NEW j \in Jobs, NEW p, NEW b, job[j] = Free,
           job' = [job EXCEPT ![j] = [stage |-> "queued", proc |-> p, bundle |-> b]]
    PROVE  BundlesIn(S)' = IF "queued" \in S THEN BundlesIn(S) \cup {b} ELSE BundlesIn(S)
<1>1. job'[j].stage = "queued" /\ job'[j].bundle = b /\ job[j].stage = "free"
  BY DEF TypeOK, Free
<1>2. \A i \in Jobs \ {j} : job'[i] = job[i]
  OBVIOUS
<1> QED BY <1>1, <1>2 DEF BundlesIn

\* ... and when some end.
LEMMA BundlesEnd ==
    ASSUME TypeOK, NEW S, "free" \notin S,
           \A i \in Jobs : job'[i] = job[i] \/ job'[i] = Free
    PROVE  BundlesIn(S)' \subseteq BundlesIn(S)
BY DEF BundlesIn, Free

LEMMA BundlesEndOne ==
    ASSUME TypeOK, NEW S, "free" \notin S, NEW j \in Jobs,
           job' = [job EXCEPT ![j] = Free]
    PROVE  /\ BundlesIn(S)' \in {BundlesIn(S), BundlesIn(S) \ {job[j].bundle}}
           /\ job[j].stage \notin S => BundlesIn(S)' = BundlesIn(S)
<1>1. job'[j].stage = "free" /\ \A i \in Jobs \ {j} : job'[i] = job[i]
  BY DEF TypeOK, Free
<1> QED BY <1>1 DEF BundlesIn

\* The variables of LateRegister, as CredentialStore gives them.
Survivors == {Reading(c) : c \in onDisk}
Views == {memory[p] : p \in {q \in Procs : phase[q] = "open"}}
lateVars == <<ReadBundle, Survivors, Views, LateWrites!changes>>

UnderWay == {"queued", "temp", "stable"}

\* Steps that no caller and no power loss can tell from the end of some writes.
LEMMA LateForgets ==
    ASSUME TypeOK, UNCHANGED fileVars, Views' \in {Views, {}},
           \A i \in Jobs : job'[i] = job[i] \/ job'[i] = Free
    PROVE  LateWrites!Close
<1>1. \A S \in {UnderWay, {"replaced"}, {"saved"}} : BundlesIn(S)' \subseteq BundlesIn(S)
  BY BundlesEnd DEF UnderWay
<1>2. UNCHANGED <<ReadBundle, Survivors>>
  BY DEF fileVars, ReadBundle, Survivors
<1> QED BY <1>1, <1>2 DEF LateWrites!Close, LateWrites!Forget, UnderWay, Views, Survivors,
                          Reading

\* A thread's own steps.
LEMMA LateThread ==
    ASSUME TypeOK, NEW j \in Jobs, ThreadStep(j)
    PROVE  [LateWrites!Next]_lateVars
<1> USE DEF storeVars, fileVars
<1> PICK b : b = job[j].bundle
  OBVIOUS
<1>1. job[j] # Free /\ b \in Fields
  BY JobTypes DEF ThreadStep, MakeTemp, SyncTemp, Replace, ReadyToReplace, SyncDirectory,
                  WriteFails, OrphanEnds, Free
<1>2. ASSUME UNCHANGED <<phase, memory>> PROVE UNCHANGED Views
  BY <1>2 DEF Views
<1>3. ASSUME UNCHANGED <<file, onDisk>> PROVE UNCHANGED <<ReadBundle, Survivors>>
  BY <1>3 DEF ReadBundle, Survivors
<1>4. ASSUME NEW t, job' = [job EXCEPT ![j].stage = t]
      PROVE  /\ job'[j].stage = t /\ job'[j].bundle = b
             /\ \A i \in Jobs \ {j} : job'[i] = job[i]
  BY <1>1, <1>4, JobTypes DEF JobRecords, TypeOK
<1>5. CASE MakeTemp(j) \/ SyncTemp(j)
  <2>1. /\ job[j].stage \in UnderWay /\ job'[j].stage \in UnderWay /\ job'[j].bundle = b
        /\ \A i \in Jobs \ {j} : job'[i] = job[i]
        /\ UNCHANGED <<phase, memory, file, onDisk>>
    BY <1>4, <1>5 DEF MakeTemp, SyncTemp, UnderWay
  <2>2. /\ UNCHANGED <<BundlesIn(UnderWay), BundlesIn({"replaced"}), BundlesIn({"saved"})>>
    BY <2>1, BundlesMove DEF UnderWay
  <2> QED BY <1>2, <1>3, <2>1, <2>2 DEF lateVars, LateWrites!changes, UnderWay
<1>6. CASE Replace(j)
  <2>1. /\ job[j].stage = "stable" /\ job'[j].stage = "replaced" /\ job'[j].bundle = b
        /\ \A i \in Jobs \ {j} : job'[i] = job[i]
        /\ UNCHANGED <<phase, memory>>
    BY <1>4, <1>6 DEF Replace, ReadyToReplace
  <2>2. b \in BundlesIn(UnderWay)
    BY <2>1 DEF BundlesIn, UnderWay
  <2>3. /\ BundlesIn(UnderWay)' \in {BundlesIn(UnderWay), BundlesIn(UnderWay) \ {b}}
        /\ BundlesIn({"replaced"})' = BundlesIn({"replaced"}) \cup {b}
        /\ BundlesIn({"saved"})' = BundlesIn({"saved"})
    BY <2>1, BundlesMove DEF UnderWay
  <2>4. file' = b /\ b # NoFile /\ onDisk' = onDisk \cup {b}
    BY <1>1, <1>6, <2>1, FileAssumption DEF Replace, Residue
  <2>5. ReadBundle' = b /\ Survivors' = Survivors \cup {b}
    BY <2>4 DEF ReadBundle, Survivors, Reading
  <2>6. LateWrites!Land(b)
    BY <1>2, <2>1, <2>2, <2>3, <2>5
       DEF LateWrites!Land, UnderWay, Views, Survivors, Reading
  <2> QED BY <2>2, <2>6 DEF LateWrites!Next, UnderWay
<1>7. CASE SyncDirectory(j)
  <2>1. /\ job[j].stage = "replaced" /\ job'[j].stage = "saved" /\ job'[j].bundle = b
        /\ \A i \in Jobs \ {j} : job'[i] = job[i]
        /\ UNCHANGED <<phase, memory, file>> /\ onDisk' = {file}
    BY <1>4, <1>7 DEF SyncDirectory
  <2>2. b \in BundlesIn({"replaced"})
    BY <2>1 DEF BundlesIn
  <2>3. /\ BundlesIn(UnderWay)' = BundlesIn(UnderWay)
        /\ BundlesIn({"replaced"})' \in {BundlesIn({"replaced"}),
                                         BundlesIn({"replaced"}) \ {b}}
        /\ BundlesIn({"saved"})' = BundlesIn({"saved"}) \cup {b}
    BY <2>1, BundlesMove DEF UnderWay
  <2>4. ReadBundle' = ReadBundle /\ Survivors' = {ReadBundle}
    BY <2>1 DEF ReadBundle, Survivors, Reading
  <2>5. LateWrites!Settle(b)
    BY <1>2, <2>1, <2>2, <2>3, <2>4
       DEF LateWrites!Settle, UnderWay, Views, Survivors, Reading
  <2> QED BY <2>2, <2>5 DEF LateWrites!Next
<1>8. CASE WriteFails(j)
  <2>1. /\ job'[j].stage = "failed" /\ job'[j].bundle = b
        /\ \A i \in Jobs \ {j} : job'[i] = job[i]
        /\ UNCHANGED <<phase, memory, file, onDisk>>
    BY <1>4, <1>8 DEF WriteFails
  <2>2. /\ BundlesIn(UnderWay)' \subseteq BundlesIn(UnderWay)
        /\ BundlesIn({"replaced"})' \subseteq BundlesIn({"replaced"})
        /\ BundlesIn({"saved"})' \subseteq BundlesIn({"saved"})
    BY <2>1, BundlesMove DEF UnderWay
  <2> QED BY <1>2, <1>3, <2>1, <2>2
       DEF LateWrites!Next, LateWrites!Close, LateWrites!Forget, UnderWay, Views, Survivors,
           Reading
<1>9. CASE OrphanEnds(j)
  <2>1. job' = [job EXCEPT ![j] = Free] /\ UNCHANGED <<phase, memory, file, onDisk>>
    BY <1>9 DEF OrphanEnds
  <2> QED BY <1>2, <2>1, LateForgets DEF LateWrites!Next, TypeOK
<1> QED BY <1>5, <1>6, <1>7, <1>8, <1>9 DEF ThreadStep

\* The steps of a process.
LEMMA LateProcess ==
    ASSUME TypeOK, Late, NEW p \in Procs,
           Opening(p) \/ Request(p) \/ Answer(p) \/ CancelSave(p) \/ Kill(p)
    PROVE  [LateWrites!Next]_lateVars
<1> USE DEF storeVars, fileVars
<1>1. ASSUME UNCHANGED <<file, onDisk>> PROVE UNCHANGED <<ReadBundle, Survivors>>
  BY <1>1 DEF ReadBundle, Survivors
<1>2. ASSUME NEW S, UNCHANGED job PROVE UNCHANGED BundlesIn(S)
  BY <1>2 DEF BundlesIn
<1>3. ASSUME UNCHANGED <<file, onDisk, job>>, UNCHANGED Views PROVE UNCHANGED lateVars
  BY <1>1, <1>2, <1>3 DEF lateVars, LateWrites!changes
<1>4. CASE OpenEmpty(p) \/ OpenBundle(p)
  <2>1. /\ phase[p] # "down" /\ phase' = [phase EXCEPT ![p] = "open"]
        /\ memory' = [memory EXCEPT ![p] = ReadBundle] /\ UNCHANGED <<file, onDisk, job>>
    BY <1>4 DEF OpenEmpty, OpenBundle, ReadBundle
  <2>2. \A q \in Procs \ {p} : phase[q] = "down" /\ phase'[q] = "down"
    BY <2>1 DEF Late, OneHolder, TypeOK
  <2>3. phase[p] # "open" /\ phase'[p] = "open" /\ memory'[p] = ReadBundle
    BY <1>4, <2>1 DEF OpenEmpty, OpenBundle, TypeOK
  <2>4. Views = {} /\ Views' = {ReadBundle}
    BY <2>2, <2>3 DEF Views
  <2> QED BY <1>1, <1>2, <2>1, <2>4
       DEF LateWrites!Next, LateWrites!Open, LateWrites!changes, Views, Survivors, Reading
<1>5. CASE CreateKeyFile(p) \/ WriteKeyFile(p) \/ SyncKeyFile(p) \/ OpenFails(p)
           \/ (\E m \in Modes : AcquireLock(p, m)) \/ ReleaseLock(p)
  <2>1. UNCHANGED <<file, onDisk, job, memory>>
        /\ \A q \in Procs : phase'[q] = "open" <=> phase[q] = "open"
    BY <1>5 DEF CreateKeyFile, WriteKeyFile, SyncKeyFile, OpenFails, AcquireLock,
                ReleaseLock, TypeOK
  <2>2. UNCHANGED Views
    BY <2>1 DEF Views
  <2> QED BY <1>3, <2>1, <2>2
<1>6. ASSUME NEW b, Persist(p, b), OneFieldOf(b, memory[p]) PROVE LateWrites!Begin
  <2>1. PICK j \in Jobs :
          /\ job[j] = Free
          /\ job' = [job EXCEPT ![j] = [stage |-> "queued", proc |-> p, bundle |-> b]]
    BY <1>6 DEF Persist
  <2>2. memory[p] \in Views /\ UNCHANGED Views /\ UNCHANGED <<file, onDisk>>
    BY <1>6 DEF Persist, Views
  <2>3. /\ BundlesIn(UnderWay)' = BundlesIn(UnderWay) \cup {b}
        /\ UNCHANGED <<BundlesIn({"replaced"}), BundlesIn({"saved"})>>
    BY <2>1, BundlesStart DEF UnderWay
  <2> QED BY <1>1, <1>6, <2>2, <2>3
       DEF LateWrites!Begin, OneFieldOf, Views, Survivors, Reading, UnderWay
<1>7. CASE SaveReturns(p)
  <2> PICK j, b : j = call[p] /\ b = job[call[p]].bundle
    OBVIOUS
  <2>1. /\ phase[p] = "open" /\ j \in Jobs /\ job[j].stage = "saved"
        /\ phase' = phase /\ memory' = [memory EXCEPT ![p] = b]
        /\ job' = [job EXCEPT ![j] = Free] /\ UNCHANGED <<file, onDisk>>
    BY <1>7 DEF SaveReturns, Late, CallsAwaited
  <2>2. \A q \in Procs \ {p} : phase[q] = "down"
    BY <2>1 DEF Late, OneHolder
  <2>3. Views # {} /\ Views' = {b}
    BY <2>1, <2>2 DEF Views, TypeOK
  <2>4. b \in BundlesIn({"saved"})
    BY <2>1 DEF BundlesIn
  <2>5. /\ UNCHANGED <<BundlesIn(UnderWay), BundlesIn({"replaced"})>>
        /\ BundlesIn({"saved"})' \in {BundlesIn({"saved"}), BundlesIn({"saved"}) \ {b}}
    BY <2>1, BundlesEndOne DEF UnderWay
  <2>6. LateWrites!Acknowledge(b)
    BY <1>1, <2>1, <2>3, <2>4, <2>5
       DEF LateWrites!Acknowledge, Views, Survivors, Reading, UnderWay
  <2> QED BY <2>4, <2>6 DEF LateWrites!Next
<1>8. CASE SaveRaises(p) \/ CancelSave(p)
  <2>1. UNCHANGED <<file, onDisk, phase, memory>>
        /\ \A i \in Jobs : job'[i] = job[i] \/ job'[i] = Free
    BY <1>8 DEF SaveRaises, CancelSave, TypeOK
  <2>2. UNCHANGED Views
    BY <2>1 DEF Views
  <2> QED BY <2>1, <2>2, LateForgets DEF LateWrites!Next
<1>9. CASE ForgetState(p) \/ Kill(p)
  <2>1. /\ UNCHANGED <<file, onDisk>>
        /\ \A i \in Jobs : job'[i] = job[i] \/ job'[i] = Free
        /\ \A q \in Procs : phase'[q] = "open" => q # p /\ phase[q] = "open"
        /\ \A q \in Procs \ {p} : phase'[q] = phase[q] /\ memory'[q] = memory[q]
    BY <1>9 DEF ForgetState, Kill, TypeOK
  <2>2. Views' \in {Views, {}}
    <3>1. CASE phase[p] = "open"
      <4>1. \A q \in Procs : phase'[q] # "open"
        BY <2>1, <3>1 DEF Late, OneHolder
      <4> QED BY <4>1 DEF Views
    <3>2. CASE phase[p] # "open"
      BY <2>1, <3>2 DEF Views
    <3> QED BY <3>1, <3>2
  <2> QED BY <2>1, <2>2, LateForgets DEF LateWrites!Next
<1> QED BY <1>4, <1>5, <1>6, <1>7, <1>8, <1>9, RequestChanges
        DEF Opening, Answer, LateWrites!Next

LEMMA LatePowerLoss ==
    ASSUME PowerLoss
    PROVE  LateWrites!Crash
<1>1. file' \in onDisk /\ onDisk' = {file'}
  BY DEF PowerLoss
<1>2. ReadBundle' \in Survivors /\ Survivors' = {ReadBundle'}
  BY <1>1 DEF ReadBundle, Survivors, Reading
<1>3. Views' = {}
  BY DEF PowerLoss, Views
<1>4. \A S \in {UnderWay, {"replaced"}, {"saved"}} : BundlesIn(S)' = {}
  BY DEF PowerLoss, BundlesIn, UnderWay, Free
<1> QED BY <1>2, <1>3, <1>4 DEF LateWrites!Crash, Views, Survivors, Reading, UnderWay

\* Under every fault, cancelled saves and failing directory syncs included, the
\* credential directory keeps the promise of LateRegister: a reader finds one
\* whole bundle, somebody asked for it, one field away from what he had read,
\* and success is reported only of a change that was made durable.
THEOREM StoreIsLateRegister == Spec => LateRegisterSpec
<1>1. Init => LateWrites!Init
  <2> SUFFICES ASSUME Init PROVE LateWrites!Init
    OBVIOUS
  <2>1. \A j \in Jobs : job[j] = Free
    BY DEF Init
  <2>2. \A S \in {UnderWay, {"replaced"}, {"saved"}} : BundlesIn(S) = {}
    BY <2>1 DEF BundlesIn, UnderWay, Free
  <2>3. Views = {} /\ ReadBundle = EmptyBundle /\ Survivors = {EmptyBundle}
    BY DEF Init, Views, ReadBundle, Survivors, Reading
  <2> QED BY <2>2, <2>3
       DEF LateWrites!Init, LateWrites!EmptyValue, EmptyBundle, Views, Survivors, Reading,
           UnderWay
<1>2. ASSUME TypeOK, Late, [Next]_vars PROVE [LateWrites!Next]_lateVars
  <2>1. ASSUME UNCHANGED vars PROVE UNCHANGED lateVars
    BY <2>1 DEF vars, storeVars, fileVars, lateVars, ReadBundle, Survivors, Views,
                LateWrites!changes, BundlesIn
  <2>2. ASSUME PowerLoss PROVE LateWrites!Next
    BY <2>2, LatePowerLoss DEF LateWrites!Next
  <2> QED BY <1>2, <2>1, <2>2, LateThread, LateProcess DEF Next
<1>3. TypeOK /\ Late /\ [Next]_vars => [LateWrites!Next]_lateVars
  BY <1>2
<1> QED BY <1>1, <1>3, LateInvariant, PTL
        DEF Spec, LateRegisterSpec, LateWrites!Spec, lateVars, Survivors, Views, Reading

-----------------------------------------------------------------------------
(* The key before the bundle, as long as opening is not cut short: neither    *)
(* failing system calls nor killed processes, but cancelled saves and power   *)
(* losses at any time.                                                        *)

NoCutShort == {"io", "kill"} \cap Faults = {}

LEMMA KeyOpening ==
    ASSUME NoCutShort, TypeOK, OneHolder, KeyIsSynced, NEW p \in Procs, Opening(p)
    PROVE  KeyIsSynced'
<1> USE DEF TypeOK, OneHolder, Phases, KeyStates, fileVars, keyVars
<1>1. CASE CreateKeyFile(p)
  <2>1. keyFile = "absent" /\ keyDisk' = {"absent", "partial"} /\ keyFile' = "partial"
    BY <1>1 DEF CreateKeyFile, KeyIsSynced
  <2>2. /\ keyDisk # {"whole"} /\ "absent" \in keyDisk' /\ keyDisk' # {"whole"}
        /\ UNCHANGED <<hasKey, job, onDisk>>
    BY <1>1, <2>1 DEF CreateKeyFile, KeyIsSynced
  <2>3. \A q \in Procs : phase'[q] = "keyWritten" => phase[q] = "keyWritten"
    BY <1>1 DEF CreateKeyFile
  <2> QED BY <2>1, <2>2, <2>3 DEF KeyIsSynced
<1>2. CASE WriteKeyFile(p)
  <2>1. /\ keyDisk' = keyDisk \cup {"whole"} /\ keyFile' = "whole"
        /\ phase' = [phase EXCEPT ![p] = "keyWritten"] /\ phase[p] = "keyOpened"
        /\ UNCHANGED <<hasKey, job, onDisk>>
    BY <1>2 DEF WriteKeyFile
  <2>2. phase'[p] = "keyWritten" /\ \A q \in Procs \ {p} : phase'[q] = "down"
    BY <2>1
  <2>3. keyDisk = {"whole"} => keyDisk' = {"whole"}
    BY <2>1
  <2> QED BY <2>1, <2>2, <2>3 DEF KeyIsSynced
<1>3. CASE SyncKeyFile(p)
  <2>1. phase[p] = "keyWritten" /\ keyFile = "whole" /\ keyDisk' = {"whole"}
    BY <1>3 DEF SyncKeyFile, KeyIsSynced
  <2>2. UNCHANGED <<keyFile, hasKey, job, onDisk>>
        /\ \A q \in Procs : phase'[q] \in {"locked", "down"}
    BY <1>3, <2>1 DEF SyncKeyFile
  <2> QED BY <2>1, <2>2 DEF KeyIsSynced
<1>4. CASE OpenEmpty(p)
  <2>1. phase[p] = "locked" /\ UNCHANGED <<hasKey, job, onDisk, keyFile, keyDisk>>
        /\ phase' = [phase EXCEPT ![p] = "open"]
    BY <1>4 DEF OpenEmpty
  <2> QED BY <2>1 DEF KeyIsSynced
<1>5. CASE OpenBundle(p)
  <2>1. phase[p] = "locked" /\ keyFile = "whole" /\ UNCHANGED <<job, onDisk, keyFile, keyDisk>>
        /\ phase' = [phase EXCEPT ![p] = "open"] /\ hasKey' = [hasKey EXCEPT ![p] = TRUE]
    BY <1>5 DEF OpenBundle
  <2>2. keyDisk = {"whole"}
    BY <2>1 DEF KeyIsSynced
  <2> QED BY <2>1, <2>2 DEF KeyIsSynced
<1>6. CASE OpenFails(p)
  <2>1. phase[p] = "locked" /\ UNCHANGED <<hasKey, job, onDisk, keyFile, keyDisk>>
        /\ phase' = [phase EXCEPT ![p] = "down"]
    BY <1>6 DEF OpenFails, NoCutShort
  <2> QED BY <2>1 DEF KeyIsSynced
<1> QED BY <1>1, <1>2, <1>3, <1>4, <1>5, <1>6 DEF Opening

\* The steps that touch neither the key file nor a process that creates it.
LEMMA KeyKept ==
    ASSUME TypeOK, KeyIsSynced, UNCHANGED keyVars,
           \A p \in Procs : phase'[p] # phase[p]
                              => {phase[p], phase'[p]} \cap {"keyOpened", "keyWritten"} = {},
           \A p \in Procs : hasKey'[p] => hasKey[p],
           \A j \in Jobs : job'[j] # Free => keyDisk = {"whole"},
           onDisk' \cap Fields # {} => keyDisk = {"whole"}
    PROVE  KeyIsSynced'
<1>1. UNCHANGED <<keyFile, keyDisk>>
  BY DEF keyVars
<1>2. \A p \in Procs, s \in {"keyOpened", "keyWritten"} : phase'[p] = s <=> phase[p] = s
  OBVIOUS
<1> QED BY <1>1, <1>2 DEF KeyIsSynced

LEMMA KeyRequest ==
    ASSUME TypeOK, OpenHasMemory, KeyIsSynced, NEW p \in Procs,
           Request(p) \/ Answer(p) \/ CancelSave(p)
    PROVE  KeyIsSynced'
<1>1. UNCHANGED <<keyVars, onDisk>>
  BY RequestCases DEF AcquireLock, Persist, ForgetState, Answer, SaveReturns, SaveRaises,
                      ReleaseLock, CancelSave, fileVars
<1>2. onDisk' \cap Fields # {} => keyDisk = {"whole"}
  BY <1>1 DEF KeyIsSynced
<1>3. ASSUME NEW q \in Procs, phase'[q] # phase[q]
      PROVE  {phase[q], phase'[q]} \cap {"keyOpened", "keyWritten"} = {}
  <2>1. CASE \E m \in Modes : AcquireLock(p, m)
    BY <1>3, <2>1 DEF AcquireLock, TypeOK
  <2>2. CASE ForgetState(p) \/ ReleaseLock(p)
    BY <1>3, <2>2 DEF ForgetState, ReleaseLock, TypeOK
  <2>3. CASE (\E b \in Fields : Persist(p, b)) \/ SaveReturns(p) \/ SaveRaises(p) \/ CancelSave(p)
    BY <1>3, <2>3 DEF Persist, SaveReturns, SaveRaises, CancelSave, storeVars
  <2> QED BY <2>1, <2>2, <2>3, RequestCases DEF Answer
<1>4. ASSUME NEW q \in Procs, hasKey'[q] PROVE hasKey[q]
  <2>1. CASE ForgetState(p)
    <3>1. hasKey' = [hasKey EXCEPT ![p] = FALSE] /\ hasKey \in [Procs -> BOOLEAN]
      BY <2>1 DEF ForgetState, TypeOK
    <3> QED BY <1>4, <3>1
  <2>2. CASE ~ForgetState(p)
    <3>1. hasKey' = hasKey
      BY <2>2, RequestCases DEF AcquireLock, Persist, Answer, SaveReturns, SaveRaises,
                                ReleaseLock, CancelSave, storeVars
    <3> QED BY <1>4, <3>1
  <2> QED BY <2>1, <2>2
<1>5. ASSUME NEW j \in Jobs, job'[j] # Free PROVE keyDisk = {"whole"}
  <2>1. CASE \E b \in Fields : Persist(p, b)
    BY <2>1 DEF Persist, KeyIsSynced
  <2>2. CASE SaveReturns(p) \/ SaveRaises(p) \/ CancelSave(p)
    <3>1. job[j] # Free
      BY <1>5, <2>2 DEF SaveReturns, SaveRaises, CancelSave, TypeOK
    <3> QED BY <3>1 DEF KeyIsSynced
  <2>3. CASE (\E m \in Modes : AcquireLock(p, m)) \/ ForgetState(p) \/ ReleaseLock(p)
    BY <1>5, <2>3 DEF AcquireLock, ForgetState, ReleaseLock, KeyIsSynced
  <2> QED BY <2>1, <2>2, <2>3, RequestCases DEF Answer
<1> QED BY <1>1, <1>2, <1>3, <1>4, <1>5, KeyKept

LEMMA KeyThread ==
    ASSUME TypeOK, KeyIsSynced, NEW j \in Jobs, ThreadStep(j)
    PROVE  KeyIsSynced'
<1>1. job[j] # Free
  BY JobTypes DEF ThreadStep, MakeTemp, SyncTemp, Replace, ReadyToReplace,
                  SyncDirectory, WriteFails, OrphanEnds, Free
<1>2. keyDisk = {"whole"}
  BY <1>1 DEF KeyIsSynced
<1>3. UNCHANGED <<phase, hasKey, keyVars>>
  BY DEF ThreadStep, MakeTemp, SyncTemp, Replace, SyncDirectory, WriteFails,
         OrphanEnds, storeVars
<1> QED BY <1>2, <1>3, KeyKept

LEMMA KeyPowerLoss ==
    ASSUME TypeOK, KeyIsSynced, PowerLoss
    PROVE  KeyIsSynced'
<1>1. /\ keyFile' \in keyDisk /\ keyDisk' = {keyFile'} /\ file' \in onDisk /\ onDisk' = {file'}
      /\ \A p \in Procs : phase'[p] = "down" /\ ~hasKey'[p]
      /\ \A j \in Jobs : job'[j] = Free
  BY DEF PowerLoss
<1>2. onDisk' \cap Fields # {} => keyDisk' = {"whole"}
  BY <1>1 DEF KeyIsSynced
<1> QED BY <1>1, <1>2 DEF KeyIsSynced

\* Unless opening is cut short, no power loss leaves a bundle whose key was not
\* on disk before it.
THEOREM KeyComesFirst == ASSUME NoCutShort PROVE Spec => []KeyBeforeBundle
<1> DEFINE KeyInv == OneHolder /\ KeyIsSynced
<1>1. Init => KeyInv
  BY FileAssumption DEF Init, OneHolder, KeyIsSynced, Fields
<1>2. TypeOK /\ OpenHasMemory /\ KeyInv /\ [Next]_vars => KeyInv'
  <2> SUFFICES ASSUME TypeOK, OpenHasMemory, OneHolder, KeyIsSynced, [Next]_vars
               PROVE  KeyIsSynced'
    BY HolderStep
  <2>1. CASE UNCHANGED vars
    BY <2>1 DEF vars, storeVars, keyVars, fileVars, KeyIsSynced
  <2>2. ASSUME NEW p \in Procs, Kill(p) PROVE FALSE
    BY <2>2 DEF Kill, NoCutShort
  <2> QED BY <2>1, <2>2, KeyOpening, KeyRequest, KeyThread, KeyPowerLoss DEF Next
<1>3. KeyInv => KeyBeforeBundle
  BY DEF KeyIsSynced, KeyBeforeBundle
<1> QED BY <1>1, <1>2, <1>3, TypeCorrect, PTL DEF Spec
=============================================================================
