---------------------------- MODULE UpgradeProofs ----------------------------
(***************************************************************************)
(* Proofs about `elemental upgrade`, for any number of snapshots, any      *)
(* retention limit and any number of runs, failures and power losses.      *)
(*                                                                         *)
(* The heart of the invariant is the clean up stack: at every step of Run  *)
(* it holds the undo of exactly the mounts made so far, in order, and on   *)
(* top of them the job that gives the transaction up.                      *)
(***************************************************************************)
EXTENDS Upgrade, ActionProofs

-----------------------------------------------------------------------------
(* The steps of Run, by how far they have come.                            *)

Mounting  == {"off", "mountboot", "mountdata", "mountpersistent", "init"}
Starting  == {"initing", "beforehook", "start", "starting"}
Deploying == {"deploy", "refine", "close"}
Closed    == {"recovery", "posthook", "stateyaml", "recoveryyaml"}
Unwinding == {"cleanup", "completed"}
Over      == {"power", "done"}

Partitions == {"boot", "state", "recovery", "persistent"}

\* The partition mountRWPartitions makes writable besides boot and persistent.
Data == IF IsRecoveryMode THEN "state" ELSE "recovery"

\* The jobs in the order they are pushed.
Pushed == <<{"boot"}, {Data}, {"persistent"}, Abort>>

\* The stack is the beginning of that list, and what it would unmount is mounted.
Shape ==
  /\ jobs \in Seq(SUBSET Partitions)
  /\ Len(jobs) <= 4
  /\ \A i \in 1..Len(jobs) : jobs[i] = Pushed[i] /\ jobs[i] \subseteq held

\* As long as nothing has failed, the stack would undo every mount.
Undone == err = "nil" => \A p \in held : \E i \in 1..Len(jobs) : p \in jobs[i]

\* How much of it has been pushed.
Depth ==
  /\ upc \in Mounting \cup Starting \cup Deploying \cup {"closing"} \cup Closed \cup Unwinding \cup Over
  /\ upc \in {"off", "mountboot"} \cup Over => Len(jobs) = 0
  /\ upc = "mountdata" => Len(jobs) = 1
  /\ upc = "mountpersistent" => Len(jobs) = 2
  /\ upc \in {"init"} \cup Starting => Len(jobs) = 3
  /\ upc \in Deploying \cup {"closing"} \cup Closed => Len(jobs) = 4

\* Where the snapshotter is while Run is at a step.
Call ==
  /\ upc \in Mounting => pc = "off"
  /\ upc = "initing" => pc \in InitPCs
  /\ upc \in {"beforehook", "start"} => pc = "ready"
  /\ upc = "starting" => pc \in StartPCs
  /\ upc \in Deploying => pc = "open"
  /\ upc = "closing" => pc \in ClosePCs
  /\ upc \in Closed \cup {"completed", "power"} => pc = "closed"
  /\ upc = "cleanup" => pc \notin LD!Steps \/ (pc \in AbortPCs /\ Len(jobs) = 3)
  /\ upc = "done" => pc \notin LD!Steps
  /\ Len(jobs) = 4 => snapshot.ID # 0

\* When there is an error.
Error ==
  /\ err \in {"nil", "error", "panic"}
  /\ upc \notin Unwinding \cup {"done"} => err = "nil"
  /\ upc = "cleanup" => err # "nil"
  /\ upc = "completed" /\ Len(jobs) = 4 => err = "nil"

\* No state file, whatever crash it comes from, names two active snapshots.
OneActive(s) == Recorded(s) => \A a, b \in s.actives : a = b

\* The state that was written is about the snapshots on the disk.
Written ==
  /\ State = stateYaml
  /\ stateYaml.actives \subseteq {snapshot.ID}
  /\ snapshot.ID \in stateYaml.known
  /\ stateYaml.known \subseteq LD!GetSnapshots
  /\ request.recovery => stateYaml.recovery

Yaml ==
  /\ OneActive(State) /\ OneActive(stateYaml) /\ OneActive(recoveryYaml)
  /\ upc # "off" => request.recovery \in BOOLEAN
  /\ upc \in {"recoveryyaml", "completed", "power"} => Written
  /\ upc \in {"completed", "power"} => recoveryYaml = stateYaml
  /\ upc = "done" /\ err = "nil" => Written /\ recoveryYaml = stateYaml

Inv == LDInv /\ Shape /\ Undone /\ Depth /\ Call /\ Error /\ Yaml

-----------------------------------------------------------------------------
(* The clean up stack.                                                     *)

\* A mount and the push of its undo, or the push of the abort job.
LEMMA Push ==
  ASSUME Shape, Undone, Len(jobs) < 4,
         NEW job \in SUBSET Partitions, job = Pushed[Len(jobs) + 1],
         jobs' = Append(jobs, job), held' = held \cup job, booted' = booted
  PROVE  Shape' /\ Len(jobs') = Len(jobs) + 1 /\ (err' = err => Undone')
<1>1. Len(jobs) \in Nat /\ jobs \in Seq(SUBSET Partitions)
  BY LenProperties DEF Shape
<1>2. /\ jobs' \in Seq(SUBSET Partitions)
      /\ Len(jobs') = Len(jobs) + 1
      /\ \A i \in 1..Len(jobs) : jobs'[i] = jobs[i]
      /\ jobs'[Len(jobs) + 1] = job
  BY <1>1, AppendProperties
<1>3. Pushed' = Pushed
  BY DEF Pushed, Data, IsRecoveryMode
<1>4. ASSUME NEW i \in 1..Len(jobs') PROVE jobs'[i] = Pushed'[i] /\ jobs'[i] \subseteq held'
  <2>1. CASE i = Len(jobs) + 1
    BY <2>1, <1>2, <1>3
  <2>2. CASE i # Len(jobs) + 1
    <3>1. i \in 1..Len(jobs)
      BY <1>1, <1>2, <2>2
    <3>2. jobs[i] = Pushed[i] /\ jobs[i] \subseteq held
      BY <3>1 DEF Shape
    <3> QED
      BY <1>2, <1>3, <3>1, <3>2
  <2> QED
    BY <2>1, <2>2
<1>5. ASSUME err' = err, err' = "nil", NEW p \in held' PROVE \E i \in 1..Len(jobs') : p \in jobs'[i]
  <2>1. CASE p \in held
    <3>1. PICK i \in 1..Len(jobs) : p \in jobs[i]
      BY <1>5, <2>1 DEF Undone
    <3>2. i \in 1..Len(jobs') /\ p \in jobs'[i]
      BY <1>1, <1>2, <3>1
    <3> QED
      BY <3>2
  <2>2. CASE p \in job
    <3>1. Len(jobs) + 1 \in 1..Len(jobs') /\ p \in jobs'[Len(jobs) + 1]
      BY <1>1, <1>2, <2>2
    <3> QED
      BY <3>1
  <2> QED
    BY <2>1, <2>2
<1>6. Len(jobs') <= 4
  BY <1>1, <1>2
<1> QED
  BY <1>2, <1>4, <1>5, <1>6 DEF Shape, Undone

\* A job is popped, and what it unmounts is held by no job below it.
LEMMA Pop ==
  ASSUME Shape, Undone, jobs # <<>>, NEW left \in {{}, jobs[Top]},
         jobs' = RemoveAt(jobs, Top), held' = held \ (jobs[Top] \ left), booted' = booted
  PROVE  /\ Shape'
         /\ Len(jobs) \in 1..4 /\ Len(jobs') = Len(jobs) - 1
         /\ (err = "nil" /\ left = {}) => \A p \in held' : \E i \in 1..Len(jobs') : p \in jobs'[i]
<1>1. /\ Len(jobs) \in Nat \ {0} /\ jobs \in Seq(SUBSET Partitions)
      /\ jobs' \in Seq(SUBSET Partitions)
      /\ Len(jobs') = Len(jobs) - 1
      /\ \A i \in 1..(Len(jobs) - 1) : jobs'[i] = jobs[i]
  BY PopTop DEF Shape
<1>2. Pushed' = Pushed
  BY DEF Pushed, Data, IsRecoveryMode
<1>3. Len(jobs) \in 1..4
  BY <1>1 DEF Shape
<1>4. \A i \in 1..Len(jobs) : jobs[i] = Pushed[i] /\ jobs[i] \subseteq held
  BY DEF Shape
<1>5. \A i, j \in 1..4 : i # j => Pushed[i] \cap Pushed[j] = {}
  BY DEF Pushed, Data, Abort
<1>6. ASSUME NEW i \in 1..Len(jobs') PROVE jobs'[i] = Pushed'[i] /\ jobs'[i] \subseteq held'
  <2>1. i \in 1..Len(jobs) /\ i \in 1..4 /\ Len(jobs) \in 1..Len(jobs) /\ i # Len(jobs) /\ jobs'[i] = jobs[i]
    BY <1>1, <1>3, SMTT(30)
  <2>2. jobs[i] = Pushed[i] /\ jobs[i] \subseteq held /\ jobs[Len(jobs)] = Pushed[Len(jobs)]
    BY <1>4, <2>1
  <2>3. Pushed[i] \cap Pushed[Len(jobs)] = {}
    BY <1>3, <1>5, <2>1
  <2> QED
    BY <1>2, <2>1, <2>2, <2>3 DEF Top
<1>7. ASSUME err = "nil", left = {}, NEW p \in held' PROVE \E i \in 1..Len(jobs') : p \in jobs'[i]
  <2>1. PICK i \in 1..Len(jobs) : p \in jobs[i]
    BY <1>7 DEF Undone
  <2>2. i # Len(jobs)
    BY <1>7, <2>1 DEF Top
  <2>3. i \in 1..Len(jobs') /\ jobs'[i] = jobs[i]
    BY <1>1, <2>1, <2>2
  <2> QED
    BY <2>1, <2>3
<1>8. Len(jobs') <= 4
  BY <1>1, <1>3
<1> QED
  BY <1>1, <1>3, <1>6, <1>7, <1>8 DEF Shape

\* Steps that neither mount nor unmount.
LEMMA StackSame ==
  ASSUME Shape, Undone, UNCHANGED <<jobs, held, booted>>
  PROVE  Shape' /\ Len(jobs') = Len(jobs) /\ (err' = err \/ err' # "nil" => Undone')
<1>1. Pushed' = Pushed
  BY DEF Pushed, Data, IsRecoveryMode
<1> QED
  BY <1>1 DEF Shape, Undone

-----------------------------------------------------------------------------
(* The invariant but for the state files, action by action.                *)

Core == LDInv /\ Shape /\ Undone /\ Depth /\ Call /\ Error

\* The values Run and the snapshotter go through.
USE DEF Mounting, Starting, Deploying, Closed, Unwinding, Over

\* Steps of Run that leave the snapshotter and the stack alone.
LEMMA QuietKeeps ==
  ASSUME Core, UNCHANGED <<ldVars, jobs, held>>,
         (BeforeHook \/ InitReturns \/ DeploySystem \/ RefineDeployment \/ CloseUpgradeReturns
            \/ UpgradeRecovery \/ PostUpgradeHook \/ WriteStateYaml \/ WriteRecoveryYaml
            \/ CleanupReturns \/ PowerAction \/ \E r \in RecoveryUpgrades : NewUpgradeAction(r))
  PROVE  Core'
<1>1. LDInv'
  BY CallKeeps DEF Core
<1>2. UNCHANGED <<jobs, held, booted, pc, snapshot>>
  BY DEF ldVars, ldRest
<1>3. Shape' /\ Len(jobs') = Len(jobs) /\ (err' = err \/ err' # "nil" => Undone')
  BY <1>2, StackSame DEF Core
<1> USE DEF Core, Depth, Call, Error, Fail
<1>4. CASE BeforeHook \/ InitReturns \/ DeploySystem \/ RefineDeployment
  <2>1. (err' = err \/ err' # "nil") /\ Depth' /\ Call' /\ Error'
    BY <1>2, <1>4 DEF BeforeHook, InitReturns, DeploySystem, RefineDeployment, Attempt, LD!Steps, InitPCs
  <2> QED
    BY <1>1, <1>3, <2>1
<1>5. CASE CloseUpgradeReturns \/ UpgradeRecovery \/ PostUpgradeHook
  <2>1. (err' = err \/ err' # "nil") /\ Depth' /\ Call' /\ Error'
    BY <1>2, <1>5 DEF CloseUpgradeReturns, CloseReturns, UpgradeRecovery, PostUpgradeHook, PostHook, Attempt, LD!Steps
  <2> QED
    BY <1>1, <1>3, <2>1
<1>6. CASE WriteStateYaml \/ WriteRecoveryYaml
  <2>1. (err' = err \/ err' # "nil") /\ Depth' /\ Call' /\ Error'
    BY <1>2, <1>6 DEF WriteStateYaml, WriteStateFile, WriteRecoveryYaml, LD!Steps
  <2> QED
    BY <1>1, <1>3, <2>1
<1>7. CASE CleanupReturns
  <2>1. Len(jobs) = 0
    BY <1>7 DEF CleanupReturns
  <2>2. (err' = err \/ err' # "nil") /\ Depth' /\ Call' /\ Error'
    BY <1>2, <1>7, <2>1 DEF CleanupReturns, InCleanup
  <2> QED
    BY <1>1, <1>3, <2>2
<1>8. CASE PowerAction
  <2>1. upc = "power" /\ upc' = "done" /\ err = "nil" /\ err' \in {"nil", "error"} /\ pc = "closed" /\ Len(jobs) = 0
    BY <1>8 DEF PowerAction
  <2>2. Depth' /\ Call' /\ Error'
    BY <1>2, <1>3, <2>1 DEF LD!Steps
  <2> QED
    BY <1>1, <1>3, <2>1, <2>2
<1>9. CASE \E r \in RecoveryUpgrades : NewUpgradeAction(r)
  <2>1. (err' = err \/ err' # "nil") /\ Depth' /\ Call' /\ Error'
    BY <1>2, <1>9 DEF NewUpgradeAction
  <2> QED
    BY <1>1, <1>3, <2>1
<1> QED
  BY <1>4, <1>5, <1>6, <1>7, <1>8, <1>9

\* The snapshotter and the calls to it.
LEMMA CallsKeep ==
  ASSUME Core, Snapshotter \/ CallInitSnapshotter \/ CallStartTransaction \/ CallCloseTransaction
  PROVE  Core'
<1>1. UNCHANGED <<jobs, held, booted, err>>
  <2>1. CASE Snapshotter
    BY <2>1, StepFrame DEF Snapshotter, Core, LDInv
  <2>2. CASE CallInitSnapshotter \/ CallStartTransaction \/ CallCloseTransaction
    BY <2>2 DEF CallInitSnapshotter, LD!NewLoopDeviceSnapshotter, CallStartTransaction, LD!StartTransaction,
                CallCloseTransaction, LD!CloseTransaction, LD!CloseTransactionOnError
  <2> QED
    BY <2>1, <2>2
<1>2. Shape' /\ Len(jobs') = Len(jobs) /\ Undone'
  BY <1>1, StackSame DEF Core
<1>3. CASE Snapshotter
  <2>1. LDInv'
    BY <1>3, LDInvStep DEF Core, Snapshotter
  <2>2. /\ pc \in LD!Steps
        /\ pc \in InitPCs => pc' \in InitPCs /\ snapshot' = snapshot
        /\ pc \in StartPCs => pc' \in StartPCs
        /\ pc \in ClosePCs => pc' \in ClosePCs /\ snapshot'.ID = snapshot.ID
        /\ pc \in AbortPCs => pc' \in AbortPCs
    BY <1>3, StepFrame DEF Core, LDInv, Snapshotter
  <2>3. upc' = upc /\ upc \in {"initing", "starting", "closing", "cleanup"}
    BY <1>3, <2>2 DEF Core, Call, Depth, Snapshotter, LD!Steps
  <2>4. Depth' /\ Error'
    BY <1>1, <1>2, <2>3 DEF Core, Depth, Error
  <2>5. Call'
    <3>1. CASE upc \in {"initing", "starting"}
      <4>1. Len(jobs) = 3
        BY <3>1 DEF Core, Depth
      <4> QED
        BY <1>2, <2>2, <2>3, <3>1, <4>1 DEF Core, Call
    <3>2. CASE upc = "closing"
      BY <1>2, <2>2, <2>3, <3>2 DEF Core, Call
    <3>3. CASE upc = "cleanup"
      <4>1. pc' \in AbortPCs /\ Len(jobs) = 3
        BY <2>2, <3>3 DEF Core, Call
      <4> QED
        BY <1>2, <2>3, <3>3, <4>1 DEF Call
    <3> QED
      BY <2>3, <3>1, <3>2, <3>3
  <2> QED
    BY <1>2, <2>1, <2>4, <2>5 DEF Core
<1>4. CASE CallInitSnapshotter
  <2>1. LDInv'
    BY <1>4, CallKeeps DEF Core, CallInitSnapshotter
  <2>2. Depth' /\ Error' /\ Call'
    BY <1>1, <1>2, <1>4 DEF Core, Depth, Error, Call, CallInitSnapshotter, LD!NewLoopDeviceSnapshotter, InitPCs
  <2> QED
    BY <1>2, <2>1, <2>2 DEF Core
<1>5. CASE CallStartTransaction
  <2>1. LDInv' /\ pc' \in {"mkdir", "failed"}
    BY <1>5, StartFresh DEF Core, CallStartTransaction
  <2>2. Depth' /\ Error' /\ Call'
    BY <1>1, <1>2, <1>5, <2>1 DEF Core, Depth, Error, Call, CallStartTransaction, StartPCs
  <2> QED
    BY <1>2, <2>1, <2>2 DEF Core
<1>6. CASE CallCloseTransaction
  <2>1. LDInv'
    BY <1>6, CallKeeps DEF Core, CallCloseTransaction
  <2>2. pc' \in {"image", "rmsnap"} /\ snapshot' = snapshot
    BY <1>6 DEF CallCloseTransaction, LD!CloseTransaction, LD!CloseTransactionOnError, LD!object
  <2>3. Depth' /\ Error' /\ Call'
    BY <1>1, <1>2, <1>6, <2>2 DEF Core, Depth, Error, Call, CallCloseTransaction, ClosePCs
  <2> QED
    BY <1>2, <2>1, <2>3 DEF Core
<1> QED
  BY <1>3, <1>4, <1>5, <1>6

\* The steps that push.
LEMMA PushesKeep ==
  ASSUME Core, MountBoot \/ MountData \/ MountPersistent \/ StartReturns
  PROVE  Core'
<1>1. LDInv' /\ UNCHANGED <<booted, pc, snapshot>>
  BY CallKeeps DEF Core, MountBoot, MountData, MountPersistent, MountRW, StartReturns, ldVars, ldRest
<1>2. Len(jobs) \in Nat
  BY LenProperties DEF Core, Shape
<1>3. ASSUME Fail, UNCHANGED <<held, jobs>> PROVE Core'
  <2>1. Shape' /\ Len(jobs') = Len(jobs) /\ Undone'
    BY <1>1, <1>3, StackSame DEF Core, Fail
  <2>2. pc \notin LD!Steps /\ (Len(jobs) = 4 => snapshot.ID # 0)
    BY <1>3 DEF Core, Call, MountBoot, MountData, MountPersistent, MountRW, StartReturns, LD!Steps
  <2> QED
    BY <1>1, <1>3, <2>1, <2>2 DEF Core, Depth, Call, Error, Fail
<1>4. ASSUME NEW job \in SUBSET Partitions, job = Pushed[Len(jobs) + 1], Len(jobs) < 4,
             jobs' = Append(jobs, job), held' = held \cup job, err' = err
      PROVE  Shape' /\ Undone' /\ Len(jobs') = Len(jobs) + 1
  BY <1>1, <1>4, Push DEF Core
<1>5. CASE MountBoot
  <2>1. Len(jobs) = 0 /\ upc = "mountboot"
    BY <1>5 DEF Core, Depth, MountBoot, MountRW
  <2>2. CASE ~Fail
    <3>1. jobs' = Append(jobs, {"boot"}) /\ held' = held \cup {"boot"} /\ upc' = "mountdata" /\ err' = err
      BY <1>5, <2>2 DEF MountBoot, MountRW
    <3>2. {"boot"} = Pushed[Len(jobs) + 1] /\ {"boot"} \in SUBSET Partitions
      BY <2>1 DEF Pushed, Partitions
    <3>3. Shape' /\ Undone' /\ Len(jobs') = 1
      BY <1>4, <2>1, <3>1, <3>2
    <3> QED
      BY <1>1, <2>1, <3>1, <3>3 DEF Core, Depth, Call, Error
  <2> QED
    BY <1>3, <1>5, <2>2 DEF MountBoot, MountRW, Fail
<1>6. CASE MountData
  <2>1. Len(jobs) = 1 /\ upc = "mountdata"
    BY <1>6 DEF Core, Depth, MountData, MountRW
  <2>2. CASE ~Fail
    <3>1. jobs' = Append(jobs, {Data}) /\ held' = held \cup {Data} /\ upc' = "mountpersistent" /\ err' = err
      BY <1>6, <2>2 DEF MountData, MountRW, Data
    <3>2. {Data} = Pushed[Len(jobs) + 1] /\ {Data} \in SUBSET Partitions
      BY <2>1 DEF Pushed, Partitions, Data
    <3>3. Shape' /\ Undone' /\ Len(jobs') = 2
      BY <1>4, <2>1, <3>1, <3>2
    <3> QED
      BY <1>1, <2>1, <3>1, <3>3 DEF Core, Depth, Call, Error
  <2> QED
    BY <1>3, <1>6, <2>2 DEF MountData, MountRW, Fail
<1>7. CASE MountPersistent
  <2>1. Len(jobs) = 2 /\ upc = "mountpersistent"
    BY <1>7 DEF Core, Depth, MountPersistent, MountRW
  <2>2. CASE ~Fail
    <3>1. jobs' = Append(jobs, {"persistent"}) /\ held' = held \cup {"persistent"} /\ upc' = "init" /\ err' = err
      BY <1>7, <2>2 DEF MountPersistent, MountRW
    <3>2. {"persistent"} = Pushed[Len(jobs) + 1] /\ {"persistent"} \in SUBSET Partitions
      BY <2>1 DEF Pushed, Partitions
    <3>3. Shape' /\ Undone' /\ Len(jobs') = 3
      BY <1>4, <2>1, <3>1, <3>2
    <3> QED
      BY <1>1, <2>1, <3>1, <3>3 DEF Core, Depth, Call, Error
  <2> QED
    BY <1>3, <1>7, <2>2 DEF MountPersistent, MountRW, Fail
<1>8. CASE StartReturns
  <2>1. Len(jobs) = 3 /\ upc = "starting" /\ held' = held
    BY <1>8 DEF Core, Depth, StartReturns
  <2>2. CASE ~Fail
    <3>1. jobs' = Append(jobs, Abort) /\ held' = held \cup Abort /\ upc' = "deploy" /\ err' = err /\ pc = "open"
      BY <1>8, <2>1, <2>2 DEF StartReturns, Abort
    <3>2. Abort = Pushed[Len(jobs) + 1] /\ Abort \in SUBSET Partitions
      BY <2>1 DEF Pushed, Abort
    <3>3. Shape' /\ Undone' /\ Len(jobs') = 4
      BY <1>4, <2>1, <3>1, <3>2
    <3>4. snapshot.ID # 0
      BY <3>1 DEF Core, LDInv, HasID, TxPCs
    <3> QED
      BY <1>1, <2>1, <3>1, <3>3, <3>4 DEF Core, Depth, Call, Error
  <2> QED
    BY <1>3, <1>8, <2>2 DEF StartReturns, Fail
<1> QED
  BY <1>5, <1>6, <1>7, <1>8

\* The steps that pop.  The abort job only runs after an error, and then the
\* transaction has an ID: it never deletes a directory it has not made.
LEMMA PopsKeep ==
  ASSUME Core, RunUmountJob \/ RunAbortJob
  PROVE  Core'
<1>1. /\ jobs # <<>> /\ jobs' = RemoveAt(jobs, Top)
      /\ upc \in Unwinding /\ upc' = upc /\ pc \notin LD!Steps
      /\ UNCHANGED <<booted, snapshot>>
  BY DEF RunUmountJob, RunAbortJob, InCleanup, ldVars, ldRest
<1>2. CASE RunUmountJob
  <2>1. PICK left \in {{}, jobs[Top]} :
          /\ held' = held \ (jobs[Top] \ left)
          /\ err' = IF left # {} /\ err = "nil" THEN "error" ELSE err
    BY <1>2 DEF RunUmountJob
  <2>2. /\ Shape'
        /\ Len(jobs) \in 1..4 /\ Len(jobs') = Len(jobs) - 1
        /\ (err = "nil" /\ left = {}) => \A p \in held' : \E i \in 1..Len(jobs') : p \in jobs'[i]
    BY <1>1, <2>1, Pop DEF Core
  <2>3. Undone'
    BY <2>1, <2>2 DEF Undone
  <2>4. Len(jobs) # 4
    <3>1. Len(jobs) = 4 => jobs[Top] = Abort
      BY <2>2 DEF Core, Shape, Pushed, Top
    <3> QED
      BY <1>2, <3>1 DEF RunUmountJob
  <2>5. LDInv' /\ pc' = pc
    BY <1>2, CallKeeps DEF Core, RunUmountJob, ldVars
  <2>6. Depth' /\ Error'
    BY <1>1, <2>1, <2>2, <2>4 DEF Core, Depth, Error
  <2>7. Call'
    BY <1>1, <2>2, <2>4, <2>5 DEF Core, Call
  <2> QED
    BY <2>2, <2>3, <2>5, <2>6, <2>7 DEF Core
<1>3. CASE RunAbortJob
  <2>1. held' = held \ (jobs[Top] \ {}) /\ {} \in {{}, jobs[Top]} /\ err' = err
    BY <1>3 DEF RunAbortJob, Abort
  <2>2. /\ Shape'
        /\ Len(jobs) \in 1..4 /\ Len(jobs') = Len(jobs) - 1
        /\ err = "nil" => \A p \in held' : \E i \in 1..Len(jobs') : p \in jobs'[i]
    BY <1>1, <2>1, Pop DEF Core
  <2>3. Undone'
    BY <2>1, <2>2 DEF Undone
  <2>4. Len(jobs) = 4
    <3>1. jobs[Len(jobs)] = Pushed[Len(jobs)]
      BY <2>2 DEF Core, Shape
    <3>2. Pushed[1] # {} /\ Pushed[2] # {} /\ Pushed[3] # {}
      BY DEF Pushed
    <3>3. jobs[Len(jobs)] = {}
      BY <1>3 DEF RunAbortJob, Abort, Top
    <3>4. Len(jobs) = 1 \/ Len(jobs) = 2 \/ Len(jobs) = 3 \/ Len(jobs) = 4
      BY <2>2
    <3> QED
      BY <3>1, <3>2, <3>3, <3>4, Zenon
  <2>5. snapshot.ID # 0 /\ (upc = "completed" => err = "nil")
    BY <1>1, <2>4 DEF Core, Call, Error
  <2>6. pc' = (IF err = "error" THEN "rmsnap" ELSE pc) /\ UNCHANGED ldRest
    BY <1>3 DEF RunAbortJob
  <2>7. LDInv'
    <3>1. CASE err = "error"
      BY <1>1, <2>5, <2>6, <3>1, CallKeeps DEF Core
    <3>2. CASE err # "error"
      BY <2>6, <3>2, CallKeeps DEF Core, ldVars
    <3> QED
      BY <3>1, <3>2
  <2>8. Depth' /\ Error'
    BY <1>1, <2>1, <2>2, <2>4 DEF Core, Depth, Error
  <2>9. Call'
    BY <1>1, <2>2, <2>4, <2>5, <2>6 DEF Core, Call, AbortPCs
  <2> QED
    BY <2>2, <2>3, <2>7, <2>8, <2>9 DEF Core
<1> QED
  BY <1>2, <1>3

\* The end of the process, by itself or with the machine.
LEMMA EndsKeep ==
  ASSUME Core, Exit \/ Reboot
  PROVE  Core'
<1>1. LDInv' /\ pc' = "off"
  <2>1. CASE Exit /\ LD!Exit
    <3>1. LD!ProcessGone /\ UNCHANGED <<snaps, activeLink, legacy, booted>>
      BY <2>1 DEF LD!Exit, LD!disk
    <3> QED
      BY <3>1, CallKeeps DEF Core, LDInv, LD!Typed, LD!ProcessGone
  <2>2. CASE Exit /\ ~LD!Exit
    BY <2>2, CallKeeps DEF Core, Exit, ldVars
  <2>3. CASE Reboot
    <3>1. LD!ProcessGone /\ UNCHANGED <<snaps, activeLink, legacy>> /\ booted' \in LD!BootChoices
      BY <2>3 DEF Reboot, LD!Reboot, LD!disk
    <3>2. booted' \in [mode : {"live", "active", "passive", "recovery"}, id : LD!SnapIDs \cup {0}]
      BY <3>1, QueryTypes DEF Core, LDInv
    <3> QED
      BY <3>1, <3>2, CallKeeps DEF Core, LD!ProcessGone
  <2> QED
    BY <2>1, <2>2, <2>3
<1>2. upc' = "off" /\ jobs' = <<>> /\ held' = {} /\ err' = "nil"
  BY DEF Exit, Reboot, ProcessEnds
<1>3. jobs' \in Seq(SUBSET Partitions) /\ Len(jobs') = 0
  BY <1>2, EmptySeq
<1>4. Shape' /\ Undone'
  BY <1>2, <1>3 DEF Shape, Undone
<1>5. Depth' /\ Call' /\ Error'
  BY <1>1, <1>2, <1>3 DEF Depth, Call, Error
<1> QED
  BY <1>1, <1>4, <1>5 DEF Core

\* Every step keeps it.
LEMMA CoreNext == Core /\ [Next]_vars => Core'
<1> SUFFICES ASSUME Core, [Next]_vars PROVE Core'
  OBVIOUS
<1>1. CASE UNCHANGED vars
  <2>1. UNCHANGED <<ldVars, upc, jobs, held, err, snapshot, pc, booted>>
    BY <1>1 DEF vars, ldVars, ldRest
  <2>2. LDInv' /\ Shape' /\ Undone' /\ Len(jobs') = Len(jobs)
    BY <2>1, CallKeeps, StackSame DEF Core
  <2>3. Depth' /\ Error' /\ Call'
    BY <2>1, <2>2 DEF Core, Depth, Error, Call
  <2> QED
    BY <2>2, <2>3 DEF Core
<1>2. CASE BeforeHook \/ InitReturns \/ DeploySystem \/ RefineDeployment \/ CloseUpgradeReturns
            \/ UpgradeRecovery \/ PostUpgradeHook \/ WriteStateYaml \/ WriteRecoveryYaml
            \/ CleanupReturns \/ PowerAction \/ \E r \in RecoveryUpgrades : NewUpgradeAction(r)
  <2>1. UNCHANGED <<ldVars, jobs, held>>
    BY <1>2 DEF BeforeHook, InitReturns, DeploySystem, RefineDeployment, CloseUpgradeReturns, CloseReturns,
            UpgradeRecovery, PostUpgradeHook, PostHook, Attempt, WriteStateYaml, WriteStateFile,
            WriteRecoveryYaml, CleanupReturns, PowerAction, NewUpgradeAction
  <2> QED
    BY <1>2, <2>1, QuietKeeps
<1> QED
  BY <1>1, <1>2, CallsKeep, PushesKeep, PopsKeep, EndsKeep DEF Next, RunStep, SharedStep

-----------------------------------------------------------------------------
(* The state files.                                                        *)

\* What upgradeInstallStateYaml makes of a state with at most one active
\* snapshot, when the directory of the new one is there.
LEMMA UpdatedStateFacts ==
  ASSUME OneActive(State), snapshot.ID # 0, snapshot.ID \in LD!GetSnapshots,
         NEW new \in UpdatedStates
  PROVE  /\ OneActive(new)
         /\ new.actives \subseteq {snapshot.ID}
         /\ snapshot.ID \in new.known
         /\ new.known \subseteq LD!GetSnapshots
         /\ request.recovery => new.recovery
<1> DEFINE old     == IF Recorded(State) THEN State ELSE InstallState({}, {}, FALSE)
           deleted == old.known \ LD!GetSnapshots
<1>1. PICK oldActiveID \in IF old.actives = {} THEN {0} ELSE old.actives :
        new = InstallState((old.known \cup {snapshot.ID}) \ deleted,
                           ((old.actives \cup {snapshot.ID}) \ {oldActiveID}) \ deleted,
                           old.recovery \/ request.recovery)
  BY Zenon DEF UpdatedStates
<1>2. \A a, b \in old.actives : a = b
  BY DEF OneActive, InstallState
<1> HIDE DEF old
<1>3. /\ new.known = (old.known \cup {snapshot.ID}) \ deleted
      /\ new.actives = ((old.actives \cup {snapshot.ID}) \ {oldActiveID}) \ deleted
      /\ new.recovery = (old.recovery \/ request.recovery)
  BY <1>1 DEF InstallState
<1>4. new.actives \subseteq {snapshot.ID}
  BY <1>1, <1>2, <1>3
<1> QED
  BY <1>3, <1>4 DEF OneActive

\* LoadInstallState makes up no active snapshot.
LEMMA LoadedStateFacts ==
  ASSUME NEW file, OneActive(file), NEW s \in LoadInstallState(file)
  PROVE  OneActive(s)
BY DEF LoadInstallState, OneActive, Recorded, NoState, NilMap, InstallState

\* A closed transaction has left its snapshot.
LEMMA ClosedIsThere ==
  ASSUME LDInv, pc = "closed"
  PROVE  snapshot.ID # 0 /\ snapshot.ID \in LD!GetSnapshots
BY DEF LDInv, HasID, TxPCs, Imaged, LD!Typed, LD!Complete, LD!GetSnapshots

\* The files a step leaves alone stay as they are.
LEMMA YamlSame ==
  ASSUME Yaml, UNCHANGED <<State, yamls, request, snaps, snapshot>>,
         upc # "off",
         upc' \in {"recoveryyaml", "completed", "power"} => upc' = upc \/ (upc' = "power" /\ upc = "completed"),
         (upc' = "done" /\ err' = "nil") => upc \in {"completed", "power"} \/ (upc = "done" /\ err = "nil")
  PROVE  Yaml'
<1>1. Written => Written'
  BY DEF Written, yamls, LD!GetSnapshots, LD!SnapIDs
<1> QED
  BY <1>1 DEF Yaml, yamls, OneActive, Recorded

\* The steps of Run that write them.
LEMMA YamlWrites ==
  ASSUME Inv, WriteStateYaml \/ WriteRecoveryYaml
  PROVE  Yaml'
<1>1. OneActive(Torn)
  BY DEF OneActive, Recorded, Torn
<1>2. CASE WriteStateYaml
  <2>1. pc = "closed" /\ upc = "stateyaml" /\ request' = request /\ UNCHANGED <<snaps, snapshot, recoveryYaml>>
    BY <1>2 DEF Inv, Call, WriteStateYaml, WriteStateFile, ldVars, ldRest, ldDisk, yamls
  <2>2. snapshot.ID # 0 /\ snapshot.ID \in LD!GetSnapshots
    BY <2>1, ClosedIsThere DEF Inv
  <2>3. LD!GetSnapshots' = LD!GetSnapshots
    BY <2>1 DEF LD!GetSnapshots, LD!SnapIDs
  <2>4. CASE upc' = "recoveryyaml"
    <3>1. State' \in UpdatedStates /\ stateYaml' = State'
      BY <1>2, <2>4 DEF WriteStateYaml, WriteStateFile, Fail
    <3>2. /\ OneActive(State')
          /\ State'.actives \subseteq {snapshot.ID}
          /\ snapshot.ID \in State'.known
          /\ State'.known \subseteq LD!GetSnapshots
          /\ request.recovery => State'.recovery
      BY <2>2, <3>1, UpdatedStateFacts DEF Inv, Yaml
    <3>3. Written'
      BY <2>1, <2>3, <3>1, <3>2 DEF Written
    <3> QED
      BY <2>1, <2>4, <3>1, <3>2, <3>3 DEF Inv, Yaml, OneActive, Recorded
  <2>5. CASE upc' # "recoveryyaml"
    <3>1. upc' = "cleanup" /\ State' = State /\ stateYaml' \in {stateYaml, Torn}
      BY <1>2, <2>5 DEF WriteStateYaml, WriteStateFile, Fail, yamls
    <3> QED
      BY <1>1, <2>1, <3>1 DEF Inv, Yaml, OneActive, Recorded
  <2> QED
    BY <2>4, <2>5
<1>3. CASE WriteRecoveryYaml
  <2>1. upc = "recoveryyaml" /\ UNCHANGED <<request, State, stateYaml, snaps, snapshot>>
    BY <1>3 DEF WriteRecoveryYaml, ldVars, ldRest, ldDisk
  <2>2. Written /\ Written'
    BY <2>1 DEF Inv, Yaml, Written, LD!GetSnapshots, LD!SnapIDs
  <2>3. \/ recoveryYaml' = State /\ upc' = "completed"
        \/ recoveryYaml' \in {recoveryYaml, Torn} /\ upc' = "cleanup"
    BY <1>3 DEF WriteRecoveryYaml, Fail
  <2> QED
    BY <1>1, <2>1, <2>2, <2>3 DEF Inv, Yaml, Written, OneActive, Recorded
<1> QED
  BY <1>2, <1>3

\* No other step of the snapshotter or of Run disturbs what was written.
LEMMA YamlNext == Inv /\ [Next]_vars => Yaml'
<1> SUFFICES ASSUME Inv, [Next]_vars PROVE Yaml'
  OBVIOUS
<1>1. CASE UNCHANGED vars
  BY <1>1 DEF vars, ldVars, ldRest, ldDisk, yamls, Inv, Yaml, Written, LD!GetSnapshots, LD!SnapIDs, OneActive, Recorded
<1>2. CASE WriteStateYaml \/ WriteRecoveryYaml
  BY <1>2, YamlWrites
<1>3. CASE Snapshotter
  <2>1. pc \in LD!Steps
    BY <1>3, StepFrame DEF Snapshotter, Inv, LDInv
  <2>2. upc' = upc /\ upc \in {"initing", "starting", "closing", "cleanup"} /\ UNCHANGED <<State, yamls, request>>
    BY <1>3, <2>1 DEF Inv, Call, Depth, Snapshotter, LD!Steps
  <2> QED
    BY <2>2 DEF Inv, Yaml, OneActive, Recorded, yamls
<1>4. CASE CallInitSnapshotter \/ CallStartTransaction \/ CallCloseTransaction
  BY <1>4 DEF CallInitSnapshotter, CallStartTransaction, CallCloseTransaction, Inv, Yaml, OneActive, Recorded, yamls
<1>5. CASE BeforeHook \/ InitReturns \/ DeploySystem \/ RefineDeployment \/ CloseUpgradeReturns
            \/ UpgradeRecovery \/ PostUpgradeHook
  <2>1. /\ upc \in Starting \cup Deploying \cup {"closing", "recovery", "posthook"}
        /\ upc' \in Starting \cup Deploying \cup {"recovery", "posthook", "stateyaml", "cleanup"}
        /\ UNCHANGED <<State, yamls, request>>
    BY <1>5 DEF BeforeHook, InitReturns, DeploySystem, RefineDeployment, CloseUpgradeReturns, CloseReturns,
                UpgradeRecovery, PostUpgradeHook, PostHook, Attempt, Fail
  <2> QED
    BY <2>1 DEF Inv, Yaml, OneActive, Recorded, yamls
<1>6. CASE MountBoot \/ MountData \/ MountPersistent \/ StartReturns
  <2>1. /\ upc # "off" /\ upc' \in {"mountdata", "mountpersistent", "init", "deploy", "cleanup"}
        /\ UNCHANGED <<State, yamls, request>>
    BY <1>6 DEF MountBoot, MountData, MountPersistent, MountRW, StartReturns, Fail
  <2> QED
    BY <2>1 DEF Inv, Yaml, OneActive, Recorded, yamls
<1>7. CASE RunUmountJob \/ RunAbortJob
  <2>1. upc' = upc /\ upc \in Unwinding /\ UNCHANGED <<State, yamls, request, snaps, snapshot>>
    BY <1>7 DEF RunUmountJob, RunAbortJob, InCleanup, ldVars, ldRest, ldDisk
  <2> QED
    BY <2>1, YamlSame DEF Inv
<1>8. CASE CleanupReturns
  <2>1. /\ upc \in Unwinding /\ UNCHANGED <<State, yamls, request, snaps, snapshot, err>>
        /\ upc' = IF upc = "completed" /\ err = "nil" THEN "power" ELSE "done"
    BY <1>8 DEF CleanupReturns, InCleanup, ldVars, ldRest, ldDisk
  <2>2. upc = "cleanup" => err # "nil"
    BY DEF Inv, Error
  <2> QED
    BY <2>1, <2>2, YamlSame DEF Inv
<1>9. CASE PowerAction
  <2>1. upc = "power" /\ upc' = "done" /\ UNCHANGED <<State, yamls, request, snaps, snapshot>>
    BY <1>9 DEF PowerAction, ldVars, ldRest, ldDisk
  <2> QED
    BY <2>1, YamlSame DEF Inv
<1>10. CASE Exit \/ Reboot
  <2>1. upc' = "off" /\ State' = NoState /\ UNCHANGED yamls
    BY <1>10 DEF Exit, Reboot, ProcessEnds
  <2> QED
    BY <2>1 DEF Inv, Yaml, OneActive, Recorded, NoState, yamls
<1>11. CASE \E r \in RecoveryUpgrades : NewUpgradeAction(r)
  <2>1. PICK r \in RecoveryUpgrades : NewUpgradeAction(r)
    BY <1>11
  <2>2. request'.recovery \in BOOLEAN /\ upc' = "mountboot" /\ UNCHANGED yamls
    BY <2>1, RequestsAssumption DEF NewUpgradeAction
  <2>3. PICK file \in {recoveryYaml, stateYaml} : State' \in LoadInstallState(file)
    BY <2>1 DEF NewUpgradeAction
  <2>4. OneActive(State')
    BY <2>3, LoadedStateFacts DEF Inv, Yaml
  <2> QED
    BY <2>2, <2>4 DEF Inv, Yaml, OneActive, Recorded, yamls
<1> QED
  BY <1>1, <1>2, <1>3, <1>4, <1>5, <1>6, <1>7, <1>8, <1>9, <1>10, <1>11 DEF Next, RunStep, SharedStep

-----------------------------------------------------------------------------
(* The theorems.                                                           *)

\* The invariant holds in the first states.
LEMMA InvInit == Init => Inv
<1> SUFFICES ASSUME Init PROVE Inv
  OBVIOUS
<1>1. LDInv /\ pc = "off"
  BY LDInvInit DEF Init, Idle, LD!Init
<1>2. upc = "off" /\ jobs = <<>> /\ held = {} /\ err = "nil"
  BY DEF Init, Idle
<1>3. jobs \in Seq(SUBSET Partitions) /\ Len(jobs) = 0
  BY <1>2, EmptySeq
<1>4. Shape /\ Undone
  BY <1>2, <1>3 DEF Shape, Undone
<1>5. Depth /\ Call /\ Error
  BY <1>1, <1>2, <1>3 DEF Depth, Call, Error
<1>6. Yaml
  BY <1>2 DEF Yaml, OneActive, Recorded, Init, Idle, NoState, InstallState
<1> QED
  BY <1>1, <1>4, <1>5, <1>6 DEF Inv

\* It is an invariant of upgrade.
LEMMA InvHolds == Spec => []Inv
<1>1. Inv /\ [Next]_vars => Inv'
  BY CoreNext, YamlNext DEF Inv, Core
<1> QED
  BY <1>1, InvInit, PTL DEF Spec

\* Whatever fails, the snapshotter only works while the partitions it writes to
\* are writable: the stack unwinds from the top.
THEOREM SnapshotterIsOnMounted == Spec => []SnapshotterOnMounted
<1>1. Inv => SnapshotterOnMounted
  <2> SUFFICES ASSUME Inv, pc \in LD!Steps
               PROVE  {"boot"} \cup (IF IsRecoveryMode THEN {"state"} ELSE {}) \subseteq held
    BY DEF SnapshotterOnMounted
  <2>1. upc \in {"initing", "starting", "closing", "cleanup"}
    BY DEF Inv, Call, Depth, LD!Steps
  <2>2. Len(jobs) = 3 \/ Len(jobs) = 4
    BY <2>1 DEF Inv, Call, Depth
  <2>3. Pushed[1] \subseteq held /\ Pushed[2] \subseteq held
    <3>1. 1 \in 1..Len(jobs) /\ 2 \in 1..Len(jobs)
      BY <2>2
    <3>2. \A i \in 1..Len(jobs) : Pushed[i] \subseteq held
      BY DEF Inv, Shape
    <3> QED
      BY <3>1, <3>2
  <2> QED
    BY <2>3 DEF Pushed, Data
<1> QED
  BY <1>1, InvHolds, PTL

\* A run that succeeds has undone its mounts and written two equal state files
\* that are true of the disk.
THEOREM SuccessIsRecorded == Spec => []SuccessRecorded
<1>1. Inv => SuccessRecorded
  <2> SUFFICES ASSUME Inv, upc = "done", err = "nil" PROVE SuccessRecorded
    BY DEF SuccessRecorded, Succeeded
  <2>1. Len(jobs) = 0
    BY DEF Inv, Depth
  <2>2. held = {}
    BY <2>1 DEF Inv, Undone
  <2>3. Written /\ recoveryYaml = stateYaml
    BY DEF Inv, Yaml
  <2> QED
    BY <2>2, <2>3 DEF SuccessRecorded, Written
<1> QED
  BY <1>1, InvHolds, PTL

\* Once both state files are written nothing that fails afterwards makes the
\* clean up discard the new snapshot.
THEOREM CompletedIsNotUndone == Spec => CompletedIsFinal
<1>1. Inv /\ [Next]_vars => [upc = "completed" => UNCHANGED <<snaps, activeLink>>]_vars
  <2> SUFFICES ASSUME Inv, Next, upc = "completed" PROVE UNCHANGED <<snaps, activeLink>>
    OBVIOUS
  <2>1. pc = "closed"
    BY DEF Inv, Call
  <2>2. ~Snapshotter
    BY <2>1, StepFrame DEF Inv, LDInv, Snapshotter, LD!Steps
  <2>3. CASE RunUmountJob \/ RunAbortJob \/ CleanupReturns
    BY <2>3 DEF RunUmountJob, RunAbortJob, CleanupReturns, ldVars, ldRest, ldDisk
  <2>4. CASE Reboot
    BY <2>4 DEF Reboot, LD!Reboot, LD!disk
  <2>5. ~ (\/ CallInitSnapshotter \/ InitReturns \/ BeforeHook \/ CallStartTransaction \/ StartReturns
           \/ DeploySystem \/ RefineDeployment \/ CallCloseTransaction \/ WriteRecoveryYaml \/ PowerAction)
    BY DEF CallInitSnapshotter, InitReturns, BeforeHook, CallStartTransaction, StartReturns, DeploySystem,
           RefineDeployment, CallCloseTransaction, WriteRecoveryYaml, PowerAction, Attempt
  <2>6. ~ (\/ MountBoot \/ MountData \/ MountPersistent \/ CloseUpgradeReturns \/ UpgradeRecovery
           \/ PostUpgradeHook \/ WriteStateYaml \/ Exit \/ \E r \in RecoveryUpgrades : NewUpgradeAction(r))
    BY DEF MountBoot, MountData, MountPersistent, MountRW, CloseUpgradeReturns, CloseReturns, UpgradeRecovery,
           PostUpgradeHook, PostHook, Attempt, WriteStateYaml, Exit, NewUpgradeAction
  <2> QED
    BY <2>2, <2>3, <2>4, <2>5, <2>6 DEF Next, RunStep, SharedStep
<1> QED
  BY <1>1, InvHolds, PTL DEF Spec, CompletedIsFinal

\* Without a legacy deployment, no step of any sequence of upgrades, failed ones
\* included, writes to the snapshot the system runs from.
THEOREM RunningIsKept == ~LegacyDisk => (Spec => RunningKept)
<1>1. ~LegacyDisk /\ Init => Apart
  <2> SUFFICES ASSUME ~LegacyDisk, Init PROVE Apart
    OBVIOUS
  <2>1. \A b \in LD!BootChoices : b.id # 0 => LD!Complete(b.id)
    BY DEF LD!BootChoices
  <2>2. booted.id # 0 => LD!Complete(booted.id)
    BY <2>1 DEF Init, Idle, LD!Init
  <2> QED
    BY <2>2 DEF Init, Idle, LD!Init, LD!NoSnapshot, Apart
<1>2. Inv /\ Apart /\ [Next]_vars =>
        Apart' /\ [(booted' = booted /\ booted.id # 0) => snaps'[booted.id] = snaps[booted.id]]_vars
  <2> SUFFICES ASSUME Inv, Apart, [Next]_vars
               PROVE  Apart' /\ (booted' = booted => BootedSame)
    BY DEF BootedSame
  <2> USE DEF Inv
  <2>1. CASE UNCHANGED ldVars
    BY <2>1, ApartCall
  <2>2. CASE Snapshotter
    BY <2>2, ApartStep DEF Snapshotter
  <2>3. CASE CallInitSnapshotter \/ CallStartTransaction \/ CallCloseTransaction
    BY <2>3, ApartCall DEF CallInitSnapshotter, CallStartTransaction, CallCloseTransaction
  <2>4. CASE RunAbortJob
    <3>1. UNCHANGED ldRest /\ pc' \in {pc, "rmsnap"}
      BY <2>4 DEF RunAbortJob
    <3> QED
      BY <3>1, ApartCall DEF ldVars
  <2>5. CASE Exit
    BY <2>5, ApartCall DEF Exit
  <2>6. CASE Reboot
    <3>1. LD!Reboot
      BY <2>6 DEF Reboot
    <3>2. snaps' = snaps
      BY <3>1 DEF LD!Reboot, LD!disk
    <3> QED
      BY <3>1, <3>2, ApartCall DEF BootedSame
  <2>7. CASE \/ UNCHANGED vars
             \/ BeforeHook \/ InitReturns \/ DeploySystem \/ RefineDeployment \/ CloseUpgradeReturns
             \/ UpgradeRecovery \/ PostUpgradeHook \/ WriteStateYaml \/ WriteRecoveryYaml
             \/ CleanupReturns \/ PowerAction \/ \E r \in RecoveryUpgrades : NewUpgradeAction(r)
    <3>1. UNCHANGED ldVars
      BY <2>7 DEF vars, BeforeHook, InitReturns, DeploySystem, RefineDeployment, CloseUpgradeReturns, CloseReturns,
            UpgradeRecovery, PostUpgradeHook, PostHook, Attempt, WriteStateYaml, WriteStateFile,
            WriteRecoveryYaml, CleanupReturns, PowerAction, NewUpgradeAction
    <3> QED
      BY <2>1, <3>1
  <2>8. CASE MountBoot \/ MountData \/ MountPersistent \/ StartReturns \/ RunUmountJob
    <3>1. UNCHANGED ldVars
      BY <2>8 DEF MountBoot, MountData, MountPersistent, MountRW, StartReturns, RunUmountJob
    <3> QED
      BY <2>1, <3>1
  <2> QED
    BY <2>2, <2>3, <2>4, <2>5, <2>6, <2>7, <2>8 DEF Next, RunStep, SharedStep
<1>3. Spec => Init /\ []Inv /\ [][Next]_vars
  BY InvHolds, PTL DEF Spec
<1> QED
  BY <1>1, <1>2, <1>3, PTL DEF RunningKept
=============================================================================
