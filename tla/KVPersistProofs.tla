--------------------------- MODULE KVPersistProofs ---------------------------
(***************************************************************************)
(* The checkpoint and the log cover the tablet, for all keys, values,      *)
(* handlers and faults.  The invariant is inductive once it is joined by   *)
(* what holds inside a checkpoint (SaveInv) and inside the window between  *)
(* a handler's log entry and the tablet (WindowInv).                       *)
(***************************************************************************)
EXTENDS KVPersist, TLAPS

\* The bounds are natural numbers.
LEMMA Bounds == MaxFd \in Nat /\ MaxFaults \in Nat /\ 0 < MaxFd
BY BoundsAssumption

\* What holds while tbl_saving writes: the keys it has met are saved, except those that were logged
\* before it began and reach the tablet only now.  A process that is not up has opened no file.
SaveInv ==
  /\ saving => /\ Running
               /\ InWindow \subseteq raced
               /\ \A k \in Key \ (todo \union raced) : saved[k] = tablet[k]
  /\ proc = "off" => todo = Key

\* What holds between a handler's log entry and the tablet: the row lock keeps the handlers of a
\* key apart, and the log has the entry unless its append failed or a checkpoint has truncated it.
WindowInv ==
  \A t \in Thread :
    pc[t] = "logged" =>
      /\ proc = "up"
      /\ \A s \in Thread : pc[s] = "logged" /\ op[s].key = op[t].key => s = t
      /\ \/ op[t].key \in stale
         \/ log[op[t].key] = op[t].val
         \/ op[t].key \in raced /\ log[op[t].key] = NoEntry

IInv == TypeOK /\ SaveInv /\ WindowInv /\ CheckpointCovers

\* The initial states satisfy the invariant (the constructor of KVClass and empty files).
LEMMA InitIInv == Init => IInv
<1> SUFFICES ASSUME Init PROVE IInv
  OBVIOUS
<1> USE DEF Init
<1>1. TypeOK
  <2>1. fds \in 0..MaxFd /\ faults \in 0..MaxFaults
    BY Bounds
  <2> QED
    BY <2>1, WorkloadAssumption DEF TypeOK, Tablet, Empty, EmptyLog
<1>2. SaveInv
  BY DEF SaveInv
<1>3. WindowInv
  BY DEF WindowInv
<1>4. CheckpointCovers
  BY DEF CheckpointCovers, Running
<1> QED
  BY <1>1, <1>2, <1>3, <1>4 DEF IInv

\* The invariant is kept by every step of the node (handlers, tbl_saving, start, close, crash).
LEMMA StepIInv == IInv /\ [Next]_vars => IInv'
<1> SUFFICES ASSUME IInv, [Next]_vars PROVE IInv'
  OBVIOUS
<1> USE DEF IInv
<1>1. TypeOK'
  <2> USE DEF TypeOK, Tablet
  <2>1. CASE Start
    BY <2>1, PeerAssumption DEF Start, Loadable, disk, saver, Empty
  <2>2. CASE Crash
    <3>1. faults' \in 0..MaxFaults /\ fds' \in 0..MaxFd
      BY <2>2, Bounds DEF Crash
    <3> QED
      BY <2>2, <3>1 DEF Crash, Empty, Running
  <2>3. CASE Stop \/ Close
    BY <2>3 DEF Stop, Close, disk, saver
  <2>4. ASSUME NEW t \in Thread, AppendLog(t) \/ AppendFails(t) \/ Apply(t) PROVE TypeOK'
    <3>0. op[t].key \in Key /\ op[t].val \in Value \union {Absent}
      BY DEF Write
    <3>1. CASE AppendLog(t)
      BY <3>0, <3>1 DEF AppendLog, Log, saver
    <3>2. CASE AppendFails(t)
      <4>1. faults' \in 0..MaxFaults
        BY <3>2, Bounds DEF AppendFails, Fault
      <4>2. torn' \in BOOLEAN
        BY <3>2 DEF AppendFails
      <4> QED
        BY <3>0, <3>2, <4>1, <4>2 DEF AppendFails, saver
    <3>3. CASE Apply(t)
      BY <3>0, <3>3 DEF Apply, disk, saver
    <3> QED
      BY <2>4, <3>1, <3>2, <3>3
  <2>5. CASE OpenFile
    <3>1. faults' \in 0..MaxFaults /\ fds' \in 0..MaxFd
      BY <2>5, Bounds DEF OpenFile
    <3> QED
      BY <2>5, <3>1 DEF OpenFile, Empty, InWindow, Write
  <2>6. CASE OpenFails
    BY <2>6 DEF OpenFails, EndSave, disk, saver
  <2>7. ASSUME NEW k \in Key, SaveKey(k) \/ SaveFails(k) PROVE TypeOK'
    <3>1. CASE SaveKey(k)
      BY <3>1 DEF SaveKey
    <3>2. CASE SaveFails(k)
      <4>1. faults' \in 0..MaxFaults
        BY <3>2, Bounds DEF SaveFails, Fault
      <4>2. scrap' \in BOOLEAN
        BY <3>2 DEF SaveFails
      <4> QED
        BY <3>2, <4>1, <4>2 DEF SaveFails, EndSave
    <3> QED
      BY <2>7, <3>1, <3>2
  <2>8. CASE TruncateLog
    BY <2>8 DEF TruncateLog, EndSave, EmptyLog
  <2>9. CASE TruncateFails
    <3>1. faults' \in 0..MaxFaults /\ fds' \in 0..MaxFd
      BY <2>9, Bounds DEF TruncateFails, Fault
    <3> QED
      BY <2>9, <3>1 DEF TruncateFails, EndSave, disk
  <2>10. CASE UNCHANGED vars
    BY <2>10 DEF vars, disk, saver
  <2> QED
    BY <2>1, <2>2, <2>3, <2>4, <2>5, <2>6, <2>7, <2>8, <2>9, <2>10 DEF Next, Saver
<1>2. SaveInv' /\ WindowInv' /\ CheckpointCovers'
  <2> USE DEF SaveInv, WindowInv, CheckpointCovers, OnDisk, TypeOK, Tablet
  <2>1. CASE Start
    <3>1. \A t \in Thread : pc[t] # "logged"
      BY <2>1 DEF Start, Loadable
    <3>2. ~saving /\ todo = Key
      BY <2>1 DEF Start, Loadable, Running
    <3> QED
      BY <2>1, <3>1, <3>2 DEF Start, Loadable, disk, saver, Running
  <2>2. CASE Crash
    BY <2>2 DEF Crash, Running
  <2>3. CASE Stop
    <3>1. \A t \in Thread : pc[t] # "logged"
      BY <2>3 DEF Stop, InWindow
    <3>2. InWindow' = InWindow
      BY <2>3 DEF Stop, InWindow
    <3> QED
      BY <2>3, <3>1, <3>2 DEF Stop, disk, saver, Running
  <2>4. CASE Close
    <3>1. InWindow' = InWindow
      BY <2>4 DEF Close, InWindow
    <3> QED
      BY <2>4, <3>1 DEF Close, disk, saver, Running
  <2>5. ASSUME NEW t \in Thread, AppendLog(t) PROVE SaveInv' /\ WindowInv' /\ CheckpointCovers'
    <3>1. InWindow' = InWindow \union {op[t].key}
      BY <2>5 DEF AppendLog, CanAppend, InWindow
    <3>2. \A s \in Thread : pc[s] = "logged" => op[s].key # op[t].key
      BY <2>5 DEF AppendLog, CanAppend, InWindow
    <3>3. op[t].key \in Key
      BY DEF Write
    <3>4. SaveInv'
      BY <2>5, <3>1 DEF AppendLog, Log, CanAppend, saver
    <3>5. WindowInv'
      <4>1. /\ pc' = [pc EXCEPT ![t] = "logged"] /\ pc \in [Thread -> {"idle", "logged", "done", "lost"}]
            /\ proc' = "up" /\ op' = op /\ raced' = raced
        BY <2>5 DEF AppendLog, CanAppend
      <4>2. op[t].key \in stale' \/ log'[op[t].key] = op[t].val
        BY <2>5, <3>3 DEF AppendLog, Log
      <4>3. \A k \in Key \ {op[t].key} : (k \in stale' <=> k \in stale) /\ log'[k] = log[k]
        BY <2>5, <3>3 DEF AppendLog, Log
      <4>4. \A s \in Thread : op[s].key \in Key
        BY DEF Write
      <4>5. ASSUME NEW s \in Thread, s # t, pc'[s] = "logged"
            PROVE  pc[s] = "logged" /\ op[s].key # op[t].key /\ op[s].key \in Key
        BY <3>2, <4>1, <4>4, <4>5
      <4> QED
        BY <4>1, <4>2, <4>3, <4>5
    <3>6. CheckpointCovers'
      BY <2>5, <3>1, <3>3 DEF AppendLog, Log, CanAppend, Running, saver
    <3> QED
      BY <3>4, <3>5, <3>6
  <2>6. ASSUME NEW t \in Thread, AppendFails(t) PROVE SaveInv' /\ WindowInv' /\ CheckpointCovers'
    <3>1. \A s \in Thread : pc[s] = "logged" => op[s].key # op[t].key
      BY <2>6 DEF AppendFails, CanAppend, InWindow
    <3>2. InWindow' = InWindow \union {op[t].key}
      BY <2>6 DEF AppendFails, CanAppend, InWindow
    <3>3. SaveInv'
      BY <2>6 DEF AppendFails, CanAppend, saver
    <3>4. WindowInv'
      BY <2>6, <3>1 DEF AppendFails, CanAppend
    <3>5. CheckpointCovers'
      BY <2>6, <3>2 DEF AppendFails, CanAppend, Running, saver
    <3> QED
      BY <3>3, <3>4, <3>5
  <2>7. ASSUME NEW t \in Thread, Apply(t) PROVE SaveInv' /\ WindowInv' /\ CheckpointCovers'
    <3>1. op[t].key \in InWindow /\ InWindow' \subseteq InWindow
      BY <2>7 DEF Apply, InWindow
    <3>2. InWindow \subseteq InWindow' \union {op[t].key}
      BY <2>7 DEF Apply, InWindow
    <3>3. op[t].key \in Key /\ op[t].val # NoEntry
      BY MarkAssumption DEF Write
    <3>4. SaveInv'
      BY <2>7, <3>1, <3>3 DEF Apply, disk, saver, Running
    <3>5. WindowInv'
      BY <2>7 DEF Apply, disk
    <3>6. CheckpointCovers'
      <4>1. /\ tablet' = [tablet EXCEPT ![op[t].key] = op[t].val]
            /\ UNCHANGED <<proc, saved, log, todo, stale, raced>>
            /\ pc[t] = "logged" /\ proc = "up"
        BY <2>7 DEF Apply, disk, saver
      <4>2. ASSUME NEW k \in Key \ (InWindow' \union stale), log[k] # NoEntry \/ k \notin todo \union raced
            PROVE  OnDisk(k)' = tablet'[k]
        <5>1. CASE k = op[t].key
          <6>1. log[k] = op[t].val
            BY <4>1, <4>2, <5>1
          <6> QED
            BY <3>3, <4>1, <5>1, <6>1
        <5>2. CASE k # op[t].key
          <6>1. OnDisk(k) = tablet[k]
            BY <3>2, <4>1, <4>2, <5>2 DEF Running
          <6> QED
            BY <4>1, <5>2, <6>1
        <5> QED
          BY <5>1, <5>2
      <4> QED
        BY <4>1, <4>2
    <3> QED
      BY <3>4, <3>5, <3>6
  <2>8. CASE OpenFile
    <3>1. InWindow' = InWindow
      BY <2>8 DEF OpenFile, InWindow
    <3>2. \A s \in Thread : pc[s] = "logged" => op[s].key \in InWindow
      BY DEF InWindow
    <3> QED
      BY <2>8, <3>1, <3>2 DEF OpenFile, Running
  <2>9. CASE OpenFails
    <3>1. InWindow' = InWindow
      BY <2>9 DEF OpenFails, InWindow
    <3> QED
      BY <2>9, <3>1 DEF OpenFails, EndSave, disk, saver, Running
  <2>10. ASSUME NEW k \in Key, SaveKey(k) PROVE SaveInv' /\ WindowInv' /\ CheckpointCovers'
    <3>1. InWindow' = InWindow
      BY <2>10 DEF SaveKey, InWindow
    <3> QED
      BY <2>10, <3>1 DEF SaveKey, Running
  <2>11. ASSUME NEW k \in Key, SaveFails(k) PROVE SaveInv' /\ WindowInv' /\ CheckpointCovers'
    <3>1. InWindow' = InWindow
      BY <2>11 DEF SaveFails, InWindow
    <3> QED
      BY <2>11, <3>1 DEF SaveFails, EndSave, Running
  <2>12. CASE TruncateLog
    <3>1. InWindow' = InWindow
      BY <2>12 DEF TruncateLog, InWindow
    <3>2. \A s \in Thread : pc[s] = "logged" => op[s].key \in InWindow
      BY DEF InWindow
    <3> QED
      BY <2>12, <3>1, <3>2 DEF TruncateLog, EndSave, Running, EmptyLog
  <2>13. CASE TruncateFails
    <3>1. InWindow' = InWindow
      BY <2>13 DEF TruncateFails, InWindow
    <3> QED
      BY <2>13, <3>1 DEF TruncateFails, EndSave, Running, disk
  <2>14. CASE UNCHANGED vars
    <3>1. InWindow' = InWindow
      BY <2>14 DEF vars, InWindow
    <3> QED
      BY <2>14, <3>1 DEF vars, disk, saver, Running
  <2> QED
    BY <2>1, <2>2, <2>3, <2>4, <2>5, <2>6, <2>7, <2>8, <2>9, <2>10, <2>11, <2>12, <2>13, <2>14
    DEF Next, Saver
<1> QED
  BY <1>1, <1>2

\* The inductive invariant holds in every reachable state of the node.
LEMMA PersistInvariant == Spec => []IInv
BY InitIInv, StepIInv, PTL DEF Spec

\* The state of the node's disk and handlers keeps its types.
THEOREM PersistTypeCorrect == Spec => []TypeOK
BY PersistInvariant, PTL DEF IInv

\* Checkpoint and log together hold what the tablet holds, but for the keys CheckpointCovers names:
\* in a handler's window, without a readable log entry, or in neither file since a checkpoint has
\* truncated them (tbl_saving, checkpt_log_p, del_log, close).
THEOREM CheckpointCoversCorrect == Spec => []CheckpointCovers
BY PersistInvariant, PTL DEF IInv

-----------------------------------------------------------------------------
\* What holds inside the save of close: no handler is left to change what it has met.
CloseInv ==
  /\ proc = "closing" /\ saving => \A k \in Key \ todo : saved[k] = tablet[k]
  /\ CleanStop

LEMMA CloseStep == IInv /\ CloseInv /\ [Next]_vars => CloseInv'
<1> SUFFICES ASSUME IInv, CloseInv, [Next]_vars
             PROVE  CloseInv'
  OBVIOUS
<1>. USE DEF IInv, CloseInv, CleanStop
<1>1. CASE Start \/ Crash \/ Stop \/ Close
  BY <1>1 DEF Start, Crash, Stop, Close, disk, saver
<1>2. ASSUME NEW t \in Thread, AppendLog(t) \/ AppendFails(t) \/ Apply(t)
      PROVE  CloseInv'
  BY <1>2 DEF AppendLog, AppendFails, Apply, CanAppend
<1>3. CASE OpenFile \/ OpenFails
  BY <1>3, Bounds DEF OpenFile, OpenFails, EndSave, disk, saver, Running
<1>4. ASSUME NEW k \in Key, SaveKey(k)
      PROVE  CloseInv'
  BY <1>4 DEF SaveKey, SaveInv, Running, TypeOK, Tablet
<1>5. ASSUME NEW k \in Key, SaveFails(k)
      PROVE  CloseInv'
  BY <1>5, Bounds DEF SaveFails, Fault, EndSave, TypeOK
<1>6. CASE TruncateLog
  <2>1. proc = "closing" => saved = tablet
    BY <1>6 DEF TruncateLog, TypeOK, Tablet
  <2>. QED
    BY <1>6, <2>1 DEF TruncateLog, EndSave, SaveInv, Running
<1>7. CASE TruncateFails
  BY <1>7, Bounds DEF TruncateFails, Fault, EndSave, TypeOK
<1>8. CASE UNCHANGED vars
  BY <1>8 DEF vars, disk, saver
<1>. QED
  BY <1>1, <1>2, <1>3, <1>4, <1>5, <1>6, <1>7, <1>8 DEF Next, Saver

\* After a regular shutdown the checkpoint is the tablet, for all keys, handlers and peers
\* (sig_handler, close, tbl_saving).
THEOREM CleanStopCorrect == Spec => []CleanStop
<1>1. Init => CloseInv
  BY DEF Init, CloseInv, CleanStop
<1>2. CloseInv => CleanStop
  BY DEF CloseInv
<1>. QED
  BY <1>1, <1>2, CloseStep, PersistInvariant, PTL DEF Spec
====
