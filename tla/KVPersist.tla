------------------------------ MODULE KVPersist ------------------------------
(***************************************************************************)
(* What a storage node (kv/KVClass.h, kv_server.cc) keeps on disk: the     *)
(* checkpoint file that tbl_saving rewrites in place every minute, and the *)
(* log that every write is appended to before it reaches the tablet.       *)
(*                                                                         *)
(* A key is a cell of a row of its own.  Entries of different keys commute *)
(* when they are replayed, so the log is described by its newest readable  *)
(* entry of each key; a partial entry makes everything after it            *)
(* unreadable.  The checkpoint is described by the entries it holds.       *)
(*                                                                         *)
(* Failed system calls (a full disk) are counted in `faults'.              *)
(***************************************************************************)
EXTENDS Naturals

CONSTANTS Key, Value,
          Absent,       \* no such key, or a DELETE entry
          NoEntry,      \* the log says nothing of the key
          Thread,       \* handlers of Put, Delete, CPut, PPut and PDelete
          Workload,     \* what the handlers may be asked to write
          PeerTablet,   \* what TabletSync may copy from a peer
          MaxFd,        \* file descriptors the process may open for checkpoints
          MaxFaults     \* bound on `faults'

Write == [key : Key, val : Value \union {Absent}]
Tablet == [Key -> Value \union {Absent}]
Empty == [k \in Key |-> Absent]
EmptyLog == [k \in Key |-> NoEntry]

ASSUME MarkAssumption == Absent \notin Value /\ NoEntry \notin Value \union {Absent}
ASSUME WorkloadAssumption == Workload \subseteq [Thread -> Write]
ASSUME PeerAssumption == PeerTablet \subseteq Tablet
ASSUME BoundsAssumption == MaxFd \in Nat \ {0} /\ MaxFaults \in Nat

VARIABLES
  proc,     \* "off", "up", "stopping" (after SIGINT), "closing" (in close), "stopped", "failed"
  tablet,   \* the cells in memory
  saved,    \* the entries of the checkpoint file
  scrap,    \* the checkpoint file ends with a partial entry
  log,      \* the newest readable entry of each key
  torn,     \* the log ends with a partial entry
  saving,   \* tbl_saving is writing, and holds lglk
  todo,     \* keys that the last tbl_saving to open the file has not met: Key if there was none
  fds,      \* descriptors that tbl_saving has opened; it closes none
  op,       \* the write of each handler
  pc,       \* how far the handler is
  faults,   \* history: how many system calls failed
  stale,    \* history: keys whose newest write has no readable entry in the log
  raced     \* history: keys logged but not in the tablet when the last tbl_saving to open the
            \* file began

disk == <<saved, scrap, log, torn>>
saver == <<saving, todo, fds>>
vars == <<proc, tablet, disk, saver, op, pc, faults, stale, raced>>

Init ==
  /\ proc = "off"
  /\ tablet = Empty /\ saved = Empty /\ log = EmptyLog
  /\ scrap = FALSE /\ torn = FALSE
  /\ saving = FALSE /\ todo = Key /\ fds = 0
  /\ op \in Workload
  /\ pc = [t \in Thread |-> "idle"]
  /\ faults = 0 /\ stale = {} /\ raced = {}

Running == proc \in {"up", "stopping", "closing"}

\* Keys whose row lock is held by a handler between its log entry and the tablet.
InWindow == {op[t].key : t \in {t \in Thread : pc[t] = "logged"}}

\* Handler t has its row lock and is about to write its log entry.
CanAppend(t) == proc = "up" /\ pc[t] = "idle" /\ op[t].key \notin InWindow

Fault == faults < MaxFaults /\ faults' = faults + 1

-----------------------------------------------------------------------------
\* get_token returns "" whatever the line, so tbl_lding exits at the first line of a checkpoint ...
Loadable == saved = Empty /\ ~scrap

\* ... and log_operation skips every line of the log, which stays as it is.  What a peer sends is put
\* into the tablet without a log entry.
Start ==
  /\ proc = "off"
  /\ stale' = {k \in Key : log[k] # NoEntry}
  /\ IF Loadable
       THEN proc' = "up" /\ tablet' \in PeerTablet \union {Empty}
       ELSE proc' = "failed" /\ UNCHANGED tablet
  /\ UNCHANGED <<disk, saver, op, pc, faults, raced>>

\* The process is killed: a partial entry is left if a handler or tbl_saving was writing one.
Crash ==
  /\ Running
  /\ proc' = "off"
  /\ tablet' = Empty
  /\ saving' = FALSE /\ todo' = Key /\ fds' = 0
  /\ pc' = [t \in Thread |-> IF pc[t] = "logged" THEN "lost" ELSE pc[t]]
  /\ torn' \in {torn, torn \/ (~saving /\ \E t \in Thread : CanAppend(t))}
  /\ scrap' \in {scrap, scrap \/ (saving /\ \E k \in todo : tablet[k] # Absent)}
  /\ stale' = {} /\ raced' = {}
  /\ UNCHANGED <<saved, log, op, faults>>

\* sig_handler: Shutdown refuses new calls and returns when the running handlers have.
Stop ==
  /\ proc = "up" /\ InWindow = {}
  /\ proc' = "stopping"
  /\ UNCHANGED <<tablet, disk, saver, op, pc, faults, stale, raced>>

\* A close that does not join the checkpoint thread: what that thread is writing is the last save.
CloseUnjoined ==
  /\ proc = "stopping"
  /\ proc' = "closing"
  /\ UNCHANGED <<tablet, disk, saver, op, pc, faults, stale, raced>>

\* close: the checkpoint thread is joined, the tablet is saved once more.
Close ==
  /\ proc = "stopping" /\ ~saving
  /\ proc' = "closing"
  /\ UNCHANGED <<tablet, disk, saver, op, pc, faults, stale, raced>>

-----------------------------------------------------------------------------
\* The handlers.

\* The entry ends the log; behind a partial entry nobody can read it.
Log(w) ==
  IF torn
    THEN stale' = stale \union {w.key} /\ UNCHANGED log
    ELSE stale' = stale \ {w.key} /\ log' = [log EXCEPT ![w.key] = w.val]

\* An append that does not take lglk.
AppendUnlocked(t) ==
  /\ CanAppend(t)
  /\ Log(op[t])
  /\ pc' = [pc EXCEPT ![t] = "logged"]
  /\ UNCHANGED <<proc, tablet, saved, scrap, torn, saver, op, faults, raced>>

\* checkpt_log_p, del_log: under the row lock and lglk.
AppendLog(t) ==
  /\ CanAppend(t)
  /\ ~saving
  /\ Log(op[t])
  /\ pc' = [pc EXCEPT ![t] = "logged"]
  /\ UNCHANGED <<proc, tablet, saved, scrap, torn, saver, op, faults, raced>>

\* The entry is written in part or not at all; no caller looks at the result.
AppendFails(t) ==
  /\ CanAppend(t)
  /\ ~saving
  /\ Fault
  /\ torn' \in {torn, TRUE}
  /\ stale' = stale \union {op[t].key}
  /\ pc' = [pc EXCEPT ![t] = "logged"]
  /\ UNCHANGED <<proc, tablet, saved, scrap, log, saver, op, raced>>

\* A removal that leaves a marker in the cell.
ApplyMarker(t) ==
  /\ proc = "up" /\ pc[t] = "logged"
  /\ tablet' = [tablet EXCEPT ![op[t].key] = IF op[t].val = Absent THEN NoEntry ELSE op[t].val]
  /\ pc' = [pc EXCEPT ![t] = "done"]
  /\ UNCHANGED <<proc, disk, saver, op, faults, stale, raced>>

\* conduct_p, conduct_d: under the row lock only, then the handler answers OK.
Apply(t) ==
  /\ proc = "up" /\ pc[t] = "logged"
  /\ tablet' = [tablet EXCEPT ![op[t].key] = op[t].val]
  /\ pc' = [pc EXCEPT ![t] = "done"]
  /\ UNCHANGED <<proc, disk, saver, op, faults, stale, raced>>

-----------------------------------------------------------------------------
\* tbl_saving, called by do_checkpt at once and then every minute, and by close.

\* tbl_saving returns; in close, the process then ends.
EndSave == proc' = IF proc = "closing" THEN "stopped" ELSE proc

\* open with O_TRUNC: the previous checkpoint is gone.
OpenFile ==
  /\ Running /\ ~saving
  /\ fds < MaxFd /\ fds' = fds + 1
  /\ saved' = Empty /\ scrap' = FALSE
  /\ saving' = TRUE /\ todo' = Key
  /\ raced' = InWindow
  /\ UNCHANGED <<proc, tablet, log, torn, op, pc, faults, stale>>

\* No descriptor is left: tbl_saving returns before it has touched anything.
OpenFails ==
  /\ Running /\ ~saving /\ fds = MaxFd
  /\ EndSave
  /\ UNCHANGED <<tablet, disk, saver, op, pc, faults, stale, raced>>

\* The iteration meets the keys in some order, without the row locks: handlers go on.
SaveKey(k) ==
  /\ saving /\ k \in todo
  /\ todo' = todo \ {k}
  /\ saved' = [saved EXCEPT ![k] = tablet[k]]
  /\ UNCHANGED <<proc, tablet, scrap, log, torn, saving, fds, op, pc, faults, stale,
                 raced>>

\* A write fails: the file ends where it is, and the log keeps its entries.
SaveFails(k) ==
  /\ saving /\ k \in todo /\ tablet[k] # Absent
  /\ Fault
  /\ scrap' \in {scrap, TRUE}
  /\ saving' = FALSE
  /\ EndSave
  /\ UNCHANGED <<tablet, saved, log, torn, todo, fds, op, pc, stale, raced>>

\* Every entry is written: the log is emptied.
TruncateLog ==
  /\ saving /\ todo = {}
  /\ log' = EmptyLog /\ torn' = FALSE
  /\ stale' = {}
  /\ saving' = FALSE
  /\ EndSave
  /\ UNCHANGED <<tablet, saved, scrap, todo, fds, op, pc, faults, raced>>

\* ftruncate fails: the log keeps entries older than the checkpoint.
TruncateFails ==
  /\ saving /\ todo = {}
  /\ Fault
  /\ saving' = FALSE
  /\ EndSave
  /\ UNCHANGED <<tablet, disk, todo, fds, op, pc, stale, raced>>

-----------------------------------------------------------------------------
Saver ==
  \/ OpenFile \/ OpenFails
  \/ \E k \in Key : SaveKey(k) \/ SaveFails(k)
  \/ TruncateLog \/ TruncateFails

Next ==
  \/ Start \/ Crash \/ Stop \/ Close
  \/ \E t \in Thread : AppendLog(t) \/ AppendFails(t) \/ Apply(t)
  \/ Saver

Spec == Init /\ [][Next]_vars

-----------------------------------------------------------------------------
\* The types of the state; a cell of the tablet holds a value or is not there.
TypeOK ==
  /\ proc \in {"off", "up", "stopping", "closing", "stopped", "failed"}
  /\ tablet \in Tablet
  /\ saved \in Tablet
  /\ scrap \in BOOLEAN
  /\ log \in [Key -> Value \union {Absent, NoEntry}]
  /\ torn \in BOOLEAN
  /\ saving \in BOOLEAN
  /\ todo \in SUBSET Key
  /\ fds \in 0..MaxFd
  /\ op \in [Thread -> Write]
  /\ pc \in [Thread -> {"idle", "logged", "done", "lost"}]
  /\ faults \in 0..MaxFaults
  /\ stale \in SUBSET Key
  /\ raced \in SUBSET Key

\* The value a faithful reader of both files would give the key.
OnDisk(k) == IF log[k] = NoEntry THEN saved[k] ELSE log[k]

\* At any time, during a checkpoint and after a regular shutdown too, the files hold what the tablet
\* holds of a key, whatever checkpoints, handlers and failing system calls have interleaved, with
\* these exceptions:
\*  - a handler is between the key's log entry and the tablet;
\*  - its newest write has no readable log entry (`stale'): the append failed, it came after a
\*    partial entry, or the entry is of an earlier process, which log_operation does not read back;
\*  - the log has no entry of the key, and the file has not got it: the last tbl_saving to open the
\*    file has not met the key, for it goes on or has failed (`todo'), or a handler was logged and
\*    not applied when it began (`raced').
\* So a checkpoint that fails in the middle loses no write that the log has, a failing append harms
\* no key but its own unless it leaves a partial entry, and a node out of descriptors keeps its log.
CheckpointCovers ==
  Running \/ proc = "stopped" =>
    \A k \in Key \ (InWindow \union stale) :
      log[k] # NoEntry \/ k \notin todo \union raced => OnDisk(k) = tablet[k]

\* A regular shutdown leaves the tablet in the checkpoint and nothing in the log, what a peer sent
\* and the writes that the last checkpoint missed included, as long as nothing failed and the
\* process had a descriptor to spare (sig_handler, close).
CleanStop ==
  proc = "stopped" /\ faults = 0 /\ fds < MaxFd => saved = tablet /\ log = EmptyLog

\* A node can be started again on a checkpoint it has written, unless the last entry is partial:
\* "Function to load data from tablet" (tbl_lding) does not stop the process.
StartsAgain == proc = "failed" => scrap
====
