------------------------------- MODULE Backups --------------------------------
(***************************************************************************)
(* The backup engine and its scheduler (src/src/modules/backups).          *)
(*                                                                         *)
(* A backup is a row of the Backup table and a dump file named after it.   *)
(* An admin creates, deletes and restores backups; the scheduler creates   *)
(* one per slot and applies the retention count.  Two in-memory flags and  *)
(* the PENDING and RUNNING rows keep a second run out.  A dump holds the   *)
(* database as it was, the Backup table and the scheduler's own last-run   *)
(* mark included, and a restore brings all of it back.  One process runs;  *)
(* a crash loses its flags and its requests, and at boot it marks active   *)
(* rows FAILED.  One database statement or one external tool is one step.  *)
(***************************************************************************)
EXTENDS Integers, FiniteSets

CONSTANTS
  Handlers,    \* admin requests in flight at the same time
  Scheduler,   \* the scheduler's tick
  Keep,        \* backup_retention
  MaxBackups,  \* bound: backups made; then the disk is full
  MaxCalls,    \* bound: admin requests
  MaxSlots,    \* bound: slots of the schedule
  MaxFailures  \* bound: crashes, tools and statements that fail

ASSUME ProcsFinite == IsFiniteSet(Handlers) /\ Scheduler \notin Handlers
ASSUME KeepPos     == Keep \in Nat \ {0}
ASSUME BoundsNat   == MaxBackups \in Nat /\ MaxCalls \in Nat /\ MaxSlots \in Nat /\ MaxFailures \in Nat

VARIABLES
  rows,       \* the Backup table; ids are in the order of created_at
  files,      \* dump files on disk
  dumps,      \* what each dump holds
  lastRun,    \* PlatformConfig.backup_last_run_at, as the slot it served
  slot,       \* the most recent slot of the schedule
  running, restoring,   \* the flags of BackupsService
  task,       \* requests and the tick
  calls, begun, failures,  \* counters of the bounds
  scheduled,  \* history: SCHEDULED backups ever made
  restored,   \* history: a restore came to pg_restore
  parted      \* history: a crash came between a file and its row

flags   == <<running, restoring>>
tables  == <<rows, lastRun>>
bounds  == <<calls, begun, failures>>
history == <<scheduled, restored, parted>>
vars    == <<rows, files, dumps, lastRun, slot, running, restoring, task, calls,
             begun, failures, scheduled, restored, parted>>

BackupIds == 1..MaxBackups
Procs     == Handlers \cup {Scheduler}
Active    == {"PENDING", "RUNNING"}

\* file: db_file is set.
BackupRows == [status : {"absent", "PENDING", "RUNNING", "COMPLETED", "FAILED"},
               kind : {"MANUAL", "SCHEDULED", "PRE_RESTORE"}, file : BOOLEAN]
Tables     == [BackupIds -> BackupRows]
NoBackup   == [status |-> "absent", kind |-> "MANUAL", file |-> FALSE]
Empty      == [b \in BackupIds |-> NoBackup]

\* mine: the backup being made; src: the one to restore; todo: those to delete;
\* snap: the rows as read; slot: the slot the tick is for.
Tasks == [pc : {"idle", "find", "rcount", "tools", "due", "mark", "count",
                "insert", "start", "dump", "finish", "fail", "retain", "unlink",
                "drop", "snapshot", "replay", "resync", "end"},
          op : {"none", "create", "restore", "tick", "delete"},
          mine : 0..MaxBackups, src : 0..MaxBackups, todo : SUBSET BackupIds,
          snap : Tables, slot : 0..MaxSlots]
NoTask == [pc |-> "idle", op |-> "none", mine |-> 0, src |-> 0, todo |-> {},
           snap |-> Empty, slot |-> 0]

TypeOK ==
  /\ rows \in Tables /\ files \subseteq BackupIds
  /\ dumps \in [BackupIds -> [rows : Tables, lastRun : 0..MaxSlots]]
  /\ lastRun \in 0..MaxSlots /\ slot \in 0..MaxSlots
  /\ running \in BOOLEAN /\ restoring \in BOOLEAN
  /\ task \in [Procs -> Tasks]
  /\ calls \in 0..MaxCalls /\ begun \in 0..MaxBackups /\ failures \in 0..MaxFailures
  /\ scheduled \in Nat /\ restored \in BOOLEAN /\ parted \in BOOLEAN

Init ==
  /\ rows = Empty /\ files = {}
  /\ dumps = [b \in BackupIds |-> [rows |-> Empty, lastRun |-> 0]]
  /\ lastRun = 0 /\ slot = 0 /\ running = FALSE /\ restoring = FALSE
  /\ task = [p \in Procs |-> NoTask]
  /\ calls = 0 /\ begun = 0 /\ failures = 0 /\ scheduled = 0 /\ restored = FALSE /\ parted = FALSE

-------------------------------------------------------------------------------
Stands(p, pc) == task[p].pc = pc
Become(p, t)  == task' = [task EXCEPT ![p] = t]
Goto(p, pc)   == Become(p, [task[p] EXCEPT !.pc = pc])
CanFail       == failures < MaxFailures /\ failures' = failures + 1

Quiescent   == \A p \in Procs : Stands(p, "idle")
ActiveRows  == {b \in BackupIds : rows[b].status \in Active}
Present(b)  == rows[b].status # "absent"
SetRow(b,x) == rows' = [rows EXCEPT ![b] = x]

NoDump        == [rows |-> Empty, lastRun |-> 0]
RemoveFile(b) == files' = files \ {b} /\ dumps' = [dumps EXCEPT ![b] = NoDump]

\* start() refuses: the tick and create end, a restore takes its flag down.
Refused(t) == IF t.op = "restore" THEN [t EXCEPT !.pc = "end", !.mine = 0] ELSE NoTask

\* The flags are tested as isBusy is called, the rows one await later.
EnterStart(t) ==
  IF running \/ (restoring /\ t.op # "restore") THEN Refused(t)
  ELSE [t EXCEPT !.pc = "count"]

\* What follows a run: nothing, the retention, or the rest of the restore.
AfterRun(t, completed) ==
  CASE t.op = "create"  -> NoTask
    [] t.op = "tick"    -> [t EXCEPT !.pc = "retain", !.mine = 0]
    [] t.op = "restore" -> [t EXCEPT !.pc = IF completed THEN "snapshot" ELSE "end", !.mine = 0]

KindOf(t) == CASE t.op = "create"  -> "MANUAL"
               [] t.op = "tick"    -> "SCHEDULED"
               [] t.op = "restore" -> "PRE_RESTORE"

-------------------------------------------------------------------------------
(***************************************************************************)
(* Requests                                                                *)
(***************************************************************************)
Requested(p, t) ==
  /\ Stands(p, "idle") /\ calls < MaxCalls /\ calls' = calls + 1 /\ Become(p, t)
  /\ UNCHANGED <<tables, files, dumps, slot, flags, begun, failures, history>>

CreateRequest(p) == Requested(p, EnterStart([NoTask EXCEPT !.op = "create"]))

\* restore: only a completed backup with a file.
RestoreRequest(p, b) ==
  /\ rows[b].status = "COMPLETED" /\ rows[b].file
  /\ Requested(p, [NoTask EXCEPT !.op = "restore", !.src = b, !.pc = "find"])

DeleteRequest(p, b) ==
  /\ Present(b) /\ b \notin ActiveRows
  /\ Requested(p, [NoTask EXCEPT !.op = "delete", !.todo = {b}, !.snap = rows, !.pc = "unlink"])

NextSlot ==
  /\ slot < MaxSlots /\ slot' = slot + 1
  /\ UNCHANGED <<tables, files, dumps, flags, task, bounds, history>>

\* isSlotDue
Due(served) == served < slot

\* tick: a slot that is due and an engine that is not busy.
Tick ==
  /\ Stands(Scheduler, "idle") /\ Due(lastRun) /\ ~running /\ ~restoring
  /\ Become(Scheduler, [NoTask EXCEPT !.op = "tick", !.slot = slot, !.pc = "due"])
  /\ UNCHANGED <<tables, files, dumps, slot, flags, bounds, history>>

TickCount ==
  /\ Stands(Scheduler, "due")
  /\ IF ActiveRows # {} THEN Become(Scheduler, NoTask) ELSE Goto(Scheduler, "mark")
  /\ UNCHANGED <<tables, files, dumps, slot, flags, bounds, history>>

\* MUTANT: a run does not claim its slot.
MarkNothing ==
  /\ Stands(Scheduler, "mark")
  /\ Become(Scheduler, EnterStart([task[Scheduler] EXCEPT !.slot = 0]))
  /\ UNCHANGED <<tables, files, dumps, slot, flags, bounds, history>>

\* markScheduledRun: the slot is claimed before the run.
Mark ==
  /\ Stands(Scheduler, "mark") /\ lastRun' = task[Scheduler].slot
  /\ Become(Scheduler, EnterStart([task[Scheduler] EXCEPT !.slot = 0]))
  /\ UNCHANGED <<rows, files, dumps, slot, flags, bounds, history>>

-------------------------------------------------------------------------------
(***************************************************************************)
(* start and run                                                           *)
(***************************************************************************)
\* isBusy's count, then the disk guard.
Count(p) ==
  /\ Stands(p, "count")
  /\ \/ ActiveRows # {} /\ Become(p, Refused(task[p]))
     \/ ActiveRows = {} /\ begun < MaxBackups /\ Goto(p, "insert")
     \/ ActiveRows = {} /\ begun = MaxBackups /\ Become(p, Refused(task[p]))
  /\ UNCHANGED <<tables, files, dumps, slot, flags, bounds, history>>

\* The row, and with it the process-level slot.
Insert(p) ==
  LET b == begun + 1 IN
  /\ Stands(p, "insert")
  /\ IF begun = MaxBackups
     THEN Become(p, Refused(task[p])) /\ UNCHANGED <<rows, begun, running, scheduled>>
     ELSE /\ SetRow(b, [status |-> "PENDING", kind |-> KindOf(task[p]), file |-> FALSE])
          /\ begun' = b /\ running' = TRUE
          /\ scheduled' = scheduled + (IF task[p].op = "tick" THEN 1 ELSE 0)
          /\ Become(p, [task[p] EXCEPT !.pc = "start", !.mine = b])
  /\ UNCHANGED <<files, dumps, lastRun, slot, restoring, calls, failures, restored, parted>>

\* RUNNING, unless a restore has taken the row away; then the tool probe.
StartRun(p) ==
  LET b == task[p].mine IN
  /\ Stands(p, "start")
  /\ IF Present(b) THEN SetRow(b, [rows[b] EXCEPT !.status = "RUNNING"]) /\ Goto(p, "dump")
                   ELSE Goto(p, "fail") /\ UNCHANGED rows
  /\ UNCHANGED <<files, dumps, lastRun, slot, flags, bounds, history>>

\* pg_dump: a consistent snapshot of the database.
Dump(p) ==
  LET b == task[p].mine IN
  /\ Stands(p, "dump")
  /\ \/ /\ dumps' = [dumps EXCEPT ![b] = [rows |-> rows, lastRun |-> lastRun]]
        /\ files' = files \cup {b} /\ Goto(p, "finish") /\ UNCHANGED failures
     \/ /\ CanFail /\ Goto(p, "fail") /\ UNCHANGED <<dumps, files>>
  /\ UNCHANGED <<tables, slot, flags, calls, begun, history>>

Finish(p) ==
  LET b == task[p].mine IN
  /\ Stands(p, "finish")
  /\ IF Present(b)
     THEN /\ SetRow(b, [rows[b] EXCEPT !.status = "COMPLETED", !.file = TRUE])
          /\ running' = FALSE /\ Become(p, AfterRun(task[p], TRUE))
     ELSE Goto(p, "fail") /\ UNCHANGED <<rows, running>>
  /\ UNCHANGED <<files, dumps, lastRun, slot, restoring, bounds, history>>

\* MUTANT: the flag stays up after a failed run.
FailKeepsFlag(p) ==
  LET b == task[p].mine IN
  /\ Stands(p, "fail") /\ RemoveFile(b) /\ UNCHANGED running
  /\ IF Present(b)
     THEN SetRow(b, [rows[b] EXCEPT !.status = "FAILED"]) /\ Become(p, AfterRun(task[p], FALSE))
     ELSE Become(p, Refused(task[p])) /\ UNCHANGED rows
  /\ UNCHANGED <<lastRun, slot, restoring, bounds, history>>

\* The catch block and finally: the file goes, the row says FAILED; a row that
\* is gone makes the whole run throw.
Fail(p) ==
  LET b == task[p].mine IN
  /\ Stands(p, "fail") /\ RemoveFile(b) /\ running' = FALSE
  /\ IF Present(b)
     THEN SetRow(b, [rows[b] EXCEPT !.status = "FAILED"]) /\ Become(p, AfterRun(task[p], FALSE))
     ELSE Become(p, Refused(task[p])) /\ UNCHANGED rows
  /\ UNCHANGED <<lastRun, slot, restoring, bounds, history>>

-------------------------------------------------------------------------------
(***************************************************************************)
(* Delete and retention: files first, then the row                         *)
(***************************************************************************)
Newer(b) == {c \in BackupIds : c > b /\ rows[c].kind = "SCHEDULED" /\ Present(c)
                           /\ c \notin ActiveRows}

\* applyRetention: the scheduled backups behind the Keep most recent ones.
Retain ==
  LET old == {b \in BackupIds : /\ Present(b) /\ rows[b].kind = "SCHEDULED"
                                /\ b \notin ActiveRows /\ Cardinality(Newer(b)) >= Keep}
  IN
  /\ Stands(Scheduler, "retain")
  /\ Become(Scheduler, IF old = {} THEN NoTask
                       ELSE [task[Scheduler] EXCEPT !.pc = "unlink", !.todo = old, !.snap = rows])
  /\ UNCHANGED <<tables, files, dumps, slot, flags, bounds, history>>

\* The most recent of the rows to delete.
Target(t) == CHOOSE b \in t.todo : \A c \in t.todo : c <= b

Unlink(p) ==
  LET b == Target(task[p]) IN
  /\ Stands(p, "unlink") /\ Goto(p, "drop")
  /\ IF task[p].snap[b].file THEN RemoveFile(b) ELSE UNCHANGED <<files, dumps>>
  /\ UNCHANGED <<tables, slot, flags, bounds, history>>

\* MUTANT: a row whose file is gone is kept.
DropKept(p) ==
  LET b == Target(task[p]) IN
  /\ Stands(p, "drop")
  /\ Become(p, IF task[p].todo = {b} THEN NoTask
               ELSE [task[p] EXCEPT !.pc = "unlink", !.todo = @ \ {b}])
  /\ UNCHANGED <<tables, files, dumps, slot, flags, bounds, history>>

Drop(p) ==
  LET b == Target(task[p]) IN
  /\ Stands(p, "drop") /\ SetRow(b, NoBackup)
  /\ Become(p, IF task[p].todo = {b} THEN NoTask
               ELSE [task[p] EXCEPT !.pc = "unlink", !.todo = @ \ {b}])
  /\ UNCHANGED <<files, dumps, lastRun, slot, flags, bounds, history>>

-------------------------------------------------------------------------------
(***************************************************************************)
(* restore                                                                 *)
(***************************************************************************)
\* The file must be there, nothing busy; the tools are probed; then the flag.
FindFile(p) ==
  /\ Stands(p, "find")
  /\ Become(p, IF task[p].src \in files /\ ~running /\ ~restoring
               THEN [task[p] EXCEPT !.pc = "rcount"] ELSE NoTask)
  /\ UNCHANGED <<tables, files, dumps, slot, flags, bounds, history>>

RestoreCount(p) ==
  /\ Stands(p, "rcount")
  /\ IF ActiveRows # {} THEN Become(p, NoTask) ELSE Goto(p, "tools")
  /\ UNCHANGED <<tables, files, dumps, slot, flags, bounds, history>>

\* restoring is set and the pre-restore backup begins.
RaiseFlag(p) ==
  /\ Stands(p, "tools") /\ restoring' = TRUE /\ Become(p, EnterStart(task[p]))
  /\ UNCHANGED <<tables, files, dumps, slot, running, bounds, history>>

Snapshot(p) ==
  /\ Stands(p, "snapshot") /\ Become(p, [task[p] EXCEPT !.pc = "replay", !.snap = rows])
  /\ UNCHANGED <<tables, files, dumps, slot, flags, bounds, history>>

\* pg_restore brings back the tables of the dump.  When it fails, it may have
\* replaced them all the same.
Replay(p) ==
  LET d == dumps[task[p].src] IN
  /\ Stands(p, "replay") /\ Goto(p, "resync") /\ restored' = TRUE
  /\ \/ /\ task[p].src \in files /\ rows' = d.rows /\ lastRun' = d.lastRun
        /\ (CanFail \/ UNCHANGED failures)
     \/ task[p].src \notin files /\ UNCHANGED <<tables, failures>>
     \/ CanFail /\ UNCHANGED tables
  /\ UNCHANGED <<files, dumps, slot, flags, calls, begun, scheduled, parted>>

\* createMany with skipDuplicates: rows that exist are left as the dump has them.
Resync(p) ==
  /\ Stands(p, "resync") /\ Become(p, [task[p] EXCEPT !.pc = "end", !.snap = Empty])
  /\ \/ /\ rows' = [b \in BackupIds |-> IF Present(b) THEN rows[b] ELSE task[p].snap[b]]
        /\ UNCHANGED failures
     \/ /\ CanFail /\ UNCHANGED rows
  /\ UNCHANGED <<files, dumps, lastRun, slot, flags, calls, begun, history>>

LowerFlag(p) ==
  /\ Stands(p, "end") /\ restoring' = FALSE /\ Become(p, NoTask)
  /\ UNCHANGED <<tables, files, dumps, slot, running, bounds, history>>

-------------------------------------------------------------------------------
(***************************************************************************)
(* Crash and boot                                                          *)
(***************************************************************************)
\* A file without its row, or a row without its file, was in somebody's hands.
Torn == \E p \in Procs : Stands(p, "finish") \/ Stands(p, "drop") \/ Stands(p, "fail")

Restarted == /\ CanFail /\ task' = [p \in Procs |-> NoTask]
             /\ running' = FALSE /\ restoring' = FALSE /\ parted' = (parted \/ Torn)
             /\ UNCHANGED <<files, dumps, lastRun, slot, calls, begun, scheduled, restored>>

\* MUTANT: the rows of the run that died are left as they are.
CrashForgets == Restarted /\ UNCHANGED rows

\* The process dies; onModuleInit fails the active rows before it serves again.
Crash ==
  /\ Restarted
  /\ rows' = [b \in BackupIds |-> IF b \in ActiveRows
                             THEN [rows[b] EXCEPT !.status = "FAILED"] ELSE rows[b]]

-------------------------------------------------------------------------------
Run(p)  == Count(p) \/ Insert(p) \/ StartRun(p) \/ Dump(p) \/ Finish(p) \/ Fail(p)
Step(p) == \/ Run(p) \/ Unlink(p) \/ Drop(p) \/ FindFile(p) \/ RestoreCount(p)
           \/ RaiseFlag(p) \/ Snapshot(p) \/ Replay(p) \/ Resync(p) \/ LowerFlag(p)
TickStep == TickCount \/ Mark \/ Retain

Request(p) == \/ CreateRequest(p)
              \/ \E b \in BackupIds : RestoreRequest(p, b) \/ DeleteRequest(p, b)

Next == \/ NextSlot \/ Tick \/ TickStep \/ Crash
        \/ \E p \in Procs : Step(p)
        \/ \E p \in Handlers : Request(p)

Spec == Init /\ [][Next]_vars

\* A request that began goes on to its end, and the timer keeps ticking.
FairSpec == /\ Spec /\ WF_vars(Tick) /\ WF_vars(TickStep)
            /\ \A p \in Procs : WF_vars(Step(p))

-------------------------------------------------------------------------------
\* Once nothing is in flight, nothing blocks the next backup: whatever failed,
\* crashed or overlapped, no flag is up and no row is PENDING or RUNNING.
NeverWedged ==
  Quiescent /\ ~restored => ~running /\ ~restoring /\ ActiveRows = {}

\* The Backup table and the directory agree: a file on disk is listed, and a
\* listed file is on disk, unless a request is between the two.
InHand(b) == \E p \in Procs :
  \/ task[p].mine = b /\ task[p].pc \in {"finish", "fail"}
  \/ Stands(p, "drop") /\ b = Target(task[p])

FilesMatchRows ==
  ~restored /\ ~parted => \A b \in BackupIds : InHand(b) \/ (b \in files <=> rows[b].file)

\* No slot is backed up twice, not even when the run failed, the process died half
\* way or a tick met another request: its mark is set before its backup is counted.
OncePerSlot == ~restored => scheduled <= slot

\* A slot that is due is served by some later tick, also after a crash, a
\* failed run or a busy engine.
SlotServed == (lastRun < slot) ~> (lastRun = slot \/ restored)

\* The comment at resyncRows: every file on disk stays listed.
FilesStayListed ==
  [][\A p \in Procs : Stands(p, "resync") /\ task'[p].pc = "end" /\ failures' = failures
        => \A b \in BackupIds : task[p].snap[b].file /\ b \in files => rows'[b].file]_vars
================================================================================
