----------------------------- MODULE Lifecycle -----------------------------
(***************************************************************************)
(* From start to exit of MailX processes that share one database: they      *)
(* migrate its schema, all of them at every start and without a lock (a     *)
(* rolling deployment mixes binaries that embed more and fewer              *)
(* migrations), open what they need in order, run their components until    *)
(* one fails or a signal arrives, wait for them and close in reverse.        *)
(*                                                                          *)
(* A migration is its version; what its script does to the schema is one     *)
(* entry of `schema'.  The handlers of single connections are not components *)
(* and are not waited for; what their death leaves behind is in the models   *)
(* of the stores they write to.                                              *)
(***************************************************************************)
EXTENDS Integers, Sequences, FiniteSets, SequencesExt, FiniteSetsExt

CONSTANTS
  Procs,
  Configured,      \* per process: its components, of those below
  Versions,        \* migrations the newest binary embeds
  MaxStarts        \* bound: starts, of all processes

VARIABLES
  schema,          \* the scripts that were executed and committed, in order
  recorded,        \* schema_migrations
  proc,            \* per process
  starts

vars == <<schema, recorded, proc, starts>>

(* "worker" stands for the loops and the pools. *)
Components == {"smtp", "submission", "api", "observability", "worker"}
Modes == {"full", "smtp-only", "migrate"}

(* Every process is configured with some of them. *)
LifecycleAssumption == Versions \in Nat /\ MaxStarts \in Nat /\ Configured \in [Procs -> SUBSET Components]

Resources == <<"db", "abuse", "queue">>       \* in the order runFull opens them

(* `comp': running, returned nil but not yet looked at, or done.  `all' is    *)
(* whether runComponents received an error; `failed', of the history,        *)
(* whether a component returned one.                                        *)
Down == [pc |-> "down", mode |-> "full", embeds |-> 0, applied |-> {}, at |-> 0,
         opened |-> 0, signalled |-> FALSE, canceled |-> FALSE,
         comp |-> [c \in Components |-> "done"], errs |-> {}, all |-> FALSE, exit |-> "none",
         failed |-> FALSE]

TypeOK ==
  /\ schema \in Seq(1..Versions) /\ recorded \subseteq 1..Versions /\ starts \in 0..MaxStarts
  /\ \A p \in Procs :
       /\ proc[p].pc \in {"down", "open", "list", "apply", "tx", "build", "up", "wait", "close"}
       /\ proc[p].mode \in Modes /\ proc[p].opened \in 0..Len(Resources)
       /\ proc[p].errs \subseteq Components /\ proc[p].all \in BOOLEAN /\ proc[p].failed \in BOOLEAN
       /\ proc[p].comp \in [Components -> {"running", "nil", "done"}]
       /\ proc[p].exit \in {"none", "ok", "error"}

Init == schema = <<>> /\ recorded = {} /\ proc = [p \in Procs |-> Down] /\ starts = 0

At(p, pc) == proc[p].pc = pc
Set(p, r) == proc' = [proc EXCEPT ![p] = r]
Database == <<schema, recorded>>

(* main, run, and the branch of runFull without a DATABASE_URL. *)
run(p, mode) ==
  /\ At(p, "down") /\ starts < MaxStarts /\ starts' = starts + 1
  /\ \E n \in 1..Versions :
       Set(p, [Down EXCEPT !.mode = mode, !.embeds = n,
                           !.pc = IF mode = "smtp-only" THEN "build" ELSE "open"])
  /\ UNCHANGED Database

(* Every error on the way up returns, and the deferred calls close what is open. *)
Fail(p) ==
  /\ proc[p].pc \in {"open", "list", "apply", "tx", "build"}
  /\ Set(p, [proc[p] EXCEPT !.pc = "close", !.exit = "error"]) /\ UNCHANGED <<Database, starts>>

(* A bounded pool, connected. *)
Open(p) ==
  /\ At(p, "open") /\ Set(p, [proc[p] EXCEPT !.pc = "list", !.opened = 1])
  /\ UNCHANGED <<Database, starts>>

-----------------------------------------------------------------------------
(* Migrate. *)

loadMigrations(p) == 1..proc[p].embeds
Pending(p) == loadMigrations(p) \ proc[p].applied

(* Read once, before the first migration. *)
appliedVersions(p) ==
  /\ At(p, "list") /\ Set(p, [proc[p] EXCEPT !.pc = "apply", !.applied = recorded])
  /\ UNCHANGED <<Database, starts>>

(* The next one that was not applied then. *)
Migrate(p) ==
  /\ At(p, "apply") /\ Pending(p) # {}
  /\ Set(p, [proc[p] EXCEPT !.pc = "tx", !.at = Min(Pending(p))])
  /\ UNCHANGED <<Database, starts>>

Migrated(p) == [proc[p] EXCEPT !.applied = {}, !.at = 0]     \* its variables are gone

(* The whole of a one-shot `mailx migrate', or the first step of a server. *)
migrate(p) ==
  /\ At(p, "apply") /\ Pending(p) = {} /\ proc[p].mode = "migrate"
  /\ Set(p, [Migrated(p) EXCEPT !.pc = "close", !.exit = "ok"])
  /\ UNCHANGED <<Database, starts>>

openDatabase(p) ==
  /\ At(p, "apply") /\ Pending(p) = {} /\ proc[p].mode = "full"
  /\ Set(p, [Migrated(p) EXCEPT !.pc = "build"])
  /\ UNCHANGED <<Database, starts>>

(* Mutant: recording a version again is no error. *)
applyOne_Upsert(p) ==
  LET m == proc[p].at
  IN /\ At(p, "tx")
     /\ schema' = Append(schema, m) /\ recorded' = recorded \cup {m}
     /\ Set(p, [proc[p] EXCEPT !.pc = "apply", !.applied = @ \cup {m}])
     /\ UNCHANGED starts

(* One transaction: the script and its row.  The row's primary key waits    *)
(* for a concurrent transaction with the same version and fails once that   *)
(* one has committed, which rolls the script back.                          *)
applyOne(p) ==
  LET m == proc[p].at
  IN /\ At(p, "tx")
     /\ IF m \in recorded
        THEN Set(p, [proc[p] EXCEPT !.pc = "close", !.exit = "error"]) /\ UNCHANGED Database
        ELSE /\ schema' = Append(schema, m) /\ recorded' = recorded \cup {m}
             /\ Set(p, [proc[p] EXCEPT !.pc = "apply", !.applied = @ \cup {m}])
     /\ UNCHANGED starts

-----------------------------------------------------------------------------
(* runFull and serve. *)

Needed(p) == IF proc[p].mode = "smtp-only" THEN 0 ELSE Len(Resources)
Started(p) == IF proc[p].mode = "smtp-only" THEN Configured[p] \cap {"smtp", "observability"} ELSE Configured[p]

runFull(p) ==
  /\ At(p, "build")
  /\ IF proc[p].opened < Needed(p) THEN Set(p, [proc[p] EXCEPT !.opened = @ + 1])
     ELSE Set(p, [proc[p] EXCEPT !.pc = "up",
                    !.comp = [c \in Components |-> IF c \in Started(p) THEN "running" ELSE "done"]])
  /\ UNCHANGED <<Database, starts>>

(* SIGTERM or SIGINT; a one-shot migration does not catch it and dies (Kill). *)
notifyShutdown(p) ==
  /\ proc[p].pc \notin {"down", "close"} /\ proc[p].mode # "migrate" /\ ~proc[p].signalled
  /\ Set(p, [proc[p] EXCEPT !.signalled = TRUE]) /\ UNCHANGED <<Database, starts>>

(* What a component may return, before and after its context is canceled:  *)
(* a listener that cannot be opened, or fails, is an error, one that was     *)
(* closed is not; a server may not finish its requests in time; the loops   *)
(* and their workers only end when they are told to.                        *)
runSMTPReceiver(canceled) == {"err"} \cup (IF canceled THEN {"nil"} ELSE {})
runSubmissionReceiver(canceled) == {"err"} \cup (IF canceled THEN {"nil"} ELSE {})
apiServerRun(canceled) == {"nil", "err"}
operatorRun(canceled) == {"nil", "err"}
workerRun(canceled) == IF canceled THEN {"nil"} ELSE {}

Returns(c, canceled) ==
  CASE c = "smtp" -> runSMTPReceiver(canceled)
    [] c = "submission" -> runSubmissionReceiver(canceled)
    [] c = "api" -> apiServerRun(canceled)
    [] c = "observability" -> operatorRun(canceled)
    [] c = "worker" -> workerRun(canceled)

(* The goroutine of one component: an error is sent, the channel has room   *)
(* for one of each; a nil is looked at afterwards.                          *)
ComponentReturns(p, c) ==
  /\ proc[p].comp[c] = "running"
  /\ \E r \in Returns(c, proc[p].canceled) :
       Set(p, IF r = "nil" THEN [proc[p] EXCEPT !.comp[c] = "nil"]
              ELSE [proc[p] EXCEPT !.comp[c] = "done", !.errs = @ \cup {c}, !.failed = TRUE])
  /\ UNCHANGED <<Database, starts>>

ComponentDone(p, c) ==
  /\ proc[p].comp[c] = "nil"
  /\ Set(p, [proc[p] EXCEPT !.comp[c] = "done", !.errs = IF proc[p].canceled THEN @ ELSE @ \cup {c}])
  /\ UNCHANGED <<Database, starts>>

(* runComponents: the signal or the first error, whichever is seen. *)
runComponents(p) ==
  /\ At(p, "up")
  /\ \/ proc[p].signalled /\ Set(p, [proc[p] EXCEPT !.pc = "wait", !.canceled = TRUE])
     \/ \E c \in proc[p].errs :
          Set(p, [proc[p] EXCEPT !.pc = "wait", !.canceled = TRUE, !.all = TRUE, !.errs = @ \ {c}])
  /\ UNCHANGED <<Database, starts>>

Joined(p) ==
  [proc[p] EXCEPT !.pc = "close", !.errs = {}, !.exit = IF proc[p].all \/ proc[p].errs # {} THEN "error" ELSE "ok"]

(* wg.Wait, then what else was sent is joined. *)
Wait(p) ==
  /\ At(p, "wait") /\ \A c \in Components : proc[p].comp[c] = "done"
  /\ Set(p, Joined(p)) /\ UNCHANGED <<Database, starts>>

(* The deferred calls, last opened first, and the process is gone. *)
Close(p) ==
  /\ At(p, "close")
  /\ Set(p, IF proc[p].opened > 0 THEN [proc[p] EXCEPT !.opened = @ - 1] ELSE Down)
  /\ UNCHANGED <<Database, starts>>

(* A transaction in flight is rolled back. *)
Kill(p) == ~At(p, "down") /\ Set(p, Down) /\ UNCHANGED <<Database, starts>>

Next ==
  \E p \in Procs :
    \/ \E mode \in Modes : run(p, mode)
    \/ Fail(p) \/ Open(p) \/ appliedVersions(p) \/ Migrate(p) \/ applyOne(p)
    \/ migrate(p) \/ openDatabase(p)
    \/ runFull(p) \/ notifyShutdown(p) \/ runComponents(p) \/ Wait(p) \/ Close(p) \/ Kill(p)
    \/ \E c \in Components : ComponentReturns(p, c) \/ ComponentDone(p, c)

Spec == Init /\ [][Next]_vars

-----------------------------------------------------------------------------
Busy(p) == \E c \in Components : proc[p].comp[c] # "done"

(* Every script was committed once, in order, without a gap, and            *)
(* schema_migrations says so, however many processes started at once and    *)
(* wherever they died; and a process with components that use the database   *)
(* has its whole schema (Migrate, applyOne, openDatabase).                  *)
SchemaIsOrderly ==
  /\ schema = [i \in 1..Len(schema) |-> i] /\ recorded = ToSet(schema)
  /\ \A p \in Procs : Busy(p) /\ proc[p].mode = "full" => loadMigrations(p) \subseteq recorded

(* A component runs only between the opening and the closing of all it uses,*)
(* whatever failed or was signalled first; a process that ends without an   *)
(* error was asked to and none of its components failed (runComponents).    *)
ShutdownIsOrderly ==
  \A p \in Procs :
    /\ Busy(p) => proc[p].opened = Needed(p)
    /\ proc[p].exit = "ok" /\ proc[p].mode # "migrate" => proc[p].signalled /\ ~proc[p].failed

(* Both ends of a process's life. *)
LifecycleIsSound == SchemaIsOrderly /\ ShutdownIsOrderly
=============================================================================
