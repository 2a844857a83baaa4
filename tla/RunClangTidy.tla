--------------------------- MODULE RunClangTidy ---------------------------
(***************************************************************************)
(* build_support/run_clang_tidy.py: the main thread hands the files of the *)
(* compilation database to a pool of daemon threads over a bounded queue,  *)
(* waits for queue.join(), and then reports the files that failed, exports *)
(* and applies the fixes and removes the directory they are kept in.       *)
(*                                                                         *)
(* A task is an index into the database, which may name a file twice.      *)
(* What clang-tidy says of a file, and the failures of the operating       *)
(* system (no temporary file, no process, output that is not UTF-8), are   *)
(* chosen freely.  A thread in which an exception is raised is dead: it    *)
(* has not called task_done for the file it had.                           *)
(***************************************************************************)
EXTENDS Naturals, Sequences, FiniteSets

CONSTANTS
  Worker,        \* the max_task threads
  NumFiles,      \* entries of the compilation database, only_diff applied
  Matching,      \* those main puts into the queue
  ThirdParty     \* those CheckConfig.should_skip names

ASSUME RunClangTidyAssumption ==
  /\ IsFiniteSet(Worker)
  /\ NumFiles \in Nat
  /\ Matching \subseteq 1..NumFiles
  /\ ThirdParty \subseteq Matching

VARIABLES
  main,          \* where the main thread is
  args,          \* -export-fixes and -fix
  next,          \* the entry main's loop over the files has come to
  queue,         \* task_queue
  unfinished,    \* task_queue.unfinished_tasks
  at, task,      \* per thread: where it is, and the file it has
  failed,        \* failed_files
  tmpdir,        \* there is a temporary directory
  fixes,         \* the tasks whose .yaml file clang-tidy has written
  exported, applied,  \* the tasks whose fixes were merged, and were applied
  return_code,
  result         \* history: what clang-tidy said of each task

vars == <<main, args, next, queue, unfinished, at, task, failed, tmpdir, fixes,
          exported, applied, return_code, result>>
threads == <<at, task, queue, unfinished, failed, fixes, result>>
output == <<exported, applied, tmpdir, return_code>>

Task == 1..NumFiles
NoTask == 0
MaxTask == Cardinality(Worker)

\* After these the process is gone, and its daemon threads with it.
Gone == {"exited", "killed"}
Phase == {"setup", "fill", "join", "report", "export", "fix", "clean", "ctrl-c"} \cup Gone
Place == {"get", "got", "running", "ended", "print", "task_done", "dead"}

TypeOK ==
  /\ main \in Phase
  /\ args \in [export : BOOLEAN, fix : BOOLEAN]
  /\ next \in 1..(NumFiles + 1)
  /\ queue \in Seq(Task) /\ Len(queue) <= MaxTask
  /\ unfinished \in Nat
  /\ at \in [Worker -> Place]
  /\ task \in [Worker -> Task \cup {NoTask}]
  /\ failed \subseteq Task
  /\ tmpdir \in BOOLEAN
  /\ fixes \subseteq Task /\ exported \subseteq Task /\ applied \subseteq Task
  /\ return_code \in {0, 1}
  /\ result \in [Task -> {"none", "skipped", "passed", "complained"}]

Init ==
  /\ main = "setup"
  /\ args \in [export : BOOLEAN, fix : BOOLEAN]
  /\ next = 1
  /\ queue = <<>> /\ unfinished = 0
  /\ at = [w \in Worker |-> "get"] /\ task = [w \in Worker |-> NoTask]
  /\ failed = {} /\ fixes = {} /\ exported = {} /\ applied = {}
  /\ tmpdir = FALSE /\ return_code = 0
  /\ result = [i \in Task |-> "none"]

-----------------------------------------------------------------------------
(* A thread of run_tidy                                                    *)

Alive == main \notin {"setup"} \cup Gone

Goto(w, from, to) == at[w] = from /\ at' = [at EXCEPT ![w] = to]

\* queue.get()
Get(w) ==
  /\ Alive /\ queue # <<>>
  /\ Goto(w, "get", "got")
  /\ task' = [task EXCEPT ![w] = Head(queue)]
  /\ queue' = Tail(queue)
  /\ UNCHANGED <<main, args, next, unfinished, failed, fixes, output, result>>

\* A mistake: a file that is skipped is not counted as done.
Skip_NotDone(w) ==
  /\ Alive /\ task[w] \in ThirdParty
  /\ Goto(w, "got", "get")
  /\ result' = [result EXCEPT ![task[w]] = "skipped"]
  /\ task' = [task EXCEPT ![w] = NoTask]
  /\ UNCHANGED <<main, args, next, queue, unfinished, failed, fixes, output>>

\* The .yaml file is there, empty; clang-tidy is not run.
Skip(w) ==
  /\ Alive /\ task[w] \in ThirdParty
  /\ Goto(w, "got", "task_done")
  /\ result' = [result EXCEPT ![task[w]] = "skipped"]
  /\ UNCHANGED <<main, args, next, queue, unfinished, task, failed, fixes, output>>

Popen(w) ==
  /\ Alive /\ task[w] \notin ThirdParty
  /\ Goto(w, "got", "running")
  /\ UNCHANGED <<main, args, next, queue, unfinished, task, failed, fixes, output, result>>

\* communicate() returns: clang-tidy has ended and has written its fixes.
Communicate(w, r) ==
  /\ Alive
  /\ Goto(w, "running", "ended")
  /\ result' = [result EXCEPT ![task[w]] = r]
  /\ fixes' = IF tmpdir THEN fixes \cup {task[w]} ELSE fixes
  /\ UNCHANGED <<main, args, next, queue, unfinished, task, failed, output>>

AppendFailed(w) ==
  /\ Alive
  /\ Goto(w, "ended", "print")
  /\ failed' = IF result[task[w]] = "complained" THEN failed \cup {task[w]} ELSE failed
  /\ UNCHANGED <<main, args, next, queue, unfinished, task, fixes, output, result>>

PrintOutput(w) ==
  /\ Alive
  /\ Goto(w, "print", "task_done")
  /\ UNCHANGED <<main, args, next, queue, unfinished, task, failed, fixes, output, result>>

\* A mistake: clang-tidy's return code is not looked at before the file is done.
TaskDone_BeforeAppend(w) ==
  /\ Alive /\ at[w] \in {"ended", "task_done"}
  /\ at' = [at EXCEPT ![w] = "get"]
  /\ task' = [task EXCEPT ![w] = NoTask]
  /\ unfinished' = unfinished - 1
  /\ UNCHANGED <<main, args, next, queue, failed, fixes, output, result>>

TaskDone(w) ==
  /\ Alive
  /\ Goto(w, "task_done", "get")
  /\ task' = [task EXCEPT ![w] = NoTask]
  /\ unfinished' = unfinished - 1
  /\ UNCHANGED <<main, args, next, queue, failed, fixes, output, result>>

\* mkstemp or Popen raises, or decode finds bytes that are not UTF-8.
Dies(w) ==
  /\ Alive /\ at[w] \in {"got", "print"}
  /\ at' = [at EXCEPT ![w] = "dead"]
  /\ UNCHANGED <<main, args, next, queue, unfinished, task, failed, fixes, output, result>>

Works(w) ==
  \/ Get(w)
  \/ Skip(w)
  \/ Popen(w)
  \/ \E r \in {"passed", "complained"} : Communicate(w, r)
  \/ AppendFailed(w)
  \/ PrintOutput(w)
  \/ TaskDone(w)

-----------------------------------------------------------------------------
(* The main thread                                                         *)

GoOn(from, to) == main = from /\ main' = to

\* clang-tidy, or clang-apply-replacements if fixes are wanted, does not run:
\* exit(1).  Otherwise there is a directory for the fixes and the threads start.
Setup(runs) ==
  /\ GoOn("setup", IF runs THEN "fill" ELSE "exited")
  /\ tmpdir' = (runs /\ (args.export \/ args.fix))
  /\ return_code' = IF runs THEN 0 ELSE 1
  /\ UNCHANGED <<args, next, threads, exported, applied>>

PassOver ==
  /\ main = "fill" /\ next <= NumFiles /\ next \notin Matching
  /\ next' = next + 1
  /\ UNCHANGED <<main, args, threads, output>>

\* A mistake: the queue is not bounded.
Put_Unbounded ==
  /\ main = "fill" /\ next <= NumFiles /\ next \in Matching
  /\ queue' = Append(queue, next)
  /\ unfinished' = unfinished + 1
  /\ next' = next + 1
  /\ UNCHANGED <<main, args, at, task, failed, fixes, result, output>>

\* put blocks while the queue is full; after its time-out it is called again.
Put ==
  /\ main = "fill" /\ next <= NumFiles /\ next \in Matching
  /\ Len(queue) < MaxTask
  /\ queue' = Append(queue, next)
  /\ unfinished' = unfinished + 1
  /\ next' = next + 1
  /\ UNCHANGED <<main, args, at, task, failed, fixes, result, output>>

AllPut ==
  /\ next > NumFiles
  /\ GoOn("fill", "join")
  /\ UNCHANGED <<args, next, threads, output>>

\* A mistake: to wait for an empty queue is not to wait for the threads.
Join_EmptyQueue ==
  /\ queue = <<>>
  /\ GoOn("join", "report")
  /\ UNCHANGED <<args, next, threads, output>>

Join ==
  /\ unfinished = 0
  /\ GoOn("join", "report")
  /\ UNCHANGED <<args, next, threads, output>>

Report ==
  /\ GoOn("report", "export")
  /\ return_code' = IF failed # {} THEN 1 ELSE return_code
  /\ UNCHANGED <<args, next, threads, exported, applied, tmpdir>>

\* merge_replacement_files.  Whatever it raises, KeyboardInterrupt too, is caught.
\* The import of yaml is commented out, so that it raises NameError at the first
\* .yaml file, and every file a thread was given, a third party's too, has one.
Export(works) ==
  /\ GoOn("export", "fix")
  /\ args.export \/ works
  /\ args.export /\ works => Matching = {}
  /\ exported' = IF args.export /\ works THEN fixes ELSE exported
  /\ return_code' = IF works THEN return_code ELSE 1
  /\ UNCHANGED <<args, next, threads, applied, tmpdir>>

\* apply_fixes; what clang-apply-replacements returns is not looked at.
Fix(works) ==
  /\ GoOn("fix", "clean")
  /\ args.fix \/ works
  /\ applied' = IF args.fix /\ works THEN fixes ELSE applied
  /\ return_code' = IF works THEN return_code ELSE 1
  /\ UNCHANGED <<args, next, threads, exported, tmpdir>>

Clean ==
  /\ GoOn("clean", "exited")
  /\ tmpdir' = FALSE
  /\ UNCHANGED <<args, next, threads, exported, applied, return_code>>

\* Ctrl-C while the threads run: the directory goes, then the process group.
CtrlC ==
  /\ main \in {"fill", "join", "report"}
  /\ main' = "ctrl-c"
  /\ tmpdir' = FALSE
  /\ UNCHANGED <<args, next, threads, exported, applied, return_code>>

Kill ==
  /\ GoOn("ctrl-c", "killed")
  /\ UNCHANGED <<args, next, threads, output>>

\* Nobody catches it between the handlers, nor what rmtree itself raises.
Uncaught ==
  /\ main \in {"export", "fix", "clean", "ctrl-c"}
  /\ main' = "exited"
  /\ return_code' = 1
  /\ UNCHANGED <<args, next, threads, exported, applied, tmpdir>>

GoesOn ==
  \/ \E runs \in BOOLEAN : Setup(runs)
  \/ PassOver
  \/ Put
  \/ AllPut
  \/ Join
  \/ Report
  \/ \E works \in BOOLEAN : Export(works)
  \/ \E works \in BOOLEAN : Fix(works)
  \/ Clean
  \/ Kill

Next ==
  \/ GoesOn
  \/ CtrlC
  \/ Uncaught
  \/ \E w \in Worker : Works(w) \/ Dies(w)

\* Python runs every runnable thread, and clang-tidy ends on every file.
Spec == Init /\ [][Next]_vars
FairSpec == Spec /\ WF_vars(GoesOn) /\ \A w \in Worker : WF_vars(Works(w))

-----------------------------------------------------------------------------
(* What the script promises                                                *)

Checked == {i \in Matching : result[i] \in {"passed", "complained"}}

\* The exit code is the truth: when the script exits with 0, clang-tidy has run
\* on every file that main selected and that is not a third party's, found
\* fault with none, and the fixes asked for were exported (as that raises, there
\* were no files) and applied.  A thread
\* that dies with a file in its hands cannot make the script report success.
ExitCodeIsTrue ==
  main = "exited" /\ return_code = 0 =>
    /\ \A i \in Matching \ ThirdParty : result[i] = "passed"
    /\ args.export => exported = Checked
    /\ args.fix => applied = Checked

\* Fixes are merged and applied when every selected file has been dealt with
\* and no thread is left that could still write one: join() counts task_done,
\* not the length of the queue.
FixesAreComplete ==
  main \in {"report", "export", "fix", "clean"} =>
    /\ queue = <<>> /\ \A w \in Worker : at[w] = "get"
    /\ \A i \in Matching \ ThirdParty : result[i] \in {"passed", "complained"}
    /\ tmpdir => fixes = Checked

\* Unless a thread dies, which leaves join() or a full queue waiting for ever,
\* the script comes to an end, third parties' files among the others.
ComesToAnEnd == [](\A w \in Worker : at[w] # "dead") => <>(main \in Gone)

=============================================================================
