------------------------- MODULE RunClangTidyProofs -------------------------
(***************************************************************************)
(* Proofs about RunClangTidy, for any finite set of threads, any number of *)
(* files and any choice of those that match or are a third party's.  The   *)
(* heart of the inductive invariant is UnfinishedCorrect, that the queue's *)
(* count of unfinished tasks is the tasks in the queue and the threads     *)
(* that are not waiting for one, dead ones included: when join() returns   *)
(* there are none of either, and nothing happens beside main any more.     *)
(***************************************************************************)
EXTENDS RunClangTidy, FiniteSetTheorems, TLAPS

Busy == {w \in Worker : at[w] # "get"}

UnfinishedCorrect == unfinished = Len(queue) + Cardinality(Busy)

(* A thread has a task from get() to task_done(), and one of main's. *)
TasksAreMatching ==
  /\ \A k \in 1..Len(queue) : queue[k] \in Matching
  /\ \A w \in Worker :
       /\ at[w] # "get" => task[w] \in Matching
       /\ at[w] = "running" => task[w] \notin ThirdParty

(* What main has put is in the queue, in a thread's hands, or dealt with. *)
NothingIsLost ==
  \A i \in Matching : i < next =>
    \/ \E k \in 1..Len(queue) : queue[k] = i
    \/ \E w \in Worker : at[w] \in {"got", "running", "dead"} /\ task[w] = i
    \/ result[i] # "none"

(* A complaint is in failed_files, or about to be appended to it. *)
ComplaintsAreKept ==
  /\ \A i \in Matching : result[i] = "complained" =>
       i \in failed \/ \E w \in Worker : at[w] = "ended" /\ task[w] = i
  /\ \A i \in Matching : result[i] = "skipped" => i \in ThirdParty
  /\ \A i \in Matching : result[i] \in {"passed", "complained"} => i \notin ThirdParty

FixesAreKept ==
  /\ main = "setup" => fixes = {} /\ Checked = {}
  /\ tmpdir => fixes = Checked
  /\ main \in {"fill", "join", "report", "export", "fix", "clean"} =>
       tmpdir = (args.export \/ args.fix)

(* Where main has come to, and what it has done on its way. *)
MainIsRight ==
  /\ main = "join" => next = NumFiles + 1
  /\ main \in {"report", "export", "fix", "clean"} => next = NumFiles + 1 /\ unfinished = 0
  /\ return_code = 0 =>
       /\ main \in {"export", "fix", "clean"} => failed = {}
       /\ main \in {"fix", "clean"} /\ args.export => exported = Checked
       /\ main = "clean" /\ args.fix => applied = Checked

TidyInv ==
  /\ TypeOK /\ UnfinishedCorrect /\ TasksAreMatching /\ NothingIsLost
  /\ ComplaintsAreKept /\ FixesAreKept /\ MainIsRight /\ ExitCodeIsTrue

-----------------------------------------------------------------------------

LEMMA BusyFinite == IsFiniteSet(Busy) /\ Cardinality(Busy) \in Nat
<1>1. IsFiniteSet(Busy)  BY FS_Subset, RunClangTidyAssumption DEF Busy
<1> QED  BY <1>1, FS_CardinalityType

(* No unfinished task: the queue is empty and every thread waits for it. *)
LEMMA Quiet ==
  ASSUME TypeOK, UnfinishedCorrect, unfinished = 0
  PROVE  queue = <<>> /\ \A w \in Worker : at[w] = "get"
<1>1. Len(queue) \in Nat  BY DEF TypeOK
<1>2. Len(queue) = 0 /\ Cardinality(Busy) = 0
  BY <1>1, BusyFinite DEF UnfinishedCorrect
<1>3. Busy = {}  BY <1>2, BusyFinite, FS_EmptySet
<1>4. queue = <<>>  BY <1>2 DEF TypeOK
<1> QED  BY <1>3, <1>4 DEF Busy

(* While a thread has a task, main is not past join(). *)
LEMMA BusyMeansMainWaits ==
  ASSUME TidyInv, NEW w \in Worker, at[w] # "get" \/ queue # <<>>
  PROVE  main \notin {"report", "export", "fix", "clean"}
BY Quiet DEF TidyInv, MainIsRight

LEMMA InitTidyInv == Init => TidyInv
<1> SUFFICES ASSUME Init PROVE TidyInv  OBVIOUS
<1> USE RunClangTidyAssumption
<1>1. TypeOK
  <2>1. MaxTask \in Nat  BY FS_CardinalityType DEF MaxTask
  <2>2. queue \in Seq(Task) /\ Len(queue) = 0  BY DEF Init
  <2>3. main \in Phase /\ next \in 1..(NumFiles + 1) /\ args \in [export : BOOLEAN, fix : BOOLEAN]
    BY DEF Init, Phase
  <2>4. at \in [Worker -> Place] /\ task \in [Worker -> Task \cup {NoTask}]
    BY DEF Init, Place
  <2>5. result \in [Task -> {"none", "skipped", "passed", "complained"}]
    BY DEF Init
  <2>6. 0 \in Nat /\ Len(queue) <= MaxTask  BY <2>1, <2>2
  <2> QED  BY <2>2, <2>3, <2>4, <2>5, <2>6 DEF Init, TypeOK
<1>2. UnfinishedCorrect
  <2>1. Busy = {}  BY DEF Init, Busy
  <2> QED  BY <2>1, FS_EmptySet DEF Init, UnfinishedCorrect
<1>3. Checked = {}  BY DEF Init, Checked, Task
<1>4. TasksAreMatching  BY DEF Init, TasksAreMatching
<1>5. NothingIsLost  BY DEF Init, NothingIsLost, Task
<1>6. ComplaintsAreKept  BY DEF Init, ComplaintsAreKept, Task
<1>7. FixesAreKept /\ MainIsRight /\ ExitCodeIsTrue
  BY <1>3 DEF Init, FixesAreKept, MainIsRight, ExitCodeIsTrue
<1> QED  BY <1>1, <1>2, <1>4, <1>5, <1>6, <1>7 DEF TidyInv

(* A waiting thread that gets a task, and one that has done it. *)
LEMMA BusyAdd ==
  ASSUME TypeOK, NEW w \in Worker, at[w] = "get", NEW place \in Place \ {"get"},
         at' = [at EXCEPT ![w] = place]
  PROVE  Cardinality(Busy') = Cardinality(Busy) + 1
<1>1. Busy' = Busy \cup {w} /\ w \notin Busy  BY DEF Busy, TypeOK
<1> QED  BY <1>1, BusyFinite, FS_AddElement

LEMMA BusyRemove ==
  ASSUME TypeOK, NEW w \in Worker, at[w] # "get", at' = [at EXCEPT ![w] = "get"]
  PROVE  Cardinality(Busy') = Cardinality(Busy) - 1
<1>1. Busy' = Busy \ {w} /\ w \in Busy  BY DEF Busy, TypeOK
<1> QED  BY <1>1, BusyFinite, FS_RemoveElement

LEMMA BusySame ==
  ASSUME TypeOK, NEW w \in Worker, at[w] # "get", NEW place \in Place \ {"get"},
         at' = [at EXCEPT ![w] = place]
  PROVE  Busy' = Busy
BY DEF Busy, TypeOK

-----------------------------------------------------------------------------
(* The steps of a thread.  None is taken once main is past join().         *)

LEMMA GetInv ==
  ASSUME TidyInv, NEW w \in Worker, Get(w)
  PROVE  TidyInv'
<1> USE DEF Get, Goto
<1>1. main \notin {"report", "export", "fix", "clean"}  BY BusyMeansMainWaits
<1>2. queue \in Seq(Task) /\ Len(queue) \in Nat /\ Len(queue) > 0
  BY DEF TidyInv, TypeOK
<1>3. /\ Len(queue') = Len(queue) - 1
      /\ queue' \in Seq(Task)
      /\ \A k \in 1..Len(queue') : queue'[k] = queue[k + 1]
      /\ task' = [task EXCEPT ![w] = queue[1]]
  BY <1>2
<1>4. queue[1] \in Matching /\ queue[1] \in Task  BY <1>2 DEF TidyInv, TasksAreMatching
<1>5. at' = [at EXCEPT ![w] = "got"] /\ at[w] = "get"  OBVIOUS
<1>6. TypeOK'
  <2>1. MaxTask' = MaxTask /\ MaxTask \in Nat
    BY FS_CardinalityType, RunClangTidyAssumption DEF MaxTask
  <2>2. Len(queue') <= MaxTask  BY <1>2, <1>3, <2>1 DEF TidyInv, TypeOK
  <2>3. task' \in [Worker -> Task \cup {NoTask}]  BY <1>3, <1>4 DEF TidyInv, TypeOK
  <2>4. at' \in [Worker -> Place]  BY <1>5 DEF TidyInv, TypeOK, Place
  <2> QED  BY <1>3, <2>1, <2>2, <2>3, <2>4 DEF TidyInv, TypeOK, output
<1>7. UnfinishedCorrect'
  <2>1. Cardinality(Busy') = Cardinality(Busy) + 1
    BY <1>5, BusyAdd DEF TidyInv, Place
  <2> QED  BY <1>2, <1>3, <2>1, BusyFinite DEF TidyInv, UnfinishedCorrect
<1>8. TasksAreMatching'
  <2>1. \A k \in 1..Len(queue') : queue'[k] \in Matching
    BY <1>2, <1>3 DEF TidyInv, TasksAreMatching
  <2>2. \A v \in Worker : at'[v] # "get" => task'[v] \in Matching
    BY <1>3, <1>4, <1>5 DEF TidyInv, TypeOK, TasksAreMatching
  <2>3. \A v \in Worker : at'[v] = "running" => task'[v] \notin ThirdParty
    BY <1>3, <1>5 DEF TidyInv, TypeOK, TasksAreMatching
  <2> QED  BY <2>1, <2>2, <2>3 DEF TasksAreMatching
<1>9. NothingIsLost'
  <2> SUFFICES ASSUME NEW i \in Matching, i < next, result[i] = "none"
               PROVE  \/ \E k \in 1..Len(queue') : queue'[k] = i
                      \/ \E v \in Worker : at'[v] \in {"got", "running", "dead"} /\ task'[v] = i
    BY DEF NothingIsLost
  <2>1. CASE \E v \in Worker : at[v] \in {"got", "running", "dead"} /\ task[v] = i
    BY <2>1, <1>3, <1>5 DEF TidyInv, TypeOK
  <2>2. ASSUME NEW k \in 1..Len(queue), queue[k] = i, k # 1
        PROVE  \E j \in 1..Len(queue') : queue'[j] = i
    <3>1. k - 1 \in 1..Len(queue')  BY <2>2, <1>2, <1>3
    <3>2. queue'[k - 1] = i  BY <3>1, <2>2, <1>3
    <3> QED  BY <3>1, <3>2
  <2>3. ASSUME queue[1] = i
        PROVE  \E v \in Worker : at'[v] \in {"got", "running", "dead"} /\ task'[v] = i
    BY <2>3, <1>3, <1>5 DEF TidyInv, TypeOK
  <2> QED  BY <2>1, <2>2, <2>3 DEF TidyInv, NothingIsLost
<1>10. ComplaintsAreKept'
  <2>1. \A v \in Worker : at[v] = "ended" => at'[v] = "ended" /\ task'[v] = task[v]
    BY <1>3, <1>5 DEF TidyInv, TypeOK
  <2> QED  BY <2>1 DEF TidyInv, ComplaintsAreKept
<1>11. FixesAreKept' /\ MainIsRight' /\ ExitCodeIsTrue'
  BY <1>1 DEF TidyInv, FixesAreKept, MainIsRight, ExitCodeIsTrue, Checked, output, Alive, Gone
<1> QED  BY <1>6, <1>7, <1>8, <1>9, <1>10, <1>11 DEF TidyInv

(* A step of a thread that keeps its task: what it may change beside the   *)
(* thread's place is the results, the failed files and the fixes.          *)
LEMMA KeepsTask ==
  ASSUME TidyInv, NEW w \in Worker, at[w] # "get", NEW place \in Place \ {"get"},
         at' = [at EXCEPT ![w] = place],
         UNCHANGED <<main, args, next, queue, unfinished, task, output>>,
         place = "running" => task[w] \notin ThirdParty,
         failed' \subseteq Task, fixes' \subseteq Task,
         result' \in [Task -> {"none", "skipped", "passed", "complained"}]
  PROVE  TypeOK' /\ UnfinishedCorrect' /\ TasksAreMatching'
<1>1. TypeOK'  BY DEF TidyInv, TypeOK, output
<1>2. UnfinishedCorrect'  BY BusySame DEF TidyInv, UnfinishedCorrect
<1>3. TasksAreMatching'  BY DEF TidyInv, TypeOK, TasksAreMatching
<1> QED  BY <1>1, <1>2, <1>3

(* Before main is past join(), its own part is not about results.          *)
LEMMA MainStays ==
  ASSUME TidyInv, main \notin {"report", "export", "fix", "clean"}, main # "exited",
         UNCHANGED <<main, next>>
  PROVE  MainIsRight' /\ ExitCodeIsTrue'
BY DEF TidyInv, MainIsRight, ExitCodeIsTrue

LEMMA SkipInv ==
  ASSUME TidyInv, NEW w \in Worker, Skip(w)
  PROVE  TidyInv'
<1> USE DEF Skip, Goto
<1>1. main \notin {"report", "export", "fix", "clean"}  BY BusyMeansMainWaits
<1>2. task[w] \in Task /\ task[w] \in ThirdParty
  BY RunClangTidyAssumption DEF Task
<1>3. result' \in [Task -> {"none", "skipped", "passed", "complained"}]
  BY <1>2 DEF TidyInv, TypeOK
<1>4. TypeOK' /\ UnfinishedCorrect' /\ TasksAreMatching'
  BY <1>3, KeepsTask DEF Place, TidyInv, TypeOK, output
<1>5. NothingIsLost'
  BY <1>2 DEF TidyInv, TypeOK, NothingIsLost
<1>6. ComplaintsAreKept'
  BY <1>2 DEF TidyInv, TypeOK, ComplaintsAreKept
<1>7. Checked' = Checked
  <2>1. result[task[w]] \notin {"passed", "complained"}
    BY <1>2, RunClangTidyAssumption DEF TidyInv, ComplaintsAreKept
  <2>2. \A i \in Matching : result'[i] \in {"passed", "complained"}
                           <=> result[i] \in {"passed", "complained"}
    BY <1>2, <2>1, RunClangTidyAssumption DEF TidyInv, TypeOK, Task
  <2> QED  BY <2>2 DEF Checked
<1>8. FixesAreKept'  BY <1>7 DEF TidyInv, FixesAreKept, output
<1>9. MainIsRight' /\ ExitCodeIsTrue'
  BY <1>1, MainStays DEF Alive, Gone
<1> QED  BY <1>4, <1>5, <1>6, <1>8, <1>9 DEF TidyInv

LEMMA PopenInv ==
  ASSUME TidyInv, NEW w \in Worker, Popen(w)
  PROVE  TidyInv'
<1> USE DEF Popen, Goto
<1>1. main \notin {"report", "export", "fix", "clean"}  BY BusyMeansMainWaits
<1>2. TypeOK' /\ UnfinishedCorrect' /\ TasksAreMatching'
  BY KeepsTask DEF Place, TidyInv, TypeOK, output
<1>3. NothingIsLost'  BY DEF TidyInv, TypeOK, NothingIsLost
<1>4. ComplaintsAreKept'  BY DEF TidyInv, TypeOK, ComplaintsAreKept
<1>5. FixesAreKept'  BY DEF TidyInv, FixesAreKept, Checked, output
<1>6. MainIsRight' /\ ExitCodeIsTrue'  BY <1>1, MainStays DEF Alive, Gone
<1> QED  BY <1>2, <1>3, <1>4, <1>5, <1>6 DEF TidyInv

LEMMA CommunicateInv ==
  ASSUME TidyInv, NEW w \in Worker, NEW r \in {"passed", "complained"}, Communicate(w, r)
  PROVE  TidyInv'
<1> USE DEF Communicate, Goto
<1>1. main \notin {"report", "export", "fix", "clean"}  BY BusyMeansMainWaits
<1>2. task[w] \in Task /\ task[w] \in Matching /\ task[w] \notin ThirdParty
  BY RunClangTidyAssumption DEF TidyInv, TasksAreMatching, Task
<1>3. result' \in [Task -> {"none", "skipped", "passed", "complained"}] /\ fixes' \subseteq Task
  BY <1>2 DEF TidyInv, TypeOK
<1>4. TypeOK' /\ UnfinishedCorrect' /\ TasksAreMatching'
  BY <1>3, KeepsTask DEF Place, TidyInv, TypeOK, output
<1>5. NothingIsLost'  BY <1>2 DEF TidyInv, TypeOK, NothingIsLost
<1>6. ComplaintsAreKept'  BY <1>2 DEF TidyInv, TypeOK, ComplaintsAreKept
<1>7. Checked' = Checked \cup {task[w]}
  BY <1>2, RunClangTidyAssumption DEF TidyInv, TypeOK, Checked, Task
<1>8. FixesAreKept'  BY <1>7 DEF TidyInv, FixesAreKept, output, Alive
<1>9. MainIsRight' /\ ExitCodeIsTrue'  BY <1>1, MainStays DEF Alive, Gone
<1> QED  BY <1>4, <1>5, <1>6, <1>8, <1>9 DEF TidyInv

LEMMA AppendFailedInv ==
  ASSUME TidyInv, NEW w \in Worker, AppendFailed(w)
  PROVE  TidyInv'
<1> USE DEF AppendFailed, Goto
<1>1. main \notin {"report", "export", "fix", "clean"}  BY BusyMeansMainWaits
<1>2. task[w] \in Task  BY RunClangTidyAssumption DEF TidyInv, TasksAreMatching, Task
<1>3. failed' \subseteq Task  BY <1>2 DEF TidyInv, TypeOK
<1>4. TypeOK' /\ UnfinishedCorrect' /\ TasksAreMatching'
  BY <1>3, KeepsTask DEF Place, TidyInv, TypeOK, output
<1>5. NothingIsLost'  BY DEF TidyInv, TypeOK, NothingIsLost
<1>6. ComplaintsAreKept'  BY DEF TidyInv, TypeOK, ComplaintsAreKept
<1>7. FixesAreKept'  BY DEF TidyInv, FixesAreKept, Checked, output
<1>8. MainIsRight' /\ ExitCodeIsTrue'  BY <1>1, MainStays DEF Alive, Gone
<1> QED  BY <1>4, <1>5, <1>6, <1>7, <1>8 DEF TidyInv

(* Printing, or dying with a file in one's hands. *)
LEMMA PrintOrDieInv ==
  ASSUME TidyInv, NEW w \in Worker, PrintOutput(w) \/ Dies(w)
  PROVE  TidyInv'
<1> USE DEF PrintOutput, Dies, Goto
<1>1. main \notin {"report", "export", "fix", "clean"}  BY BusyMeansMainWaits
<1>2. TypeOK' /\ UnfinishedCorrect' /\ TasksAreMatching'
  BY KeepsTask DEF Place, TidyInv, TypeOK, output
<1>3. NothingIsLost'  BY DEF TidyInv, TypeOK, NothingIsLost
<1>4. ComplaintsAreKept'  BY DEF TidyInv, TypeOK, ComplaintsAreKept
<1>5. FixesAreKept'  BY DEF TidyInv, FixesAreKept, Checked, output
<1>6. MainIsRight' /\ ExitCodeIsTrue'  BY <1>1, MainStays DEF Alive, Gone
<1> QED  BY <1>2, <1>3, <1>4, <1>5, <1>6 DEF TidyInv

LEMMA TaskDoneInv ==
  ASSUME TidyInv, NEW w \in Worker, TaskDone(w)
  PROVE  TidyInv'
<1> USE DEF TaskDone, Goto
<1>1. main \notin {"report", "export", "fix", "clean"}  BY BusyMeansMainWaits
<1>2. Cardinality(Busy') = Cardinality(Busy) - 1 /\ Cardinality(Busy') \in Nat
  <2>1. Cardinality(Busy') = Cardinality(Busy) - 1  BY BusyRemove DEF TidyInv
  <2>2. w \in Busy  BY DEF Busy
  <2>3. Cardinality(Busy) # 0  BY <2>2, BusyFinite, FS_EmptySet
  <2> QED  BY <2>1, <2>3, BusyFinite
<1>3. Len(queue) \in Nat /\ Len(queue') = Len(queue)  BY DEF TidyInv, TypeOK
<1>4. UnfinishedCorrect' /\ unfinished' \in Nat
  BY <1>2, <1>3, BusyFinite DEF TidyInv, UnfinishedCorrect
<1>5. TypeOK'  BY <1>4 DEF TidyInv, TypeOK, Place, output
<1>6. TasksAreMatching'  BY DEF TidyInv, TypeOK, TasksAreMatching
<1>7. NothingIsLost'  BY DEF TidyInv, TypeOK, NothingIsLost
<1>8. ComplaintsAreKept'  BY DEF TidyInv, TypeOK, ComplaintsAreKept
<1>9. FixesAreKept'  BY DEF TidyInv, FixesAreKept, Checked, output
<1>10. MainIsRight' /\ ExitCodeIsTrue'  BY <1>1, MainStays DEF Alive, Gone
<1> QED  BY <1>4, <1>5, <1>6, <1>7, <1>8, <1>9, <1>10 DEF TidyInv

-----------------------------------------------------------------------------
(* The steps of main.                                                      *)

(* A step of main that leaves the threads and the queue alone. *)
LEMMA ThreadsUnchanged ==
  ASSUME TidyInv, UNCHANGED threads
  PROVE  /\ UnfinishedCorrect' /\ TasksAreMatching' /\ ComplaintsAreKept'
         /\ Checked' = Checked
<1>1. Busy' = Busy  BY DEF Busy, threads
<1> QED
  BY <1>1 DEF TidyInv, threads, UnfinishedCorrect, TasksAreMatching, ComplaintsAreKept, Checked

(* A step of main that neither puts nor passes over a file. *)
LEMMA MainMoves ==
  ASSUME TidyInv, UNCHANGED <<args, next, threads>>,
         main' \in Phase, exported' \subseteq Task, applied' \subseteq Task,
         tmpdir' \in BOOLEAN, return_code' \in {0, 1}
  PROVE  /\ TypeOK' /\ UnfinishedCorrect' /\ TasksAreMatching' /\ NothingIsLost'
         /\ ComplaintsAreKept' /\ Checked' = Checked
<1>1. TypeOK'  BY DEF TidyInv, TypeOK, threads
<1>2. NothingIsLost'  BY DEF TidyInv, NothingIsLost, threads
<1> QED  BY <1>1, <1>2, ThreadsUnchanged

LEMMA SetupInv ==
  ASSUME TidyInv, NEW runs \in BOOLEAN, Setup(runs)
  PROVE  TidyInv'
<1> USE DEF Setup, GoOn
<1>1. main' \in Phase /\ tmpdir' \in BOOLEAN /\ return_code' \in {0, 1}
  BY DEF Phase, Gone, TidyInv, TypeOK
<1>2. /\ TypeOK' /\ UnfinishedCorrect' /\ TasksAreMatching' /\ NothingIsLost'
      /\ ComplaintsAreKept' /\ Checked' = Checked
  BY <1>1, MainMoves DEF TidyInv, TypeOK
<1>3. FixesAreKept'  BY <1>2 DEF TidyInv, TypeOK, FixesAreKept, threads
<1>4. MainIsRight' /\ ExitCodeIsTrue'  BY DEF MainIsRight, ExitCodeIsTrue
<1> QED  BY <1>2, <1>3, <1>4 DEF TidyInv

LEMMA PassOverInv ==
  ASSUME TidyInv, PassOver
  PROVE  TidyInv'
<1> USE DEF PassOver
<1>1. TypeOK'  BY RunClangTidyAssumption DEF TidyInv, TypeOK, threads, output
<1>2. UnfinishedCorrect' /\ TasksAreMatching' /\ ComplaintsAreKept' /\ Checked' = Checked
  BY ThreadsUnchanged
<1>3. \A i \in Matching : i < next' => i < next
  BY RunClangTidyAssumption DEF TidyInv, TypeOK
<1>4. NothingIsLost'  BY <1>3 DEF TidyInv, NothingIsLost, threads
<1>5. FixesAreKept' /\ MainIsRight' /\ ExitCodeIsTrue'
  BY <1>2 DEF TidyInv, FixesAreKept, MainIsRight, ExitCodeIsTrue, threads, output
<1> QED  BY <1>1, <1>2, <1>4, <1>5 DEF TidyInv

LEMMA PutInv ==
  ASSUME TidyInv, Put
  PROVE  TidyInv'
<1> USE DEF Put
<1>1. next \in Task /\ queue \in Seq(Task) /\ Len(queue) \in Nat /\ MaxTask \in Nat
  BY RunClangTidyAssumption, FS_CardinalityType DEF TidyInv, TypeOK, Task, MaxTask
<1>2. /\ queue' \in Seq(Task) /\ Len(queue') = Len(queue) + 1
      /\ \A k \in 1..Len(queue) : queue'[k] = queue[k]
      /\ queue'[Len(queue) + 1] = next
  BY <1>1
<1>3. TypeOK'
  <2>1. Len(queue') <= MaxTask /\ unfinished' \in Nat
    BY <1>1, <1>2 DEF TidyInv, TypeOK
  <2>2. next' \in 1..(NumFiles + 1)
    BY <1>1, RunClangTidyAssumption DEF Task
  <2> QED  BY <1>2, <2>1, <2>2 DEF TidyInv, TypeOK, output, MaxTask
<1>4. UnfinishedCorrect'
  <2>1. Busy' = Busy  BY DEF Busy
  <2> QED  BY <1>1, <1>2, <2>1, BusyFinite DEF TidyInv, UnfinishedCorrect
<1>5. TasksAreMatching'
  <2>1. \A k \in 1..Len(queue') : k \in 1..Len(queue) \/ k = Len(queue) + 1
    BY <1>1, <1>2
  <2>2. \A k \in 1..Len(queue') : queue'[k] \in Matching
    BY <1>2, <2>1 DEF TidyInv, TasksAreMatching
  <2> QED  BY <2>2 DEF TidyInv, TasksAreMatching
<1>6. NothingIsLost'
  <2> SUFFICES ASSUME NEW i \in Matching, i < next + 1
               PROVE  \/ \E k \in 1..Len(queue') : queue'[k] = i
                      \/ \E w \in Worker : at[w] \in {"got", "running", "dead"} /\ task[w] = i
                      \/ result[i] # "none"
    BY DEF NothingIsLost
  <2>1. Len(queue) + 1 \in 1..Len(queue') /\ \A k \in 1..Len(queue) : k \in 1..Len(queue')
    BY <1>1, <1>2
  <2>2. CASE i = next  BY <1>2, <2>1, <2>2
  <2>3. CASE i < next  BY <1>2, <2>1, <2>3 DEF TidyInv, NothingIsLost
  <2> QED  BY <1>1, <2>2, <2>3, RunClangTidyAssumption DEF Task
<1>7. ComplaintsAreKept'  BY DEF TidyInv, ComplaintsAreKept
<1>8. FixesAreKept' /\ MainIsRight' /\ ExitCodeIsTrue'
  BY DEF TidyInv, FixesAreKept, MainIsRight, ExitCodeIsTrue, Checked, output
<1> QED  BY <1>3, <1>4, <1>5, <1>6, <1>7, <1>8 DEF TidyInv

(* The end of the loop, and the end of join(). *)
LEMMA AllPutOrJoinInv ==
  ASSUME TidyInv, AllPut \/ Join
  PROVE  TidyInv'
<1> USE DEF AllPut, Join, GoOn
<1>1. /\ TypeOK' /\ UnfinishedCorrect' /\ TasksAreMatching' /\ NothingIsLost'
      /\ ComplaintsAreKept' /\ Checked' = Checked
  BY MainMoves DEF TidyInv, TypeOK, output, Phase
<1>2. FixesAreKept'  BY <1>1 DEF TidyInv, FixesAreKept, threads, output
<1>3. next > NumFiles => next = NumFiles + 1
  BY RunClangTidyAssumption DEF TidyInv, TypeOK
<1>4. MainIsRight' /\ ExitCodeIsTrue'
  BY <1>3 DEF TidyInv, MainIsRight, ExitCodeIsTrue, threads, output
<1> QED  BY <1>1, <1>2, <1>4 DEF TidyInv

(* Report, Export and Fix look at the work of threads that all wait. *)
LEMMA ReportInv ==
  ASSUME TidyInv, Report
  PROVE  TidyInv'
<1> USE DEF Report, GoOn
<1>1. /\ TypeOK' /\ UnfinishedCorrect' /\ TasksAreMatching' /\ NothingIsLost'
      /\ ComplaintsAreKept' /\ Checked' = Checked
  BY MainMoves DEF TidyInv, TypeOK, Phase
<1>2. FixesAreKept'  BY <1>1 DEF TidyInv, FixesAreKept, threads
<1>3. MainIsRight' /\ ExitCodeIsTrue'
  BY DEF TidyInv, MainIsRight, ExitCodeIsTrue, threads
<1> QED  BY <1>1, <1>2, <1>3 DEF TidyInv

LEMMA ExportInv ==
  ASSUME TidyInv, NEW works \in BOOLEAN, Export(works)
  PROVE  TidyInv'
<1> USE DEF Export, GoOn
<1>1. main' \in Phase /\ exported' \subseteq Task /\ return_code' \in {0, 1}
  BY DEF TidyInv, TypeOK, Phase
<1>2. /\ TypeOK' /\ UnfinishedCorrect' /\ TasksAreMatching' /\ NothingIsLost'
      /\ ComplaintsAreKept' /\ Checked' = Checked
  BY <1>1, MainMoves DEF TidyInv, TypeOK
<1>3. FixesAreKept'  BY <1>2 DEF TidyInv, FixesAreKept, threads
<1>4. MainIsRight' /\ ExitCodeIsTrue'
  BY <1>2 DEF TidyInv, TypeOK, FixesAreKept, MainIsRight, ExitCodeIsTrue, threads
<1> QED  BY <1>2, <1>3, <1>4 DEF TidyInv

LEMMA FixInv ==
  ASSUME TidyInv, NEW works \in BOOLEAN, Fix(works)
  PROVE  TidyInv'
<1> USE DEF Fix, GoOn
<1>1. main' \in Phase /\ applied' \subseteq Task /\ return_code' \in {0, 1}
  BY DEF TidyInv, TypeOK, Phase
<1>2. /\ TypeOK' /\ UnfinishedCorrect' /\ TasksAreMatching' /\ NothingIsLost'
      /\ ComplaintsAreKept' /\ Checked' = Checked
  BY <1>1, MainMoves DEF TidyInv, TypeOK
<1>3. FixesAreKept'  BY <1>2 DEF TidyInv, FixesAreKept, threads
<1>4. MainIsRight' /\ ExitCodeIsTrue'
  BY <1>2 DEF TidyInv, TypeOK, FixesAreKept, MainIsRight, ExitCodeIsTrue, threads
<1> QED  BY <1>2, <1>3, <1>4 DEF TidyInv

(* What main and the threads have done, when main is past join(). *)
LEMMA AllDealtWith ==
  ASSUME TidyInv, main \in {"report", "export", "fix", "clean"}
  PROVE  /\ queue = <<>> /\ \A w \in Worker : at[w] = "get"
         /\ \A i \in Matching \ ThirdParty : result[i] \in {"passed", "complained"}
         /\ \A i \in Matching : result[i] = "complained" => i \in failed
<1>1. unfinished = 0 /\ next = NumFiles + 1  BY DEF TidyInv, MainIsRight
<1>2. queue = <<>> /\ \A w \in Worker : at[w] = "get"  BY <1>1, Quiet DEF TidyInv
<1>3. \A i \in Matching : i \in Task /\ i < next
  BY <1>1, RunClangTidyAssumption DEF Task
<1>4. 1..Len(queue) = {}  BY <1>2
<1>5. \A i \in Matching : result[i] # "none"
  BY <1>2, <1>3, <1>4 DEF TidyInv, NothingIsLost
<1>6. \A i \in Matching \ ThirdParty : result[i] \in {"passed", "complained"}
  BY <1>3, <1>5 DEF TidyInv, TypeOK, ComplaintsAreKept
<1>7. \A i \in Matching : result[i] = "complained" => i \in failed
  BY <1>2 DEF TidyInv, ComplaintsAreKept
<1> QED  BY <1>2, <1>6, <1>7

LEMMA CleanInv ==
  ASSUME TidyInv, Clean
  PROVE  TidyInv'
<1> USE DEF Clean, GoOn
<1>1. /\ TypeOK' /\ UnfinishedCorrect' /\ TasksAreMatching' /\ NothingIsLost'
      /\ ComplaintsAreKept' /\ Checked' = Checked
  BY MainMoves DEF TidyInv, TypeOK, Phase, Gone
<1>2. FixesAreKept' /\ MainIsRight'  BY DEF FixesAreKept, MainIsRight
<1>3. return_code = 0 => \A i \in Matching \ ThirdParty : result[i] = "passed"
  BY AllDealtWith DEF TidyInv, MainIsRight
<1>4. ExitCodeIsTrue'
  BY <1>1, <1>3 DEF TidyInv, MainIsRight, ExitCodeIsTrue, threads
<1> QED  BY <1>1, <1>2, <1>4 DEF TidyInv

(* The ways in which the script is broken off. *)
LEMMA BrokenOffInv ==
  ASSUME TidyInv, CtrlC \/ Kill \/ Uncaught
  PROVE  TidyInv'
<1> USE DEF CtrlC, Kill, Uncaught, GoOn
<1>1. /\ UNCHANGED <<args, next, threads>>
      /\ main' \in Phase /\ tmpdir' \in BOOLEAN /\ return_code' \in {0, 1}
      /\ exported' \subseteq Task /\ applied' \subseteq Task
  BY DEF TidyInv, TypeOK, Phase, Gone, output
<1>2. /\ TypeOK' /\ UnfinishedCorrect' /\ TasksAreMatching' /\ NothingIsLost'
      /\ ComplaintsAreKept' /\ Checked' = Checked
  BY <1>1, MainMoves
<1>3. FixesAreKept'  BY <1>2 DEF TidyInv, FixesAreKept, threads, output
<1>4. MainIsRight' /\ ExitCodeIsTrue'  BY DEF MainIsRight, ExitCodeIsTrue
<1> QED  BY <1>2, <1>3, <1>4 DEF TidyInv

-----------------------------------------------------------------------------

LEMMA NextTidyInv == TidyInv /\ [Next]_vars => TidyInv'
<1> SUFFICES ASSUME TidyInv, [Next]_vars PROVE TidyInv'  OBVIOUS
<1>1. CASE UNCHANGED vars
  <2>1. UNCHANGED <<args, next, threads>> /\ main' \in Phase /\ tmpdir' \in BOOLEAN
        /\ return_code' \in {0, 1} /\ exported' \subseteq Task /\ applied' \subseteq Task
    BY <1>1 DEF vars, threads, TidyInv, TypeOK
  <2>2. /\ TypeOK' /\ UnfinishedCorrect' /\ TasksAreMatching' /\ NothingIsLost'
        /\ ComplaintsAreKept' /\ Checked' = Checked
    BY <2>1, MainMoves
  <2>3. FixesAreKept' /\ MainIsRight' /\ ExitCodeIsTrue'
    BY <1>1, <2>2 DEF vars, TidyInv, FixesAreKept, MainIsRight, ExitCodeIsTrue
  <2> QED  BY <2>2, <2>3 DEF TidyInv
<1>2. ASSUME NEW w \in Worker, Works(w) \/ Dies(w) PROVE TidyInv'
  BY <1>2, GetInv, SkipInv, PopenInv, CommunicateInv, AppendFailedInv, PrintOrDieInv, TaskDoneInv
  DEF Works
<1>3. ASSUME GoesOn \/ CtrlC \/ Uncaught PROVE TidyInv'
  BY <1>3, SetupInv, PassOverInv, PutInv, AllPutOrJoinInv, ReportInv, ExportInv, FixInv,
     CleanInv, BrokenOffInv
  DEF GoesOn
<1> QED  BY <1>1, <1>2, <1>3 DEF Next

THEOREM Inductive == Spec => []TidyInv
BY InitTidyInv, NextTidyInv, PTL DEF Spec

(* The types of the script's variables, the bound on the queue among them. *)
THEOREM TypeCorrect == Spec => []TypeOK
<1>1. TidyInv => TypeOK  BY DEF TidyInv
<1> QED  BY <1>1, Inductive, PTL

(* Exit code 0 is the truth, for any number of threads and files, whoever  *)
(* dies and whenever the user interrupts.                                  *)
THEOREM ExitCodeCorrect == Spec => []ExitCodeIsTrue
<1>1. TidyInv => ExitCodeIsTrue  BY DEF TidyInv
<1> QED  BY <1>1, Inductive, PTL

(* When join() has returned, no thread has a file any more, every file is  *)
(* dealt with and all its fixes are there to be merged and applied.        *)
THEOREM FixesComplete == Spec => []FixesAreComplete
<1>1. TidyInv => FixesAreComplete
  BY AllDealtWith DEF TidyInv, FixesAreKept, FixesAreComplete
<1> QED  BY <1>1, Inductive, PTL

=============================================================================
