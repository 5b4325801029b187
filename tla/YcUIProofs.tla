----------------------------- MODULE YcUIProofs -----------------------------
(***************************************************************************)
(* Proofs about YcUI, for every number of jobs and pipes, every limit of   *)
(* the container, every cap on the retained jobs and every length of the   *)
(* output.  First the life of jobs, by an invariant that does not mention  *)
(* the lines; then what becomes of their output: the lines that are told   *)
(* are those that were written, the tables of jobs are right, and a UI is  *)
(* told what JobReport promises.                                           *)
(***************************************************************************)
EXTENDS YcUI, SequenceFacts, FiniteSetTheorems, SequenceTheorems, TLAPS

-----------------------------------------------------------------------------
(* The inductive invariant.                                                *)

\* The types of what says where a job is.
PlaceType ==
  /\ at \in {"idle", "trim", "job_ended", "free", "freed"} /\ job \in Child \cup {NoJob}
  /\ running \subseteq Child /\ finished \subseteq Child /\ refused \subseteq Child
  /\ exited \subseteq Child
  /\ jobs \in Seq(Child) /\ ended_jobs \in Seq(Child) /\ max_ended_jobs \in Nat
  /\ n_started \in Nat /\ n_ended \in Nat /\ n_failed \in Nat
  /\ mem \in [Child -> {"none", "live", "freed"}]
  /\ destroyed \in [Child -> Nat] /\ index \in [Child -> Nat]
  /\ ended_micros \in [Child -> Nat] /\ status \in [Child -> {"ok", "failed"}]
  /\ recorder_data \in [Child -> [Recorder -> {"none", "open", "released"}]]

\* A child is running, finished, refused or not born; a job is named while its
\* end is reported, and yc_ui_free finds none that runs.
PlaceOK ==
  /\ running \cap finished = {} /\ refused \cap Started = {}
  /\ finished \subseteq exited
  /\ at \in {"trim", "job_ended"} => job \in running \cap exited
  /\ at \in {"idle", "free", "freed"} => job = NoJob
  /\ at \in {"free", "freed"} => running = {} /\ max_ended_jobs = 0
  /\ at = "freed" => ended_jobs = <<>>

\* The YcUIJob object of a job: it lives until it is destroyed, and not as
\* long as the job has not ended.
MemOK ==
  \A c \in Child :
    /\ c \in Started => mem[c] \in {"live", "freed"}
    /\ c \in Started \ Over => mem[c] = "live"
    /\ destroyed[c] = IF c \in Started /\ mem[c] = "freed" THEN 1 ELSE 0
    /\ c \in finished => \A r \in Recorder : recorder_data[c][r] = "released"

\* ui->ended_jobs holds valid jobs that are over, in the order they ended,
\* and every such job that is not about to be destroyed.
EndedOK ==
  /\ \A c \in Over : ended_micros[c] < n_ended
  /\ \A i \in 1 .. Len(ended_jobs) : ended_jobs[i] \in Over /\ mem[ended_jobs[i]] = "live"
  /\ \A i, j \in 1 .. Len(ended_jobs) :
       i < j => ended_micros[ended_jobs[i]] < ended_micros[ended_jobs[j]]
  /\ \A c \in Over :
       \/ mem[c] = "freed"
       \/ \E i \in 1 .. Len(ended_jobs) : ended_jobs[i] = c
       \/ at = "job_ended" /\ c = job /\ max_ended_jobs = 0

\* The job whose end is being reported: the youngest that is retained, or
\* none of those.
ReportOK ==
  /\ at = "trim" => /\ max_ended_jobs > 0 /\ ended_jobs # <<>>
                    /\ ended_jobs[Len(ended_jobs)] = job
  /\ at = "job_ended" /\ max_ended_jobs > 0 =>
       /\ Len(ended_jobs) <= max_ended_jobs
       /\ mem[job] = "live" => /\ ended_jobs # <<>>
                               /\ ended_jobs[Len(ended_jobs)] = job
  /\ at = "job_ended" /\ max_ended_jobs = 0 =>
       /\ mem[job] = "live"
       /\ \A i \in 1 .. Len(ended_jobs) : ended_jobs[i] # job
  /\ at = "job_ended" /\ ~ReapInCallback => mem[job] = "live"

\* ui->jobs holds the jobs that run, in the order they started.
JobsOK ==
  /\ \A c \in running \ {job} : \E i \in 1 .. Len(jobs) : jobs[i] = c
  /\ \A i \in 1 .. Len(jobs) : jobs[i] \in running /\ jobs[i] # job
  /\ \A i, j \in 1 .. Len(jobs) : i < j => index[jobs[i]] < index[jobs[j]]
  /\ \A c \in Started : index[c] < n_started

LifeInv == PlaceType /\ PlaceOK /\ MemOK /\ EndedOK /\ ReportOK /\ JobsOK

\* What the invariant looks at.
placevars ==
  <<running, finished, refused, exited, at, job, jobs, ended_jobs, max_ended_jobs, counts,
    mem, destroyed, records>>

-----------------------------------------------------------------------------
(* Removing a job from a table.                                            *)

\* RemoveFirst takes out the one place of e and keeps the rest in order.
LEMMA RemoveFirstFacts ==
  ASSUME NEW s \in Seq(Child), NEW k \in 1 .. Len(s),
         \A i, j \in 1 .. Len(s) : s[i] = s[j] => i = j
  PROVE  /\ RemoveFirst(s, s[k]) \in Seq(Child)
         /\ Len(RemoveFirst(s, s[k])) = Len(s) - 1
         /\ \A i \in 1 .. k - 1 : RemoveFirst(s, s[k])[i] = s[i]
         /\ \A i \in k .. Len(s) - 1 : RemoveFirst(s, s[k])[i] = s[i + 1]
<1> DEFINE I == {i \in 1 .. Len(s) : s[i] = s[k]}
           a == SubSeq(s, 1, k - 1)
           b == SubSeq(s, k + 1, Len(s))
<1>1. I = {k}
  OBVIOUS
<1>2. SelectInSeq(s, LAMBDA v : v = s[k]) = k
  <2>1. Min({k}) = k
    BY DEF Min
  <2> QED
    BY <1>1, <2>1 DEF SelectInSeq
<1>3. RemoveFirst(s, s[k]) = a \o b
  BY <1>2 DEF RemoveFirst, RemoveAt
<1>4. a \in Seq(Child) /\ Len(a) = k - 1 /\ \A i \in 1 .. k - 1 : a[i] = s[i]
  BY SubSeqProperties
<1>5. b \in Seq(Child) /\ Len(b) = Len(s) - k /\ \A i \in 1 .. Len(s) - k : b[i] = s[k + i]
  BY SubSeqProperties
<1> HIDE DEF a, b
<1> DEFINE r == RemoveFirst(s, s[k])
<1>6. /\ r \in Seq(Child) /\ Len(r) = Len(s) - 1
      /\ \A i \in 1 .. Len(s) - 1 : r[i] = IF i <= k - 1 THEN a[i] ELSE b[i - (k - 1)]
  <2>1. a \in Seq(Child) /\ b \in Seq(Child)
    BY <1>4, <1>5
  <2>2. a \o b \in Seq(Child) /\ Len(a \o b) = Len(a) + Len(b)
    BY <2>1
  <2>3. \A i \in 1 .. Len(a) + Len(b) :
          (a \o b)[i] = IF i <= Len(a) THEN a[i] ELSE b[i - Len(a)]
    BY <2>1
  <2>4. Len(a) + Len(b) = Len(s) - 1 /\ Len(a) = k - 1
    BY <1>4, <1>5
  <2> QED
    BY <2>2, <2>3, <2>4, <1>3
<1> HIDE DEF r, I
<1>7. ASSUME NEW i \in 1 .. k - 1 PROVE r[i] = s[i]
  <2>1. i \in 1 .. Len(s) - 1 /\ i <= k - 1
    OBVIOUS
  <2>2. r[i] = a[i]
    BY <2>1, <1>6
  <2> QED
    BY <2>2, <1>4
<1>8. ASSUME NEW i \in k .. Len(s) - 1 PROVE r[i] = s[i + 1]
  <2>1. i - (k - 1) \in 1 .. Len(s) - k
    OBVIOUS
  <2>2. b[i - (k - 1)] = s[i + 1]
    BY <2>1, <1>5
  <2> QED
    BY <2>2, <1>6
<1> USE DEF r
<1> QED
  BY <1>6, <1>7, <1>8

\* In particular it removes e, nothing else, and keeps an order by any key.
LEMMA RemoveFirstKeeps ==
  ASSUME NEW s \in Seq(Child), NEW e \in Child, \E k \in 1 .. Len(s) : s[k] = e,
         NEW key \in [Child -> Nat],
         \A i, j \in 1 .. Len(s) : i < j => key[s[i]] < key[s[j]]
  PROVE  /\ RemoveFirst(s, e) \in Seq(Child)
         /\ Len(RemoveFirst(s, e)) = Len(s) - 1
         /\ \A i \in 1 .. Len(RemoveFirst(s, e)) :
              /\ RemoveFirst(s, e)[i] # e
              /\ \E j \in 1 .. Len(s) : RemoveFirst(s, e)[i] = s[j]
         /\ \A i \in 1 .. Len(s) :
              s[i] # e => \E j \in 1 .. Len(RemoveFirst(s, e)) : RemoveFirst(s, e)[j] = s[i]
         /\ \A i, j \in 1 .. Len(RemoveFirst(s, e)) :
              i < j => key[RemoveFirst(s, e)[i]] < key[RemoveFirst(s, e)[j]]
         /\ s[Len(s)] # e => /\ RemoveFirst(s, e) # <<>>
                             /\ RemoveFirst(s, e)[Len(s) - 1] = s[Len(s)]
<1> PICK k \in 1 .. Len(s) : s[k] = e
  OBVIOUS
<1>0. \A i \in 1 .. Len(s) : s[i] \in Child /\ key[s[i]] \in Nat
  OBVIOUS
<1>1. \A i, j \in 1 .. Len(s) : s[i] = s[j] => i = j
  <2> SUFFICES ASSUME NEW i \in 1 .. Len(s), NEW j \in 1 .. Len(s), s[i] = s[j]
               PROVE  i = j
    OBVIOUS
  <2>1. ~(i < j)
    BY <1>0
  <2>2. ~(j < i)
    BY <1>0
  <2> QED
    BY <2>1, <2>2
<1> DEFINE r == RemoveFirst(s, e)
<1>2. /\ r \in Seq(Child) /\ Len(r) = Len(s) - 1
      /\ \A i \in 1 .. k - 1 : r[i] = s[i]
      /\ \A i \in k .. Len(s) - 1 : r[i] = s[i + 1]
  BY <1>1, RemoveFirstFacts, Zenon
<1> HIDE DEF r
<1> DEFINE n == Len(s)
<1>n. n \in Nat /\ k \in 1 .. n /\ Len(r) = n - 1
  BY <1>2
<1>a. \A i \in 1 .. k - 1 : r[i] = s[i]
  BY <1>2
<1>b. \A i \in k .. n - 1 : r[i] = s[i + 1]
  BY <1>2
<1>c. ASSUME NEW i \in 1 .. n - 1
      PROVE  \E x \in 1 .. n : x # k /\ r[i] = s[x] /\ x = (IF i < k THEN i ELSE i + 1)
  <2>1. CASE i < k
    <3>1. i \in 1 .. k - 1 /\ i \in 1 .. n
      BY <2>1, <1>n
    <3> QED
      BY <2>1, <3>1, <1>a
  <2>2. CASE ~(i < k)
    <3>1. i \in k .. n - 1 /\ i + 1 \in 1 .. n /\ i + 1 # k
      BY <2>2, <1>n
    <3> QED
      BY <2>2, <3>1, <1>b
  <2> QED
    BY <2>1, <2>2
<1> HIDE DEF n
<1>3. \A i \in 1 .. n - 1 : r[i] # e /\ \E j \in 1 .. n : r[i] = s[j]
  BY <1>1, <1>c DEF n
<1>4. \A i \in 1 .. n : s[i] # e => \E j \in 1 .. n - 1 : r[j] = s[i]
  <2> SUFFICES ASSUME NEW i \in 1 .. n, s[i] # e
               PROVE  \E j \in 1 .. n - 1 : r[j] = s[i]
    OBVIOUS
  <2>1. CASE i < k
    <3>1. i \in 1 .. n - 1 /\ i \in 1 .. k - 1
      BY <2>1, <1>n
    <3> QED
      BY <3>1, <1>a
  <2>2. CASE i > k
    <3>1. i - 1 \in 1 .. n - 1 /\ i - 1 \in k .. n - 1 /\ (i - 1) + 1 = i
      BY <2>2, <1>n
    <3> QED
      BY <3>1, <1>b
  <2> QED
    BY <2>1, <2>2, <1>n
<1>5. \A i, j \in 1 .. n - 1 : i < j => key[r[i]] < key[r[j]]
  <2> SUFFICES ASSUME NEW i \in 1 .. n - 1, NEW j \in 1 .. n - 1, i < j
               PROVE  key[r[i]] < key[r[j]]
    OBVIOUS
  <2>1. PICK x \in 1 .. n : r[i] = s[x] /\ x = (IF i < k THEN i ELSE i + 1)
    BY <1>c
  <2>2. PICK y \in 1 .. n : r[j] = s[y] /\ y = (IF j < k THEN j ELSE j + 1)
    BY <1>c
  <2>3. x < y
    BY <2>1, <2>2, <1>n
  <2>4. key[s[x]] < key[s[y]]
    BY <2>3 DEF n
  <2> QED
    BY <2>1, <2>2, <2>4
<1>6. s[n] # e => r # <<>> /\ r[n - 1] = s[n]
  <2> SUFFICES ASSUME s[n] # e PROVE r # <<>> /\ r[n - 1] = s[n]
    OBVIOUS
  <2>1. k < n
    BY <1>n
  <2>2. n - 1 \in k .. n - 1 /\ (n - 1) + 1 = n /\ Len(r) > 0
    BY <2>1, <1>n
  <2> QED
    BY <2>2, <1>b
<1> QED
  BY <1>2, <1>3, <1>4, <1>5, <1>6 DEF r, n

-----------------------------------------------------------------------------
(* The first state, and the steps that concern no job's place.             *)

\* In the first state there are no jobs.
LEMMA InitLife == ASSUME Init PROVE LifeInv
<1>1. /\ running = {} /\ finished = {} /\ refused = {} /\ exited = {}
      /\ at = "idle" /\ job = NoJob /\ jobs = <<>> /\ ended_jobs = <<>>
      /\ max_ended_jobs \in Nat
  BY UIAssumption DEF Init, Container!Init
<1>2. Started = {} /\ Over = {} /\ Len(jobs) = 0 /\ Len(ended_jobs) = 0
  BY <1>1 DEF Started, Over
<1>3. PlaceType
  BY <1>1 DEF PlaceType, Init
<1>4. PlaceOK
  BY <1>1, <1>2 DEF PlaceOK
<1>5. MemOK
  BY <1>1, <1>2 DEF MemOK, Init
<1>6. EndedOK /\ ReportOK /\ JobsOK
  BY <1>1, <1>2 DEF EndedOK, ReportOK, JobsOK
<1> QED
  BY <1>3, <1>4, <1>5, <1>6 DEF LifeInv

\* Output, pipes and stutters.
LEMMA QuietLife == ASSUME LifeInv, UNCHANGED placevars PROVE LifeInv'
BY DEF LifeInv, placevars, counts, records, PlaceType, PlaceOK, MemOK, EndedOK, ReportOK,
       JobsOK, Started, Over

\* yc_ui_spawn, when the child could be created.
LEMMA SpawnLife ==
  ASSUME LifeInv, NEW c \in Child, NEW P \in SUBSET Fd, Spawn(c, P) PROVE LifeInv'
<1>t. PlaceType /\ PlaceOK /\ MemOK /\ EndedOK /\ ReportOK /\ JobsOK
  BY DEF LifeInv
<1>0. /\ at = "idle" /\ at' = at /\ job' = job /\ job = NoJob /\ NoJob \notin Child
      /\ c \notin running /\ c \notin finished /\ c \notin refused
      /\ running' = running \cup {c}
      /\ UNCHANGED <<finished, refused, exited, ended_jobs, max_ended_jobs, n_ended,
                     n_failed, destroyed, ended_micros, status>>
      /\ mem' = [mem EXCEPT ![c] = "live"]
      /\ index' = [index EXCEPT ![c] = n_started]
      /\ n_started' = n_started + 1
      /\ jobs' = Append(jobs, c)
      /\ recorder_data' = [recorder_data EXCEPT ![c] = [r \in Recorder |-> "open"]]
  BY <1>t, UIAssumption
     DEF Spawn, Container!Spawn, Container!Used, PlaceOK
<1>1. Started' = Started \cup {c} /\ c \notin Started
  BY <1>0 DEF Started
<1>2. Over' = Over /\ Over = finished
  BY <1>0, <1>t DEF Over, PlaceType
<1>3. PlaceType'
  <2>1. mem' \in [Child -> {"none", "live", "freed"}] /\ index' \in [Child -> Nat]
    BY <1>0, <1>t DEF PlaceType
  <2>2. recorder_data' \in [Child -> [Recorder -> {"none", "open", "released"}]]
    BY <1>0, <1>t DEF PlaceType
  <2>3. jobs' \in Seq(Child)
    BY <1>0, <1>t DEF PlaceType
  <2> QED
    BY <2>1, <2>2, <2>3, <1>0, <1>t DEF PlaceType
<1>4. PlaceOK'
  BY <1>0, <1>1, <1>t DEF PlaceOK, PlaceType
<1>5. MemOK'
  <2> SUFFICES ASSUME NEW d \in Child
               PROVE  /\ d \in Started' => mem'[d] \in {"live", "freed"}
                      /\ d \in Started' \ Over' => mem'[d] = "live"
                      /\ destroyed'[d] = IF d \in Started' /\ mem'[d] = "freed" THEN 1 ELSE 0
                      /\ d \in finished' => \A r \in Recorder : recorder_data'[d][r] = "released"
    BY DEF MemOK
  <2>1. CASE d = c
    BY <2>1, <1>0, <1>1, <1>2, <1>t DEF MemOK, PlaceType
  <2>2. CASE d # c
    BY <2>2, <1>0, <1>1, <1>2, <1>t DEF MemOK, PlaceType
  <2> QED
    BY <2>1, <2>2
<1>6. EndedOK'
  <2>1. \A d \in Over : d # c /\ d \in Child
    BY <1>0, <1>2, <1>t DEF PlaceType
  <2>2. \A d \in Over : mem'[d] = mem[d]
    BY <2>1, <1>0, <1>t DEF PlaceType
  <2> QED
    BY <2>2, <1>0, <1>2, <1>t DEF EndedOK
<1>7. ReportOK'
  BY <1>0 DEF ReportOK
<1>8. JobsOK'
  <2> DEFINE n == Len(jobs)
  <2>1. /\ n \in Nat /\ Len(jobs') = n + 1 /\ jobs'[n + 1] = c
        /\ \A i \in 1 .. n : jobs'[i] = jobs[i] /\ jobs[i] \in running
    BY <1>0, <1>t DEF PlaceType, JobsOK
  <2>2. \A d \in running : index'[d] = index[d] /\ index[d] < n_started /\ index[d] \in Nat
    BY <1>0, <1>t DEF JobsOK, Started, PlaceType
  <2>3. index'[c] = n_started /\ n_started \in Nat
    BY <1>0, <1>t DEF PlaceType
  <2> HIDE DEF n
  <2>4. \A d \in running' \ {job'} : \E i \in 1 .. n + 1 : jobs'[i] = d
    <3> SUFFICES ASSUME NEW d \in running' \ {job'} PROVE \E i \in 1 .. n + 1 : jobs'[i] = d
      OBVIOUS
    <3>1. CASE d = c
      BY <3>1, <2>1
    <3>2. CASE d # c
      <4>1. PICK i \in 1 .. n : jobs[i] = d
        BY <3>2, <1>0, <1>t DEF JobsOK, n
      <4> QED
        BY <4>1, <2>1
    <3> QED
      BY <3>1, <3>2
  <2>5. \A i \in 1 .. n + 1 : i \in 1 .. n \/ i = n + 1
    BY <2>1
  <2>6. \A i \in 1 .. n + 1 : jobs'[i] \in running' /\ jobs'[i] # job'
    BY <2>1, <2>5, <1>0, <1>t DEF PlaceType
  <2>7. \A i, j \in 1 .. n + 1 : i < j => index'[jobs'[i]] < index'[jobs'[j]]
    <3> SUFFICES ASSUME NEW i \in 1 .. n + 1, NEW j \in 1 .. n + 1, i < j
                 PROVE  index'[jobs'[i]] < index'[jobs'[j]]
      OBVIOUS
    <3>1. i \in 1 .. n
      BY <2>1
    <3>2. CASE j = n + 1
      BY <3>1, <3>2, <2>1, <2>2, <2>3
    <3>3. CASE j \in 1 .. n
      BY <3>1, <3>3, <2>1, <2>2, <1>t DEF JobsOK, n
    <3> QED
      BY <3>2, <3>3, <2>5
  <2>8. \A d \in Started' : index'[d] < n_started'
    BY <1>0, <1>1, <1>t DEF JobsOK, PlaceType, Started
  <2> QED
    BY <2>1, <2>4, <2>6, <2>7, <2>8 DEF JobsOK
<1> QED
  BY <1>3, <1>4, <1>5, <1>6, <1>7, <1>8 DEF LifeInv

\* yc_ui_spawn, when it could not.
LEMMA SpawnFailsLife ==
  ASSUME LifeInv, NEW c \in Child, SpawnFails(c) PROVE LifeInv'
<1>t. PlaceType /\ PlaceOK /\ MemOK /\ EndedOK /\ ReportOK /\ JobsOK
  BY DEF LifeInv
<1>0. /\ at = "idle" /\ c \notin Started
      /\ refused' = refused \cup {c}
      /\ mem' = [mem EXCEPT ![c] = "freed"]
      /\ UNCHANGED <<at, job, running, finished, exited, jobs, ended_jobs, max_ended_jobs,
                     n_started, n_ended, n_failed, destroyed, index, ended_micros, status,
                     recorder_data>>
  BY DEF SpawnFails, Container!Refuse, Container!Used, tables, counts, records, Started
<1>1. Started' = Started /\ Over' = Over /\ Over \subseteq Started
  BY <1>0 DEF Started, Over
<1>2. \A d \in Started : d \in Child /\ mem'[d] = mem[d]
  BY <1>0, <1>t DEF PlaceType, Started
<1>3. PlaceType'
  BY <1>0, <1>t DEF PlaceType
<1>4. PlaceOK'
  BY <1>0, <1>1, <1>t DEF PlaceOK
<1>5. MemOK'
  BY <1>0, <1>1, <1>2, <1>t DEF MemOK
<1>6. EndedOK' /\ ReportOK'
  BY <1>0, <1>1, <1>2, <1>t DEF EndedOK, ReportOK
<1>7. JobsOK'
  BY <1>0, <1>1, <1>t DEF JobsOK
<1> QED
  BY <1>3, <1>4, <1>5, <1>6, <1>7 DEF LifeInv

\* child_exit_cb.
LEMMA ExitLife ==
  ASSUME LifeInv, NEW c \in Child, NEW s \in {"ok", "failed"}, Exit(c, s) PROVE LifeInv'
<1>0. /\ at = "idle" /\ at' = at /\ exited' = exited \cup {c}
      /\ status' = [status EXCEPT ![c] = s]
      /\ UNCHANGED <<job, running, finished, refused, jobs, ended_jobs, max_ended_jobs,
                     n_started, n_ended, n_failed, destroyed, index, ended_micros, mem,
                     recorder_data>>
  BY DEF Exit, Container!Exit, tables, counts
<1>1. Started' = Started /\ Over' = Over
  BY <1>0 DEF Started, Over
<1>2. PlaceType'
  BY <1>0 DEF PlaceType, LifeInv
<1>3. PlaceOK'
  BY <1>0, <1>1 DEF PlaceOK, LifeInv
<1>4. MemOK' /\ EndedOK' /\ ReportOK' /\ JobsOK'
  BY <1>0, <1>1 DEF MemOK, EndedOK, ReportOK, JobsOK, LifeInv
<1> QED
  BY <1>2, <1>3, <1>4 DEF LifeInv

-----------------------------------------------------------------------------
(* The end of a job.                                                       *)

\* ui_child_done, up to the trimming.
LEMMA DoneStartLife ==
  ASSUME LifeInv, NEW c \in Child, DoneStart(c) PROVE LifeInv'
<1>t. PlaceType /\ PlaceOK /\ MemOK /\ EndedOK /\ ReportOK /\ JobsOK
  BY DEF LifeInv
<1>0. /\ at = "idle" /\ job = NoJob /\ job' = c /\ c # NoJob
      /\ c \in running /\ c \in exited /\ c \notin finished
      /\ ended_micros' = [ended_micros EXCEPT ![c] = n_ended]
      /\ n_ended' = n_ended + 1
      /\ n_failed' \in Nat
      /\ jobs' = RemoveFirst(jobs, c)
      /\ UNCHANGED <<running, finished, refused, exited, max_ended_jobs, n_started, mem,
                     destroyed, index, status, recorder_data>>
  <2>1. n_failed' \in Nat
    BY <1>t DEF DoneStart, PlaceType
  <2> QED
    BY <1>t, <2>1, UIAssumption DEF DoneStart, contract, JobsRemove, PlaceOK
<1>1. /\ Started' = Started /\ c \in Started
      /\ Over' = Over \cup {c} /\ c \notin Over /\ Over \subseteq Child
  <2>1. Over = finished /\ Over' = finished \cup {c}
    BY <1>0, <1>t, UIAssumption DEF Over, PlaceType
  <2> QED
    BY <2>1, <1>0, <1>t DEF Started, PlaceType
<1>e. \/ /\ max_ended_jobs > 0 /\ at' = "trim" /\ ended_jobs' = Append(ended_jobs, c)
      \/ max_ended_jobs = 0 /\ at' = "job_ended" /\ ended_jobs' = ended_jobs
  BY <1>t DEF DoneStart, PlaceType
<1>f. /\ jobs' \in Seq(Child)
      /\ \A i \in 1 .. Len(jobs') : jobs'[i] # c /\ \E j \in 1 .. Len(jobs) : jobs'[i] = jobs[j]
      /\ \A i \in 1 .. Len(jobs) : jobs[i] # c => \E j \in 1 .. Len(jobs') : jobs'[j] = jobs[i]
      /\ \A i, j \in 1 .. Len(jobs') : i < j => index[jobs'[i]] < index[jobs'[j]]
  <2>1. jobs \in Seq(Child) /\ index \in [Child -> Nat]
    BY <1>t DEF PlaceType
  <2>2. \E i \in 1 .. Len(jobs) : jobs[i] = c
    BY <1>0, <1>t DEF JobsOK
  <2>3. \A i, j \in 1 .. Len(jobs) : i < j => index[jobs[i]] < index[jobs[j]]
    BY <1>t DEF JobsOK
  <2>4. /\ RemoveFirst(jobs, c) \in Seq(Child)
        /\ \A i \in 1 .. Len(RemoveFirst(jobs, c)) :
             /\ RemoveFirst(jobs, c)[i] # c
             /\ \E j \in 1 .. Len(jobs) : RemoveFirst(jobs, c)[i] = jobs[j]
        /\ \A i \in 1 .. Len(jobs) :
             jobs[i] # c => \E j \in 1 .. Len(RemoveFirst(jobs, c)) :
                              RemoveFirst(jobs, c)[j] = jobs[i]
        /\ \A i, j \in 1 .. Len(RemoveFirst(jobs, c)) :
             i < j => index[RemoveFirst(jobs, c)[i]] < index[RemoveFirst(jobs, c)[j]]
    BY <2>1, <2>2, <2>3, RemoveFirstKeeps, Zenon
  <2> QED
    BY <2>4, <1>0, Zenon
<1>g. /\ Len(ended_jobs) \in Nat
      /\ \A i \in 1 .. Len(ended_jobs) :
           ended_jobs[i] \in Over /\ mem[ended_jobs[i]] = "live" /\ ended_jobs[i] \in Child
  BY <1>t DEF EndedOK, PlaceType
<1>h. max_ended_jobs > 0 =>
        /\ Len(ended_jobs') = Len(ended_jobs) + 1
        /\ ended_jobs'[Len(ended_jobs) + 1] = c
        /\ \A i \in 1 .. Len(ended_jobs) : ended_jobs'[i] = ended_jobs[i]
        /\ ended_jobs' \in Seq(Child)
  <2>1. max_ended_jobs > 0 => ended_jobs' = Append(ended_jobs, c)
    BY <1>e, <1>t DEF PlaceType
  <2>2. /\ Len(Append(ended_jobs, c)) = Len(ended_jobs) + 1
        /\ Append(ended_jobs, c)[Len(ended_jobs) + 1] = c
        /\ \A i \in 1 .. Len(ended_jobs) : Append(ended_jobs, c)[i] = ended_jobs[i]
        /\ Append(ended_jobs, c) \in Seq(Child)
    BY <1>t DEF PlaceType
  <2> QED
    BY <2>1, <2>2
<1>m. mem[c] = "live"
  BY <1>0, <1>1, <1>t DEF MemOK
<1>3. PlaceType'
  <2>1. ended_micros' \in [Child -> Nat] /\ n_ended' \in Nat
    BY <1>0, <1>t DEF PlaceType
  <2>2. ended_jobs' \in Seq(Child)
    BY <1>e, <1>h, <1>t DEF PlaceType
  <2> QED
    BY <2>1, <2>2, <1>0, <1>e, <1>f, <1>t DEF PlaceType
<1>4. PlaceOK'
  BY <1>0, <1>1, <1>e, <1>t DEF PlaceOK
<1>5. MemOK'
  BY <1>0, <1>1, <1>t DEF MemOK
<1>6. EndedOK'
  <2>1. \A d \in Over' : ended_micros'[d] < n_ended'
    <3> SUFFICES ASSUME NEW d \in Over' PROVE ended_micros'[d] < n_ended'
      OBVIOUS
    <3>1. n_ended \in Nat /\ ended_micros \in [Child -> Nat] /\ d \in Child
      BY <1>1, <1>t DEF PlaceType
    <3>2. CASE d = c
      BY <3>1, <3>2, <1>0
    <3>3. CASE d # c
      <4>1. ended_micros[d] < n_ended /\ ended_micros'[d] = ended_micros[d]
        BY <3>1, <3>3, <1>0, <1>1, <1>t DEF EndedOK
      <4> QED
        BY <3>1, <4>1, <1>0
    <3> QED
      BY <3>2, <3>3
  <2>2. \A i \in 1 .. Len(ended_jobs) :
          /\ ended_micros'[ended_jobs[i]] = ended_micros[ended_jobs[i]]
          /\ ended_micros[ended_jobs[i]] < n_ended
    BY <1>0, <1>1, <1>g, <1>t DEF EndedOK, PlaceType
  <2>3. ended_micros'[c] = n_ended
    BY <1>0, <1>t DEF PlaceType
  <2>4. CASE max_ended_jobs = 0
    <3>1. ended_jobs' = ended_jobs /\ at' = "job_ended"
      BY <2>4, <1>e
    <3> QED
      BY <2>1, <2>2, <2>4, <3>1, <1>0, <1>1, <1>g, <1>t DEF EndedOK
  <2>5. CASE max_ended_jobs > 0
    <3>0. \A i \in 1 .. Len(ended_jobs') : i \in 1 .. Len(ended_jobs) \/ i = Len(ended_jobs) + 1
      BY <2>5, <1>g, <1>h
    <3>1. \A i \in 1 .. Len(ended_jobs') :
            ended_jobs'[i] \in Over' /\ mem'[ended_jobs'[i]] = "live"
      BY <2>5, <3>0, <1>0, <1>1, <1>g, <1>h, <1>m
    <3>2. ASSUME NEW i \in 1 .. Len(ended_jobs'), NEW j \in 1 .. Len(ended_jobs'), i < j
          PROVE  ended_micros'[ended_jobs'[i]] < ended_micros'[ended_jobs'[j]]
      <4>1. i \in 1 .. Len(ended_jobs)
        BY <3>2, <3>0, <2>5, <1>g, <1>h
      <4>2. CASE j \in 1 .. Len(ended_jobs)
        BY <3>2, <4>1, <4>2, <2>2, <2>5, <1>h, <1>t DEF EndedOK
      <4>3. CASE j = Len(ended_jobs) + 1
        BY <4>1, <4>3, <2>2, <2>3, <2>5, <1>h
      <4> QED
        BY <4>2, <4>3, <3>0
    <3>3. ASSUME NEW d \in Over', mem'[d] # "freed"
          PROVE  \E i \in 1 .. Len(ended_jobs') : ended_jobs'[i] = d
      <4>1. CASE d = c
        BY <4>1, <2>5, <1>g, <1>h
      <4>2. CASE d # c
        <5>1. PICK i \in 1 .. Len(ended_jobs) : ended_jobs[i] = d
          BY <3>3, <4>2, <1>0, <1>1, <1>t DEF EndedOK
        <5>2. i \in 1 .. Len(ended_jobs') /\ ended_jobs'[i] = d
          BY <5>1, <2>5, <1>g, <1>h
        <5> QED
          BY <5>2
      <4> QED
        BY <4>1, <4>2
    <3> QED
      BY <2>1, <3>1, <3>2, <3>3 DEF EndedOK
  <2> QED
    BY <2>4, <2>5, <1>t DEF PlaceType
<1>7. ReportOK'
  <2>1. CASE max_ended_jobs = 0
    BY <2>1, <1>0, <1>1, <1>e, <1>g, <1>m DEF ReportOK
  <2>2. CASE max_ended_jobs > 0
    <3>1. /\ at' = "trim" /\ Len(ended_jobs') = Len(ended_jobs) + 1
          /\ ended_jobs'[Len(ended_jobs')] = c
      BY <2>2, <1>e, <1>h
    <3>2. ended_jobs' # <<>>
      BY <3>1, <1>g
    <3> QED
      BY <2>2, <3>1, <3>2, <1>0 DEF ReportOK
  <2> QED
    BY <2>1, <2>2, <1>t DEF PlaceType
<1>8. JobsOK'
  <2>1. \A d \in running' \ {job'} : \E i \in 1 .. Len(jobs') : jobs'[i] = d
    <3> SUFFICES ASSUME NEW d \in running \ {c} PROVE \E i \in 1 .. Len(jobs') : jobs'[i] = d
      BY <1>0
    <3>1. PICK i \in 1 .. Len(jobs) : jobs[i] = d
      BY <1>0, <1>t, UIAssumption DEF JobsOK, PlaceType
    <3> QED
      BY <3>1, <1>f
  <2>2. \A i \in 1 .. Len(jobs') : jobs'[i] \in running' /\ jobs'[i] # job'
    BY <1>0, <1>f, <1>t DEF JobsOK
  <2>3. \A d \in Started' : index'[d] < n_started'
    BY <1>0, <1>1, <1>t DEF JobsOK
  <2> QED
    BY <2>1, <2>2, <2>3, <1>0, <1>f DEF JobsOK
<1> QED
  BY <1>3, <1>4, <1>5, <1>6, <1>7, <1>8 DEF LifeInv

\* ended_jobs_trim returns.
LEMMA TrimReturnLife ==
  ASSUME LifeInv, TrimReturn PROVE LifeInv'
<1>0. /\ at = "trim" /\ at' = "job_ended" /\ Len(ended_jobs) <= max_ended_jobs
      /\ UNCHANGED <<running, finished, refused, exited, job, jobs, ended_jobs,
                     max_ended_jobs, n_started, n_ended, n_failed, mem, destroyed, index,
                     status, ended_micros, recorder_data>>
  BY DEF TrimReturn, contract, tables, counts, records, TooMany, LifeInv, PlaceType
<1>t. PlaceType /\ PlaceOK /\ MemOK /\ EndedOK /\ ReportOK /\ JobsOK
  BY DEF LifeInv
<1>1. Started' = Started /\ Over' = Over
  BY <1>0 DEF Started, Over
<1>2. /\ max_ended_jobs > 0 /\ ended_jobs # <<>> /\ ended_jobs[Len(ended_jobs)] = job
      /\ Len(ended_jobs) \in Nat /\ Len(ended_jobs) > 0
  BY <1>0, <1>t DEF ReportOK, PlaceType
<1>3. mem[job] = "live"
  BY <1>2, <1>t DEF EndedOK
<1>4. PlaceType' /\ PlaceOK' /\ MemOK'
  BY <1>0, <1>1, <1>t DEF PlaceType, PlaceOK, MemOK
<1>5. EndedOK' /\ JobsOK'
  BY <1>0, <1>1, <1>t DEF EndedOK, JobsOK
<1>6. ReportOK'
  BY <1>0, <1>2, <1>3 DEF ReportOK
<1> QED
  BY <1>4, <1>5, <1>6 DEF LifeInv

\* The rest of ui_child_done.
LEMMA DoneReturnLife ==
  ASSUME LifeInv, ~CapInCallback, DoneReturn PROVE LifeInv'
<1>t. PlaceType /\ PlaceOK /\ MemOK /\ EndedOK /\ ReportOK /\ JobsOK
  BY DEF LifeInv
<1>0. /\ at = "job_ended" /\ at' = "idle" /\ job' = NoJob
      /\ job \in running /\ job \in exited
      /\ running' = running \ {job} /\ finished' = finished \cup {job}
      /\ recorder_data' = [recorder_data EXCEPT ![job] = [r \in Recorder |-> "released"]]
      /\ UNCHANGED <<refused, exited, jobs, ended_jobs, max_ended_jobs, n_started, n_ended,
                     n_failed, index, status, ended_micros>>
      /\ IF max_ended_jobs = 0 THEN JobDestroy(job) ELSE UNCHANGED <<mem, destroyed>>
  BY DEF DoneReturn, Container!Done, CapAfterCallback, counts
<1>1. job \in Child /\ job # NoJob /\ job \notin finished
  BY <1>0, <1>t, UIAssumption DEF PlaceType, PlaceOK
<1>2. /\ Started' = Started /\ Over' = Over /\ job \in Over /\ job \in Started
      /\ Over = finished \cup {job} /\ Started \subseteq Child
  BY <1>0, <1>1, <1>t, UIAssumption DEF Started, Over, PlaceType
<1>3. /\ \A d \in Child \ {job} : mem'[d] = mem[d] /\ destroyed'[d] = destroyed[d]
      /\ max_ended_jobs = 0 => mem'[job] = "freed" /\ destroyed'[job] = 1
      /\ max_ended_jobs > 0 => mem'[job] = mem[job] /\ destroyed'[job] = destroyed[job]
      /\ mem' \in [Child -> {"none", "live", "freed"}] /\ destroyed' \in [Child -> Nat]
  <2>1. CASE max_ended_jobs = 0
    <3>1. destroyed[job] = 0
      BY <2>1, <1>0, <1>1, <1>t DEF ReportOK, MemOK
    <3>2. JobDestroy(job)
      BY <2>1, <1>0
    <3>3. mem' = [mem EXCEPT ![job] = "freed"] /\ destroyed' = [destroyed EXCEPT ![job] = @ + 1]
      BY <3>2 DEF JobDestroy
    <3>4. mem \in [Child -> {"none", "live", "freed"}] /\ destroyed \in [Child -> Nat]
      BY <1>t DEF PlaceType
    <3> QED
      BY <2>1, <3>1, <3>3, <3>4, <1>1
  <2>2. CASE max_ended_jobs > 0
    BY <2>2, <1>0, <1>1, <1>t DEF PlaceType
  <2> QED
    BY <2>1, <2>2, <1>t DEF PlaceType
<1>4. PlaceType'
  <2>1. recorder_data' \in [Child -> [Recorder -> {"none", "open", "released"}]]
    BY <1>0, <1>1, <1>t DEF PlaceType
  <2> QED
    BY <2>1, <1>0, <1>1, <1>3, <1>t DEF PlaceType
<1>5. PlaceOK'
  BY <1>0, <1>1, <1>2, <1>t DEF PlaceOK
<1>6. MemOK'
  <2> SUFFICES ASSUME NEW d \in Child
               PROVE  /\ d \in Started' => mem'[d] \in {"live", "freed"}
                      /\ d \in Started' \ Over' => mem'[d] = "live"
                      /\ destroyed'[d] = IF d \in Started' /\ mem'[d] = "freed" THEN 1 ELSE 0
                      /\ d \in finished' => \A r \in Recorder : recorder_data'[d][r] = "released"
    BY DEF MemOK
  <2>1. CASE d = job
    <3>1. \A r \in Recorder : recorder_data'[d][r] = "released"
      BY <2>1, <1>0, <1>1, <1>t DEF PlaceType
    <3>2. mem[job] \in {"live", "freed"} /\ destroyed[job] = IF mem[job] = "freed" THEN 1 ELSE 0
      BY <1>1, <1>2, <1>t DEF MemOK
    <3> QED
      BY <2>1, <3>1, <3>2, <1>2, <1>3, <1>t DEF PlaceType
  <2>2. CASE d # job
    <3>1. recorder_data'[d] = recorder_data[d]
      BY <2>2, <1>0, <1>t DEF PlaceType
    <3> QED
      BY <2>2, <3>1, <1>0, <1>2, <1>3, <1>t DEF MemOK
  <2> QED
    BY <2>1, <2>2
<1>7. EndedOK'
  <2>1. ASSUME NEW i \in 1 .. Len(ended_jobs) PROVE mem'[ended_jobs[i]] = "live"
    <3>1. ended_jobs[i] \in Child /\ mem[ended_jobs[i]] = "live"
      BY <1>t DEF EndedOK, PlaceType
    <3>2. CASE max_ended_jobs = 0
      <4>1. ended_jobs[i] # job
        BY <3>2, <1>0, <1>t DEF ReportOK
      <4> QED
        BY <3>1, <4>1, <1>3
    <3>3. CASE max_ended_jobs > 0
      BY <3>1, <3>3, <1>3
    <3> QED
      BY <3>2, <3>3, <1>t DEF PlaceType
  <2>2. ASSUME NEW d \in Over, mem'[d] # "freed"
        PROVE  \E i \in 1 .. Len(ended_jobs) : ended_jobs[i] = d
    <3>1. d \in Child /\ mem[d] # "freed" /\ ~(max_ended_jobs = 0 /\ d = job)
      BY <2>2, <1>2, <1>3, <1>t DEF PlaceType
    <3> QED
      BY <3>1, <1>t DEF EndedOK
  <2> QED
    BY <2>1, <2>2, <1>0, <1>2, <1>t DEF EndedOK
<1>8. ReportOK'
  BY <1>0 DEF ReportOK
<1>9. JobsOK'
  <2>1. \A d \in running' \ {job'} : \E i \in 1 .. Len(jobs) : jobs[i] = d
    BY <1>0, <1>t DEF JobsOK
  <2>2. \A i \in 1 .. Len(jobs) : jobs[i] \in running' /\ jobs[i] # job'
    BY <1>0, <1>t, UIAssumption DEF JobsOK, PlaceType
  <2>3. \A d \in Started' : index'[d] < n_started'
    BY <1>0, <1>2, <1>t DEF JobsOK
  <2> QED
    BY <2>1, <2>2, <2>3, <1>0, <1>t DEF JobsOK
<1> QED
  BY <1>4, <1>5, <1>6, <1>7, <1>8, <1>9 DEF LifeInv

-----------------------------------------------------------------------------
(* Letting go of retained jobs.                                            *)

\* A retained job is destroyed, and only it leaves ui->ended_jobs.
LEMMA DestroyLife ==
  ASSUME LifeInv, NEW k \in 1 .. Len(ended_jobs), NEW e \in Child, ended_jobs[k] = e,
         at # "freed", JobDestroy(e),
         UNCHANGED <<running, finished, refused, exited, at, job, jobs, max_ended_jobs,
                     counts, records>>,
         ended_jobs' \in Seq(Child),
         \A i \in 1 .. Len(ended_jobs') :
           ended_jobs'[i] # e /\ \E j \in 1 .. Len(ended_jobs) : ended_jobs'[i] = ended_jobs[j],
         \A i \in 1 .. Len(ended_jobs) :
           ended_jobs[i] # e =>
             \E j \in 1 .. Len(ended_jobs') : ended_jobs'[j] = ended_jobs[i],
         \A i, j \in 1 .. Len(ended_jobs') :
           i < j => ended_micros[ended_jobs'[i]] < ended_micros[ended_jobs'[j]]
  PROVE  PlaceType' /\ PlaceOK' /\ MemOK' /\ EndedOK' /\ JobsOK'
<1>t. PlaceType /\ PlaceOK /\ MemOK /\ EndedOK /\ JobsOK
  BY DEF LifeInv
<1>0. /\ Started' = Started /\ Over' = Over /\ Over \subseteq Started /\ Over \subseteq Child
      /\ UNCHANGED <<n_started, n_ended, n_failed, index, status, ended_micros, recorder_data>>
  <2>1. Over \subseteq Started
    BY DEF Over, Started
  <2>2. Started \subseteq Child
    BY <1>t DEF Started, PlaceType
  <2> QED
    BY <2>1, <2>2 DEF Started, Over, counts, records
<1>1. e \in Over /\ e \in Started /\ mem[e] = "live" /\ destroyed[e] = 0
  BY <1>0, <1>t DEF EndedOK, MemOK
<1>2. /\ mem' \in [Child -> {"none", "live", "freed"}] /\ destroyed' \in [Child -> Nat]
      /\ mem'[e] = "freed" /\ destroyed'[e] = 1
      /\ \A c \in Child \ {e} : mem'[c] = mem[c] /\ destroyed'[c] = destroyed[c]
  <2>1. mem' = [mem EXCEPT ![e] = "freed"] /\ destroyed' = [destroyed EXCEPT ![e] = @ + 1]
    BY DEF JobDestroy
  <2>2. mem \in [Child -> {"none", "live", "freed"}] /\ destroyed \in [Child -> Nat]
    BY <1>t DEF PlaceType
  <2> QED
    BY <1>1, <2>1, <2>2
<1>3. PlaceType'
  BY <1>0, <1>2, <1>t DEF PlaceType
<1>4. PlaceOK'
  BY <1>0, <1>t DEF PlaceOK
<1>5. MemOK'
  <2> SUFFICES ASSUME NEW c \in Child
               PROVE  /\ c \in Started' => mem'[c] \in {"live", "freed"}
                      /\ c \in Started' \ Over' => mem'[c] = "live"
                      /\ destroyed'[c] = IF c \in Started' /\ mem'[c] = "freed" THEN 1 ELSE 0
                      /\ c \in finished' => \A r \in Recorder : recorder_data'[c][r] = "released"
    BY DEF MemOK
  <2>1. CASE c = e
    BY <2>1, <1>0, <1>1, <1>2, <1>t DEF MemOK
  <2>2. CASE c # e
    BY <2>2, <1>0, <1>2, <1>t DEF MemOK
  <2> QED
    BY <2>1, <2>2
<1>6. EndedOK'
  <2>1. ASSUME NEW i \in 1 .. Len(ended_jobs')
        PROVE  ended_jobs'[i] \in Over /\ mem'[ended_jobs'[i]] = "live"
    <3>1. PICK j \in 1 .. Len(ended_jobs) : ended_jobs'[i] = ended_jobs[j]
      OBVIOUS
    <3>2. ended_jobs[j] \in Over /\ mem[ended_jobs[j]] = "live" /\ ended_jobs[j] # e
      BY <3>1, <1>t DEF EndedOK
    <3> QED
      BY <3>1, <3>2, <1>0, <1>2
  <2>2. ASSUME NEW c \in Over, mem'[c] # "freed", ~(at = "job_ended" /\ c = job /\ max_ended_jobs = 0)
        PROVE  \E i \in 1 .. Len(ended_jobs') : ended_jobs'[i] = c
    <3>1. c \in Child /\ c # e /\ mem[c] # "freed"
      BY <2>2, <1>0, <1>2
    <3>2. PICK i \in 1 .. Len(ended_jobs) : ended_jobs[i] = c
      BY <3>1, <2>2, <1>t DEF EndedOK
    <3> QED
      BY <3>1, <3>2
  <2>3. \A c \in Over' : ended_micros'[c] < n_ended'
    BY <1>0, <1>t DEF EndedOK
  <2> QED
    BY <2>1, <2>2, <2>3, <1>0 DEF EndedOK
<1>7. JobsOK'
  BY <1>0, <1>t DEF JobsOK
<1> QED
  BY <1>3, <1>4, <1>5, <1>6, <1>7

\* One round of ended_jobs_trim: the job whose end is reported is the
\* youngest, and as its UI keeps at least one, it is not evicted.
LEMMA TrimLife ==
  ASSUME LifeInv, ~CapInCallback, Trim PROVE LifeInv'
<1>t. PlaceType /\ PlaceOK /\ MemOK /\ EndedOK /\ ReportOK /\ JobsOK
  BY DEF LifeInv
<1> DEFINE n == Len(ended_jobs)
           e == Head(ended_jobs)
<1>0. /\ at \in {"trim", "free"} /\ n > max_ended_jobs
      /\ JobDestroy(e) /\ ended_jobs' = Tail(ended_jobs)
      /\ UNCHANGED <<running, finished, refused, exited, at, job, jobs, max_ended_jobs,
                     counts, records>>
  BY DEF Trim, TooMany, CapAfterCallback, contract
<1>1. ended_jobs \in Seq(Child) /\ n \in Nat /\ max_ended_jobs \in Nat /\ n > 0 /\ 1 \in 1 .. n
  BY <1>0, <1>t DEF PlaceType
<1>2. e = ended_jobs[1] /\ e \in Child
  BY <1>1
<1>3. /\ ended_jobs' \in Seq(Child) /\ Len(ended_jobs') = n - 1
      /\ \A i \in 1 .. n - 1 : ended_jobs'[i] = ended_jobs[i + 1]
  BY <1>0, <1>1
<1> HIDE DEF n, e
<1>4. \A i, j \in 1 .. n : i < j => ended_micros[ended_jobs[i]] < ended_micros[ended_jobs[j]]
  BY <1>t DEF EndedOK, n
<1>5. \A i \in 1 .. n - 1 : i + 1 \in 1 .. n
  BY <1>1
<1>6. \A i \in 1 .. n - 1 : ended_jobs'[i] # e /\ \E j \in 1 .. n : ended_jobs'[i] = ended_jobs[j]
  <2> SUFFICES ASSUME NEW i \in 1 .. n - 1
               PROVE  ended_jobs'[i] # e /\ \E j \in 1 .. n : ended_jobs'[i] = ended_jobs[j]
    OBVIOUS
  <2>1. 1 < i + 1 /\ i + 1 \in 1 .. n
    BY <1>1
  <2>2. ended_micros[e] < ended_micros[ended_jobs[i + 1]]
    BY <2>1, <1>1, <1>2, <1>4
  <2>3. ended_micros[e] \in Nat
    BY <1>2, <1>t DEF PlaceType
  <2> QED
    BY <2>1, <2>2, <2>3, <1>3
<1>7. \A i \in 1 .. n : ended_jobs[i] # e => \E j \in 1 .. n - 1 : ended_jobs'[j] = ended_jobs[i]
  <2> SUFFICES ASSUME NEW i \in 1 .. n, ended_jobs[i] # e
               PROVE  \E j \in 1 .. n - 1 : ended_jobs'[j] = ended_jobs[i]
    OBVIOUS
  <2>1. i # 1
    BY <1>2
  <2>2. i - 1 \in 1 .. n - 1 /\ (i - 1) + 1 = i
    BY <1>1, <2>1
  <2> QED
    BY <2>2, <1>3
<1>8. \A i, j \in 1 .. n - 1 :
        i < j => ended_micros[ended_jobs'[i]] < ended_micros[ended_jobs'[j]]
  <2> SUFFICES ASSUME NEW i \in 1 .. n - 1, NEW j \in 1 .. n - 1, i < j
               PROVE  ended_micros[ended_jobs'[i]] < ended_micros[ended_jobs'[j]]
    OBVIOUS
  <2>1. i + 1 \in 1 .. n /\ j + 1 \in 1 .. n /\ i + 1 < j + 1
    BY <1>1
  <2> QED
    BY <2>1, <1>3, <1>4
<1>9. PlaceType' /\ PlaceOK' /\ MemOK' /\ EndedOK' /\ JobsOK'
  <2>1. /\ 1 \in 1 .. Len(ended_jobs) /\ ended_jobs[1] = e /\ e \in Child /\ at # "freed"
        /\ Len(ended_jobs') = n - 1 /\ n = Len(ended_jobs)
    BY <1>0, <1>1, <1>2, <1>3 DEF n
  <2>2. /\ \A i \in 1 .. Len(ended_jobs') :
             /\ ended_jobs'[i] # e
             /\ \E j \in 1 .. Len(ended_jobs) : ended_jobs'[i] = ended_jobs[j]
        /\ \A i \in 1 .. Len(ended_jobs) :
             ended_jobs[i] # e =>
               \E j \in 1 .. Len(ended_jobs') : ended_jobs'[j] = ended_jobs[i]
    BY <2>1, <1>6, <1>7
  <2>3. \A i, j \in 1 .. Len(ended_jobs') :
          i < j => ended_micros[ended_jobs'[i]] < ended_micros[ended_jobs'[j]]
    BY <2>1, <1>8
  <2> QED
    BY <2>1, <2>2, <2>3, <1>0, <1>3, DestroyLife
<1>10. ReportOK'
  <2>1. CASE at = "free"
    BY <2>1, <1>0 DEF ReportOK
  <2>2. CASE at = "trim"
    <3>1. max_ended_jobs > 0 /\ ended_jobs[n] = job /\ n > 1
      BY <2>2, <1>0, <1>1, <1>t DEF ReportOK, n
    <3>2. n - 1 \in 1 .. n - 1 /\ (n - 1) + 1 = n
      BY <3>1, <1>1
    <3>3. ended_jobs'[Len(ended_jobs')] = job /\ ended_jobs' # <<>>
      BY <3>1, <3>2, <1>3
    <3> QED
      BY <2>2, <3>1, <3>3, <1>0 DEF ReportOK
  <2> QED
    BY <2>1, <2>2, <1>0
<1> QED
  BY <1>9, <1>10 DEF LifeInv

\* yc_ui_reap_job.
LEMMA ReapLife ==
  ASSUME LifeInv, NEW c \in Child, Reap(c) PROVE LifeInv'
<1>t. PlaceType /\ PlaceOK /\ MemOK /\ EndedOK /\ ReportOK /\ JobsOK
  BY DEF LifeInv
<1>0. /\ at = "idle" \/ (at = "job_ended" /\ (c # job \/ ReapInCallback))
      /\ JobDestroy(c) /\ ended_jobs' = RemoveFirst(ended_jobs, c)
      /\ UNCHANGED <<running, finished, refused, exited, at, job, jobs, max_ended_jobs,
                     counts, records>>
  BY DEF Reap, contract
<1>1. PICK k \in 1 .. Len(ended_jobs) : ended_jobs[k] = c
  BY DEF Reap
<1>2. ended_jobs \in Seq(Child) /\ Len(ended_jobs) \in Nat /\ ended_micros \in [Child -> Nat]
  BY <1>t DEF PlaceType
<1>3. \A i, j \in 1 .. Len(ended_jobs) :
        i < j => ended_micros[ended_jobs[i]] < ended_micros[ended_jobs[j]]
  BY <1>t DEF EndedOK
<1>4. /\ RemoveFirst(ended_jobs, c) \in Seq(Child)
      /\ Len(RemoveFirst(ended_jobs, c)) = Len(ended_jobs) - 1
      /\ \A i \in 1 .. Len(RemoveFirst(ended_jobs, c)) :
           /\ RemoveFirst(ended_jobs, c)[i] # c
           /\ \E j \in 1 .. Len(ended_jobs) : RemoveFirst(ended_jobs, c)[i] = ended_jobs[j]
      /\ \A i \in 1 .. Len(ended_jobs) :
           ended_jobs[i] # c => \E j \in 1 .. Len(RemoveFirst(ended_jobs, c)) :
                                  RemoveFirst(ended_jobs, c)[j] = ended_jobs[i]
      /\ \A i, j \in 1 .. Len(RemoveFirst(ended_jobs, c)) :
           i < j => ended_micros[RemoveFirst(ended_jobs, c)[i]]
                      < ended_micros[RemoveFirst(ended_jobs, c)[j]]
      /\ ended_jobs[Len(ended_jobs)] # c =>
           /\ RemoveFirst(ended_jobs, c) # <<>>
           /\ RemoveFirst(ended_jobs, c)[Len(ended_jobs) - 1] = ended_jobs[Len(ended_jobs)]
  <2>1. \E i \in 1 .. Len(ended_jobs) : ended_jobs[i] = c
    BY <1>1
  <2> QED
    BY <2>1, <1>2, <1>3, RemoveFirstKeeps, Zenon
<1>5. PlaceType' /\ PlaceOK' /\ MemOK' /\ EndedOK' /\ JobsOK'
  <2>1. at # "freed"
    BY <1>0
  <2> QED
    BY <2>1, <1>0, <1>1, <1>4, DestroyLife
<1>6. /\ \A i \in 1 .. Len(ended_jobs') : \E j \in 1 .. Len(ended_jobs) : ended_jobs'[i] = ended_jobs[j]
      /\ Len(ended_jobs') = Len(ended_jobs) - 1
      /\ ended_jobs[Len(ended_jobs)] # c =>
           ended_jobs' # <<>> /\ ended_jobs'[Len(ended_jobs')] = ended_jobs[Len(ended_jobs)]
  BY <1>0, <1>4
<1>7. /\ mem'[c] = "freed" /\ \A d \in Child \ {c} : mem'[d] = mem[d]
  <2>1. mem' = [mem EXCEPT ![c] = "freed"] /\ mem \in [Child -> {"none", "live", "freed"}]
    BY <1>0, <1>t DEF JobDestroy, PlaceType
  <2> QED
    BY <2>1
<1>8. ReportOK'
  <2>1. CASE at = "idle"
    BY <2>1, <1>0 DEF ReportOK
  <2>2. CASE at = "job_ended" /\ max_ended_jobs > 0
    <3>0. job \in Child
      BY <2>2, <1>t DEF PlaceOK, PlaceType
    <3>1. Len(ended_jobs') <= max_ended_jobs
      BY <2>2, <1>2, <1>6, <1>t DEF ReportOK, PlaceType
    <3>2. mem'[job] = "live" => job # c /\ mem[job] = "live"
      BY <3>0, <1>7
    <3>3. mem'[job] = "live" => ended_jobs' # <<>> /\ ended_jobs'[Len(ended_jobs')] = job
      BY <2>2, <3>2, <1>6, <1>t DEF ReportOK
    <3>4. ~ReapInCallback => mem'[job] = "live"
      BY <2>2, <3>0, <1>0, <1>7, <1>t DEF ReportOK
    <3> QED
      BY <2>2, <3>1, <3>3, <3>4, <1>0 DEF ReportOK
  <2>3. CASE at = "job_ended" /\ max_ended_jobs = 0
    <3>0. job \in Child /\ job # c
      BY <2>3, <1>1, <1>t DEF PlaceOK, PlaceType, ReportOK
    <3>1. mem'[job] = "live"
      BY <2>3, <3>0, <1>7, <1>t DEF ReportOK
    <3>2. \A i \in 1 .. Len(ended_jobs') : ended_jobs'[i] # job
      BY <2>3, <1>6, <1>t DEF ReportOK
    <3> QED
      BY <2>3, <3>1, <3>2, <1>0 DEF ReportOK
  <2> QED
    BY <2>1, <2>2, <2>3, <1>0, <1>t DEF PlaceType
<1> QED
  BY <1>5, <1>8 DEF LifeInv

\* The UI changes its mind.
LEMMA SetCapLife == ASSUME LifeInv, NEW m \in Cap, SetCap(m) PROVE LifeInv'
<1>0. /\ at = "idle" /\ max_ended_jobs' \in Nat
      /\ UNCHANGED <<running, finished, refused, exited, at, job, jobs, ended_jobs, n_started,
                     n_ended, n_failed, mem, destroyed, index, status, ended_micros,
                     recorder_data>>
  BY UIAssumption DEF SetCap, contract, counts, records
<1>1. Started' = Started /\ Over' = Over
  BY <1>0 DEF Started, Over
<1> QED
  BY <1>0, <1>1 DEF LifeInv, PlaceType, PlaceOK, MemOK, EndedOK, ReportOK, JobsOK

\* yc_ui_free, up to its ended_jobs_trim and after it.
LEMMA FreeLife == ASSUME LifeInv, Free PROVE LifeInv'
<1>0. /\ at = "idle" /\ at' = "free" /\ max_ended_jobs' = 0 /\ running = {}
      /\ UNCHANGED <<running, finished, refused, exited, job, jobs, ended_jobs, n_started,
                     n_ended, n_failed, mem, destroyed, index, status, ended_micros,
                     recorder_data>>
  BY DEF Free, contract, counts, records
<1>1. Started' = Started /\ Over' = Over
  BY <1>0 DEF Started, Over
<1> QED
  BY <1>0, <1>1 DEF LifeInv, PlaceType, PlaceOK, MemOK, EndedOK, ReportOK, JobsOK

\* The end of yc_ui_free keeps the invariant.
LEMMA FreeReturnLife == ASSUME LifeInv, FreeReturn PROVE LifeInv'
<1>0. /\ at = "free" /\ at' = "freed" /\ Len(ended_jobs) <= max_ended_jobs
      /\ UNCHANGED <<running, finished, refused, exited, job, jobs, ended_jobs,
                     max_ended_jobs, n_started, n_ended, n_failed, mem, destroyed, index,
                     status, ended_micros, recorder_data>>
  BY DEF FreeReturn, TooMany, contract, tables, counts, records, LifeInv, PlaceType
<1>1. Started' = Started /\ Over' = Over
  BY <1>0 DEF Started, Over
<1>2. ended_jobs = <<>>
  <2>1. max_ended_jobs = 0 /\ ended_jobs \in Seq(Child)
    BY <1>0 DEF LifeInv, PlaceOK, PlaceType
  <2> QED
    BY <2>1, <1>0
<1> QED
  BY <1>0, <1>1, <1>2 DEF LifeInv, PlaceType, PlaceOK, MemOK, EndedOK, ReportOK, JobsOK

-----------------------------------------------------------------------------
(* The life of a job.                                                      *)

\* The steps about the output leave everything here alone.
LEMMA OutputLife ==
  ASSUME LifeInv, NEW c \in Child, NEW f \in Fd,
         \/ ReadEnd(c, f) \/ Closed(c, f) \/ ChildHangsUp(c, f)
         \/ \E k \in 1 .. MaxOutput : Read(c, f, k)
         \/ \E b \in Byte : ChildWrites(c, f, b)
  PROVE  LifeInv' /\ UNCHANGED placevars
<1>1. UNCHANGED placevars
  BY DEF ReadEnd, Closed, Container!Close, ChildHangsUp, Read, ChildWrites, placevars,
         contract, tables, counts, records
<1> QED
  BY <1>1, QuietLife

\* The invariant is inductive.
LEMMA NextLife == ASSUME LifeInv, ~CapInCallback, [Next]_vars PROVE LifeInv'
<1>1. CASE Work
  <2>1. CASE Trim \/ TrimReturn \/ DoneReturn
    BY <2>1, TrimLife, TrimReturnLife, DoneReturnLife
  <2>2. CASE \E m \in Cap : SetCap(m)
    BY <2>2, SetCapLife
  <2>3. CASE \E c \in Child : DoneStart(c) \/ Reap(c)
    BY <2>3, DoneStartLife, ReapLife
  <2>4. CASE \E c \in Child, s \in {"ok", "failed"} : Exit(c, s)
    BY <2>4, ExitLife
  <2>5. CASE \E c \in Child, f \in Fd :
               \/ ReadEnd(c, f) \/ Closed(c, f) \/ ChildHangsUp(c, f)
               \/ \E k \in 1 .. MaxOutput : Read(c, f, k)
               \/ \E b \in Byte : ChildWrites(c, f, b)
    BY <2>5, OutputLife
  <2> QED
    BY <1>1, <2>1, <2>2, <2>3, <2>4, <2>5 DEF Work
<1>2. CASE Free \/ FreeReturn
  BY <1>2, FreeLife, FreeReturnLife
<1>3. CASE \E c \in Child : SpawnFails(c) \/ \E P \in SUBSET Fd : Spawn(c, P)
  BY <1>3, SpawnFailsLife, SpawnLife
<1>4. CASE Terminated \/ UNCHANGED vars
  <2>1. UNCHANGED placevars
    BY <1>4 DEF Terminated, vars, placevars, counts, records
  <2> QED
    BY <2>1, QuietLife
<1> QED
  BY <1>1, <1>2, <1>3, <1>4 DEF Next

\* Where jobs are, and what of them is in memory, is always one of the states
\* LifeInv describes, as long as the UI does not change max_ended_jobs in a
\* callback of ui_child_done.
THEOREM LifeAlways == ASSUME ~CapInCallback PROVE Spec => []LifeInv
<1>1. Init => LifeInv
  BY InitLife
<1>2. LifeInv /\ [Next]_vars => LifeInv'
  BY NextLife
<1> QED
  BY <1>1, <1>2, PTL DEF Spec

\* job_destroyed() is called once for every job that was started, after its
\* end was reported and at the latest when the UI is freed, and by then no
\* recorder holds one (job_destroy and its four callers: ended_jobs_trim,
\* ui_child_done, yc_ui_reap_job, yc_ui_free).
THEOREM JobsDestroyedOnce == ASSUME ~CapInCallback PROVE Spec => []DestroyedOnce
<1>1. LifeInv => DestroyedOnce
  <2> SUFFICES ASSUME LifeInv, NEW c \in Child
               PROVE  /\ destroyed[c] <= 1
                      /\ c \notin Over => destroyed[c] = 0
                      /\ at = "freed" /\ c \in Started =>
                           /\ destroyed[c] = 1
                           /\ \A r \in Recorder : recorder_data[c][r] = "released"
    BY DEF DestroyedOnce
  <2>1. destroyed[c] <= 1 /\ (c \notin Over => destroyed[c] = 0)
    BY DEF LifeInv, MemOK
  <2>2. ASSUME at = "freed", c \in Started
        PROVE  destroyed[c] = 1 /\ \A r \in Recorder : recorder_data[c][r] = "released"
    <3>1. running = {} /\ ended_jobs = <<>>
      BY <2>2 DEF LifeInv, PlaceOK
    <3>2. c \in finished /\ c \in Over
      BY <2>2, <3>1 DEF Started, Over
    <3>3. mem[c] = "freed"
      BY <2>2, <3>1, <3>2 DEF LifeInv, EndedOK
    <3> QED
      BY <2>2, <3>2, <3>3 DEF LifeInv, MemOK
  <2> QED
    BY <2>1, <2>2
<1> QED
  BY <1>1, LifeAlways, PTL

\* When a UI that keeps finished jobs is told that one ended, that one is kept
\* and they are no more than it asked for (ui_child_done, ended_jobs_trim).
THEOREM JobsRetainedByCap == ASSUME ~CapInCallback PROVE Spec => []RetainedByCap
<1>1. LifeInv => RetainedByCap
  BY DEF LifeInv, ReportOK, RetainedByCap, Last
<1> QED
  BY <1>1, LifeAlways, PTL

\* ui_child_done, the UI's job_ended() and the recorders' never look at a job
\* that was freed, if the UI does not reap the very job it is told of.
THEOREM JobsValidWhenReported ==
  ASSUME ~CapInCallback, ~ReapInCallback PROVE Spec => ValidWhenReported
<1>1. ASSUME LifeInv, TrimReturn PROVE mem[job] = "live"
  <2>1. at = "trim" /\ ended_jobs \in Seq(Child)
    BY <1>1 DEF TrimReturn, LifeInv, PlaceType
  <2>2. ended_jobs[Len(ended_jobs)] = job /\ Len(ended_jobs) \in 1 .. Len(ended_jobs)
    BY <1>1, <2>1 DEF LifeInv, ReportOK
  <2> QED
    BY <1>1, <2>2 DEF LifeInv, EndedOK
<1>2. ASSUME LifeInv, DoneReturn PROVE mem[job] = "live"
  BY <1>2 DEF DoneReturn, LifeInv, ReportOK
<1>3. LifeInv =>
        [TrimReturn \/ (DoneReturn /\ (Recorder # {} \/ max_ended_jobs' = 0))
           => mem[job] = "live"]_vars
  BY <1>1, <1>2
<1> QED
  BY <1>3, LifeAlways, PTL DEF ValidWhenReported

-----------------------------------------------------------------------------
(* The numbers.                                                            *)

\* The jobs that are counted as failed.
Failed == {c \in Over : status[c] # "ok"}

CountInv == LifeInv /\ CountsOK

\* The sets that are counted are finite.
LEMMA CountedFinite ==
  ASSUME LifeInv PROVE IsFiniteSet(Started) /\ IsFiniteSet(Over) /\ IsFiniteSet(Failed)
<1>1. Started \subseteq Child /\ Over \subseteq Child /\ Failed \subseteq Child
  BY DEF LifeInv, PlaceType, Started, Over, Failed
<1> QED
  BY <1>1, UIAssumption, FS_Subset

\* A step that neither counts a job nor changes what counts.
LEMMA SameCounts ==
  ASSUME CountInv, UNCHANGED <<running, finished, job, counts, index, status>>
  PROVE  CountsOK'
BY DEF CountInv, CountsOK, Started, Over, counts

\* yc_ui_spawn counts the job it starts.
LEMMA SpawnCounts ==
  ASSUME CountInv, NEW c \in Child, NEW P \in SUBSET Fd, Spawn(c, P) PROVE CountsOK'
<1>0. /\ c \notin Started /\ running' = running \cup {c} /\ index' = [index EXCEPT ![c] = n_started]
      /\ n_started' = n_started + 1 /\ at = "idle"
      /\ UNCHANGED <<finished, job, n_ended, n_failed, status>>
      /\ job = NoJob
  BY DEF Spawn, Container!Spawn, Container!Used, CountInv, LifeInv, PlaceOK, Started
<1>1. Started' = Started \cup {c} /\ Over' = Over
  BY <1>0, UIAssumption DEF Started, Over
<1>2. /\ n_started = Cardinality(Started) /\ n_started \in Nat
      /\ {index[d] : d \in Started} = 0 .. n_started - 1
      /\ index \in [Child -> Nat] /\ Started \subseteq Child
  BY DEF CountInv, CountsOK, LifeInv, PlaceType, Started
<1>3. n_started' = Cardinality(Started')
  BY <1>0, <1>1, <1>2, CountedFinite, FS_AddElement DEF CountInv
<1>4. {index'[d] : d \in Started'} = 0 .. n_started' - 1
  <2>1. index'[c] = n_started /\ \A d \in Started : index'[d] = index[d]
    BY <1>0, <1>2
  <2>2. {index'[d] : d \in Started'} = {index[d] : d \in Started} \cup {n_started}
    BY <1>1, <2>1
  <2>3. 0 .. n_started = (0 .. n_started - 1) \cup {n_started}
    BY <1>2
  <2>4. n_started' - 1 = n_started
    BY <1>0, <1>2
  <2> QED
    BY <2>2, <2>3, <2>4, <1>2
<1>5. (n_ended = Cardinality(Over) /\ n_failed = Cardinality({d \in Over : status[d] # "ok"}))'
  BY <1>0, <1>1 DEF CountInv, CountsOK
<1> QED
  BY <1>3, <1>4, <1>5 DEF CountsOK

\* The exit of a process changes no count.
LEMMA ExitCounts ==
  ASSUME CountInv, NEW c \in Child, NEW s \in {"ok", "failed"}, Exit(c, s) PROVE CountsOK'
<1>0. /\ c \in running /\ status' = [status EXCEPT ![c] = s] /\ at = "idle" /\ job = NoJob
      /\ UNCHANGED <<running, finished, job, n_started, n_ended, n_failed, index>>
  BY DEF Exit, Container!Exit, counts, CountInv, LifeInv, PlaceOK
<1>1. Started' = Started /\ Over' = Over /\ Over = finished /\ c \notin Over
  BY <1>0, UIAssumption DEF Started, Over, CountInv, LifeInv, PlaceOK, PlaceType
<1>2. \A d \in Over : status'[d] = status[d]
  BY <1>0, <1>1 DEF CountInv, LifeInv, PlaceType
<1>3. {d \in Over' : status'[d] # "ok"} = {d \in Over : status[d] # "ok"}
  BY <1>1, <1>2
<1> QED
  BY <1>0, <1>1, <1>3 DEF CountInv, CountsOK

\* ui_child_done counts the job that ends, and its failure.
LEMMA DoneStartCounts ==
  ASSUME CountInv, NEW c \in Child, DoneStart(c) PROVE CountsOK'
<1>0. /\ at = "idle" /\ job = NoJob /\ job' = c /\ c \in running /\ c \notin finished
      /\ n_ended' = n_ended + 1
      /\ n_failed' = IF status[c] = "ok" THEN n_failed ELSE n_failed + 1
      /\ UNCHANGED <<running, finished, n_started, index, status>>
  BY DEF DoneStart, contract, CountInv, LifeInv, PlaceOK
<1>1. Started' = Started /\ Over' = Over \cup {c} /\ c \notin Over
  BY <1>0, UIAssumption DEF Started, Over, CountInv, LifeInv, PlaceType
<1>2. n_ended = Cardinality(Over) /\ n_failed = Cardinality(Failed) /\ IsFiniteSet(Over) /\ IsFiniteSet(Failed)
  BY CountedFinite DEF CountInv, CountsOK, Failed
<1>3. n_ended' = Cardinality(Over')
  BY <1>0, <1>1, <1>2, FS_AddElement
<1>4. n_failed' = Cardinality(Failed')
  <2>1. CASE status[c] = "ok"
    <3>1. Failed' = Failed
      BY <2>1, <1>0, <1>1 DEF Failed
    <3> QED
      BY <2>1, <3>1, <1>0, <1>2
  <2>2. CASE status[c] # "ok"
    <3>1. Failed' = Failed \cup {c} /\ c \notin Failed
      BY <2>2, <1>0, <1>1 DEF Failed
    <3> QED
      BY <2>2, <3>1, <1>0, <1>2, FS_AddElement
  <2> QED
    BY <2>1, <2>2
<1> QED
  BY <1>0, <1>1, <1>3, <1>4 DEF CountInv, CountsOK, Failed

\* The end of ui_child_done changes no count.
LEMMA DoneReturnCounts == ASSUME CountInv, DoneReturn PROVE CountsOK'
<1>0. /\ job \in running /\ job' = NoJob
      /\ running' = running \ {job} /\ finished' = finished \cup {job}
      /\ UNCHANGED <<n_started, n_ended, n_failed, index, status>>
  BY DEF DoneReturn, Container!Done, counts
<1>1. Started' = Started /\ Over' = Over
  BY <1>0, UIAssumption DEF Started, Over, CountInv, LifeInv, PlaceType
<1> QED
  BY <1>0, <1>1 DEF CountInv, CountsOK

\* At first nothing is counted.
LEMMA InitCounts == ASSUME Init PROVE CountsOK
<1>1. Started = {} /\ Over = {} /\ n_started = 0 /\ n_ended = 0 /\ n_failed = 0
  BY DEF Init, Container!Init, Started, Over
<1>2. {index[c] : c \in Started} = {} /\ {c \in Over : status[c] # "ok"} = {} /\ 0 .. 0 - 1 = {}
  BY <1>1
<1> QED
  BY <1>1, <1>2, FS_EmptySet DEF CountsOK

\* The counts stay true.
LEMMA NextCounts == ASSUME CountInv, [Next]_vars PROVE CountsOK'
<1>1. CASE Work
  <2>1. CASE Trim \/ TrimReturn \/ \E m \in Cap : SetCap(m)
    BY <2>1, SameCounts DEF Trim, TrimReturn, SetCap, contract, records
  <2>2. CASE DoneReturn
    BY <2>2, DoneReturnCounts
  <2>3. CASE \E c \in Child : Reap(c)
    BY <2>3, SameCounts DEF Reap, contract, records
  <2>4. CASE \E c \in Child : DoneStart(c) \/ \E s \in {"ok", "failed"} : Exit(c, s)
    BY <2>4, DoneStartCounts, ExitCounts
  <2>5. CASE \E c \in Child, f \in Fd :
               \/ ReadEnd(c, f) \/ Closed(c, f) \/ ChildHangsUp(c, f)
               \/ \E k \in 1 .. MaxOutput : Read(c, f, k)
               \/ \E b \in Byte : ChildWrites(c, f, b)
    <3>1. UNCHANGED placevars
      BY <2>5, OutputLife DEF CountInv
    <3> QED
      BY <3>1, SameCounts DEF placevars, records
  <2> QED
    BY <1>1, <2>1, <2>2, <2>3, <2>4, <2>5 DEF Work
<1>2. CASE Free \/ FreeReturn
  BY <1>2, SameCounts DEF Free, FreeReturn, contract, records
<1>3. CASE \E c \in Child : \E P \in SUBSET Fd : Spawn(c, P)
  BY <1>3, SpawnCounts
<1>4. CASE \E c \in Child : SpawnFails(c)
  BY <1>4, SameCounts DEF SpawnFails, Container!Refuse, records
<1>5. CASE Terminated \/ UNCHANGED vars
  BY <1>5, SameCounts DEF Terminated, vars, counts
<1> QED
  BY <1>1, <1>2, <1>3, <1>4, <1>5 DEF Next

\* n_started, n_ended and n_failed, which main reports and exits with, count
\* the jobs that were started, those that are over and those that failed, and
\* the indices have no gap (yc_ui_spawn, ui_child_done).
THEOREM CountsTrue == ASSUME ~CapInCallback PROVE Spec => []CountsOK
<1>1. Init => CountInv
  BY InitLife, InitCounts DEF CountInv
<1>2. CountInv /\ [Next]_vars => CountInv'
  BY NextLife, NextCounts DEF CountInv
<1>3. CountInv => CountsOK
  BY DEF CountInv
<1> QED
  BY <1>1, <1>2, <1>3, PTL DEF Spec

-----------------------------------------------------------------------------
(* The scan for lines.                                                     *)

Acc == [out : Seq(Seq(Byte)), left : Seq(Byte)]

Nothing == [out |-> << >>, left |-> << >>]

\* emit_line strips one CR, if it is the last byte.
LEMMA StripIs ==
  ASSUME NEW l \in Seq(Byte)
  PROVE  /\ Strip(l) \in Seq(Byte)
         /\ Strip(l) = l \/ (l # << >> /\ Last(l) = "\r" /\ Strip(l) = Front(l))
         /\ l # << >> /\ Last(l) = "\r" => Strip(l) = Front(l)
         /\ ~ (l # << >> /\ Last(l) = "\r") => Strip(l) = l
  BY FrontFacts DEF Strip

\* A step of the scan has a result of the right type.
LEMMA ScanByteType ==
  ASSUME NEW acc \in Acc, NEW b \in Byte PROVE ScanByte(acc, b) \in Acc
<1>1. CASE b = "\n"
  <2>1. acc.left \in Seq(Byte) /\ acc.out \in Seq(Seq(Byte)) /\ Strip(acc.left) \in Seq(Byte)
    BY StripIs DEF Acc
  <2>2. Append(acc.out, Strip(acc.left)) \in Seq(Seq(Byte))
    BY <2>1, AppendFacts
  <2> QED
    BY <1>1, <2>2 DEF ScanByte, Acc
<1>2. CASE b # "\n"
  <2>1. acc.left \in Seq(Byte)
    BY DEF Acc
  <2>2. Append(acc.left, b) \in Seq(Byte)
    BY <2>1, AppendFacts
  <2> QED
    BY <1>2, <2>2 DEF ScanByte, Acc
<1> QED
  BY <1>1, <1>2

ScanStep == [p \in Acc \X Byte |-> ScanByte(p[1], p[2])]

\* Scan is the left fold of ScanByte over the bytes.
LEMMA ScanIs ==
  ASSUME NEW buf \in Seq(Byte)
  PROVE  \E h \in [0 .. Len(buf) -> Acc] :
           Folds(h, buf, Nothing, ScanStep) /\ Scan(buf) = h[Len(buf)]
<1> DEFINE G(g) == g = [n \in 0 .. Len(buf) |->
                          IF n = 0 THEN Nothing ELSE ScanByte(g[n - 1], buf[n])]
           F == CHOOSE g : G(g)
<1>1. Scan(buf) = F[Len(buf)]
  BY DEF Scan, Nothing
<1>2. Nothing \in Acc /\ ScanStep \in [Acc \X Byte -> Acc]
  BY ScanByteType DEF Nothing, Acc, ScanStep
<1>3. PICK h \in [0 .. Len(buf) -> Acc] : Folds(h, buf, Nothing, ScanStep)
  BY <1>2, FoldExists
<1>4. \A n \in 1 .. Len(buf) : n - 1 \in 0 .. Len(buf) /\ n \in 0 .. Len(buf)
  OBVIOUS
<1>5. ASSUME NEW n \in 1 .. Len(buf) PROVE h[n] = ScanByte(h[n - 1], buf[n])
  <2>1. h[n] = ScanStep[<<h[n - 1], buf[n]>>] /\ h[n - 1] \in Acc /\ buf[n] \in Byte
    BY <1>3, <1>4 DEF Folds
  <2> QED
    BY <2>1 DEF ScanStep
<1>6. G(h)
  <2>1. h = [n \in 0 .. Len(buf) |-> h[n]]
    BY <1>3
  <2>2. \A n \in 0 .. Len(buf) : h[n] = IF n = 0 THEN Nothing ELSE ScanByte(h[n - 1], buf[n])
    BY <1>3, <1>5 DEF Folds
  <2> QED
    BY <2>1, <2>2
<1>7. G(F)
  BY <1>6
<1> HIDE DEF F
<1>8. ASSUME NEW n \in Nat PROVE n <= Len(buf) => F[n] = h[n]
  <2> DEFINE T == {m \in Nat : m <= Len(buf) => F[m] = h[m]}
  <2>1. \A m \in 0 .. Len(buf) : F[m] = IF m = 0 THEN Nothing ELSE ScanByte(F[m - 1], buf[m])
    BY <1>7
  <2>2. 0 \in T
    BY <2>1, <1>3 DEF Folds
  <2>3. ASSUME NEW m \in T PROVE m + 1 \in T
    <3> SUFFICES ASSUME m + 1 <= Len(buf) PROVE F[m + 1] = h[m + 1]
      OBVIOUS
    <3>1. m + 1 \in 0 .. Len(buf) /\ m + 1 \in 1 .. Len(buf) /\ (m + 1) - 1 = m /\ m + 1 # 0
          /\ F[m] = h[m]
      OBVIOUS
    <3>2. F[m + 1] = ScanByte(F[m], buf[m + 1])
      BY <2>1, <3>1
    <3>3. h[m + 1] = ScanByte(h[m], buf[m + 1])
      BY <1>5, <3>1
    <3> QED
      BY <3>1, <3>2, <3>3
  <2>4. T = Nat
    <3> HIDE DEF T
    <3>1. T \in SUBSET Nat
      BY DEF T
    <3> QED
      BY <3>1, <2>2, <2>3, SetInduction
  <2> QED
    BY <2>4
<1>9. F[Len(buf)] = h[Len(buf)]
  BY <1>8
<1> QED
  BY <1>1, <1>3, <1>9

\* The scan takes one byte after the other.
LEMMA ScanEmpty == Scan(<< >>) = Nothing
<1>1. << >> \in Seq(Byte) /\ Len(<< >>) = 0
  OBVIOUS
<1>2. PICK h \in [0 .. Len(<< >>) -> Acc] :
        Folds(h, << >>, Nothing, ScanStep) /\ Scan(<< >>) = h[Len(<< >>)]
  BY <1>1, ScanIs
<1> QED
  BY <1>1, <1>2 DEF Folds

\* Scanning one byte more is scanning what was there, and then that byte.
LEMMA ScanAppend ==
  ASSUME NEW s \in Seq(Byte), NEW b \in Byte
  PROVE  Scan(s) \in Acc /\ Scan(Append(s, b)) = ScanByte(Scan(s), b)
<1> DEFINE r == Append(s, b)
<1>1. r \in Seq(Byte) /\ Len(r) = Len(s) + 1 /\ (\A i \in 1 .. Len(s) : r[i] = s[i])
      /\ r[Len(s) + 1] = b /\ Len(s) \in Nat
  BY AppendFacts
<1> HIDE DEF r
<1>2. PICK h \in [0 .. Len(s) -> Acc] : Folds(h, s, Nothing, ScanStep) /\ Scan(s) = h[Len(s)]
  BY ScanIs
<1>3. PICK g \in [0 .. Len(r) -> Acc] : Folds(g, r, Nothing, ScanStep) /\ Scan(r) = g[Len(r)]
  BY <1>1, ScanIs
<1>4. h[Len(s)] = g[Len(s)]
  <2>1. PICK k \in Nat : k = Len(s)
    BY <1>1
  <2>2. k <= Len(s) /\ k <= Len(r) /\ Len(r) \in Nat /\ Len(s) \in Nat
        /\ \A i \in 1 .. k : s[i] = r[i]
    BY <1>1, <2>1
  <2>3. h[k] = g[k]
    BY <1>2, <1>3, <2>2, FoldsAgree
  <2> QED
    BY <2>1, <2>3
<1>5. g[Len(s) + 1] = ScanStep[<<g[Len(s)], b>>]
  <2>1. Len(s) + 1 \in 1 .. Len(r) /\ (Len(s) + 1) - 1 = Len(s)
    BY <1>1
  <2> QED
    BY <1>1, <1>3, <2>1 DEF Folds
<1>6. h[Len(s)] \in Acc
  BY <1>1, <1>2
<1>7. ScanStep[<<h[Len(s)], b>>] = ScanByte(h[Len(s)], b)
  BY <1>6 DEF ScanStep
<1> QED
  BY <1>1, <1>2, <1>3, <1>4, <1>5, <1>6, <1>7 DEF r

\* The scan has a result of the right type.
LEMMA ScanType == ASSUME NEW s \in Seq(Byte) PROVE Scan(s) \in Acc
<1>1. "x" \in Byte
  BY DEF Byte
<1> QED
  BY <1>1, ScanAppend


\* Neither what is left over nor a line that was told has a newline.
Clean(s) == \A i \in 1 .. Len(s) : s[i] # "\n"

\* Bytes without a newline stay so, cut or continued by another.
LEMMA CleanFacts ==
  /\ Clean(<< >>)
  /\ \A s \in Seq(Byte), b \in Byte : Clean(s) /\ b # "\n" => Clean(Append(s, b))
  /\ \A s \in Seq(Byte) : Clean(s) => Clean(Strip(s))
<1>1. Clean(<< >>)
  BY DEF Clean
<1>2. ASSUME NEW s \in Seq(Byte), NEW b \in Byte, Clean(s), b # "\n"
      PROVE  Clean(Append(s, b))
  <2>1. Len(Append(s, b)) = Len(s) + 1 /\ Len(s) \in Nat
        /\ (\A i \in 1 .. Len(s) : Append(s, b)[i] = s[i]) /\ Append(s, b)[Len(s) + 1] = b
    BY AppendFacts
  <2> QED
    BY <1>2, <2>1 DEF Clean
<1>3. ASSUME NEW s \in Seq(Byte), Clean(s) PROVE Clean(Strip(s))
  <2>1. CASE Strip(s) = s
    BY <1>3, <2>1
  <2>2. CASE Strip(s) # s
    <3>1. s # << >> /\ Strip(s) = Front(s)
      BY <2>2, StripIs
    <3>2. Len(Front(s)) = Len(s) - 1 /\ \A i \in 1 .. Len(s) - 1 : Front(s)[i] = s[i]
      BY <3>1, FrontFacts
    <3>3. Len(s) \in Nat
      OBVIOUS
    <3> QED
      BY <1>3, <3>1, <3>2, <3>3 DEF Clean
  <2> QED
    BY <2>1, <2>2
<1> QED
  BY <1>1, <1>2, <1>3

\* Joining lines.
LEMMA JoinedFacts ==
  /\ Joined(<< >>) = << >>
  /\ \A ls \in Seq(Seq(Byte)) : Joined(ls) \in Seq(Byte)
  /\ \A ls \in Seq(Seq(Byte)), l \in Seq(Byte) :
       Joined(Append(ls, l)) = Joined(ls) \o Append(l, "\n")
<1> DEFINE Ended(ls) == [i \in DOMAIN ls |-> Append(ls[i], "\n")]
<1>0. "\n" \in Byte
  BY DEF Byte
<1>1. Joined(<< >>) = << >>
  <2>1. Ended(<< >>) = << >>
    OBVIOUS
  <2> QED
    BY <2>1, FlattenEmpty DEF Joined
<1>2. ASSUME NEW ls \in Seq(Seq(Byte))
      PROVE  Ended(ls) \in Seq(Seq(Byte)) /\ Len(Ended(ls)) = Len(ls)
             /\ \A i \in 1 .. Len(ls) : Ended(ls)[i] = Append(ls[i], "\n")
  <2>1. \A i \in 1 .. Len(ls) : Append(ls[i], "\n") \in Seq(Byte)
    BY <1>0, AppendFacts
  <2>2. Ended(ls) = [i \in 1 .. Len(ls) |-> Append(ls[i], "\n")] /\ Len(ls) \in Nat
    OBVIOUS
  <2> QED
    BY <2>1, <2>2
<1>3. ASSUME NEW ls \in Seq(Seq(Byte)) PROVE Joined(ls) \in Seq(Byte)
  BY <1>2, FlattenType DEF Joined
<1>4. ASSUME NEW ls \in Seq(Seq(Byte)), NEW l \in Seq(Byte)
      PROVE  Joined(Append(ls, l)) = Joined(ls) \o Append(l, "\n")
  <2> DEFINE m == Append(ls, l)
  <2>1. m \in Seq(Seq(Byte)) /\ Len(m) = Len(ls) + 1 /\ Len(ls) \in Nat
        /\ (\A i \in 1 .. Len(ls) : m[i] = ls[i]) /\ m[Len(ls) + 1] = l
    BY AppendFacts
  <2> HIDE DEF m
  <2>2. Ended(m) \in Seq(Seq(Byte)) /\ Len(Ended(m)) = Len(m)
        /\ \A i \in 1 .. Len(m) : Ended(m)[i] = Append(m[i], "\n")
    BY <1>2, <2>1
  <2>3. Ended(ls) \in Seq(Seq(Byte)) /\ Len(Ended(ls)) = Len(ls)
        /\ \A i \in 1 .. Len(ls) : Ended(ls)[i] = Append(ls[i], "\n")
    BY <1>2
  <2>4. Append(l, "\n") \in Seq(Byte)
    BY <1>0, AppendFacts
  <2>5. PICK a, b \in Seq(Seq(Byte)), e \in Seq(Byte) :
          a = Ended(ls) /\ b = Ended(m) /\ e = Append(l, "\n")
    BY <2>2, <2>3, <2>4
  <2>6. b = Append(a, e)
    <3>1. Len(a) = Len(ls) /\ Len(b) = Len(ls) + 1
          /\ (\A i \in 1 .. Len(ls) : a[i] = b[i]) /\ b[Len(ls) + 1] = e
      BY <2>1, <2>2, <2>3, <2>5
    <3>2. PICK n \in Nat : n = Len(ls)
      BY <2>1
    <3>3. Len(a) = n /\ Len(b) = n + 1 /\ (\A i \in 1 .. n : a[i] = b[i]) /\ b[n + 1] = e
      BY <3>1, <3>2
    <3>4. PICK T : T = Seq(Byte)
      OBVIOUS
    <3>5. a \in Seq(T) /\ b \in Seq(T)
      BY <3>4
    <3>6. b = Append(a, b[n + 1])
      BY <3>3, <3>5, SplitLast
    <3> QED
      BY <3>3, <3>6
  <2>7. FlattenSeq(b) = FlattenSeq(a) \o e
    BY <2>6, FlattenAppend
  <2>8. Joined(m) = FlattenSeq(b) /\ Joined(ls) = FlattenSeq(a)
    BY <2>5 DEF Joined
  <2>9. Joined(m) = Joined(ls) \o Append(l, "\n")
    BY <2>5, <2>7, <2>8
  <2> QED
    BY <2>9 DEF m
<1> QED
  BY <1>1, <1>3, <1>4

\* What is shown of the bytes of a stream, one sequence for each of them.
Pieces(s) ==
  [i \in 1 .. Len(s) |->
    IF s[i] = "\r" /\ i < Len(s) /\ s[i + 1] = "\n" THEN << >> ELSE <<s[i]>>]

\* Does a stream end with a CR?
EndsCR(s) == s # << >> /\ Last(s) = "\r"

\* Of every byte of a stream a reader sees the byte, or nothing if it is a CR before
\* a newline; Normal puts these pieces together.
LEMMA PiecesType ==
  ASSUME NEW s \in Seq(Byte)
  PROVE  /\ Pieces(s) \in Seq(Seq(Byte)) /\ Len(Pieces(s)) = Len(s)
         /\ \A i \in 1 .. Len(s) :
              Pieces(s)[i] = IF s[i] = "\r" /\ i < Len(s) /\ s[i + 1] = "\n"
                             THEN << >> ELSE <<s[i]>>
         /\ Normal(s) = FlattenSeq(Pieces(s)) /\ Normal(s) \in Seq(Byte)
<1>1. Len(s) \in Nat /\ DOMAIN s = 1 .. Len(s)
  OBVIOUS
<1>2. \A i \in 1 .. Len(s) :
        (IF s[i] = "\r" /\ i < Len(s) /\ s[i + 1] = "\n" THEN << >> ELSE <<s[i]>>) \in Seq(Byte)
  OBVIOUS
<1>3. Pieces(s) \in Seq(Seq(Byte)) /\ Len(Pieces(s)) = Len(s)
  BY <1>1, <1>2 DEF Pieces
<1>4. Normal(s) = FlattenSeq(Pieces(s))
  BY <1>1 DEF Normal, Pieces
<1>5. Normal(s) \in Seq(Byte)
  BY <1>3, <1>4, FlattenType
<1> QED
  BY <1>3, <1>4, <1>5 DEF Pieces

\* A byte that changes nothing of what was shown before it.
LEMMA NormalGrows ==
  ASSUME NEW s \in Seq(Byte), NEW b \in Byte, b # "\n" \/ ~ EndsCR(s)
  PROVE  Normal(Append(s, b)) = Append(Normal(s), b)
<1> DEFINE r == Append(s, b)
<1>1. r \in Seq(Byte) /\ Len(r) = Len(s) + 1 /\ (\A i \in 1 .. Len(s) : r[i] = s[i])
      /\ r[Len(s) + 1] = b /\ Len(s) \in Nat
  BY AppendFacts
<1> HIDE DEF r
<1>2. PICK n \in Nat : n = Len(s)
  BY <1>1
<1>3. PICK T : T = Seq(Byte)
  OBVIOUS
<1>4. PICK p, q \in Seq(T) : p = Pieces(s) /\ q = Pieces(r)
  BY <1>1, <1>3, PiecesType
<1>5. Len(p) = n /\ Len(q) = n + 1
  BY <1>1, <1>2, <1>4, PiecesType
<1>6. ASSUME NEW i \in 1 .. n PROVE p[i] = q[i]
  <2>1. p[i] = IF s[i] = "\r" /\ i < n /\ s[i + 1] = "\n" THEN << >> ELSE <<s[i]>>
    BY <1>2, <1>4, PiecesType
  <2>2. i \in 1 .. Len(r)
    BY <1>1, <1>2
  <2>3. q[i] = IF r[i] = "\r" /\ i < Len(r) /\ r[i + 1] = "\n" THEN << >> ELSE <<r[i]>>
    BY <1>1, <1>4, <2>2, PiecesType
  <2>4. CASE i < n
    <3>1. i + 1 \in 1 .. n /\ i < n + 1
      BY <2>4
    <3>2. r[i] = s[i] /\ r[i + 1] = s[i + 1] /\ Len(r) = n + 1
      BY <1>1, <1>2, <3>1
    <3> QED
      BY <2>1, <2>3, <2>4, <3>1, <3>2
  <2>5. CASE i = n
    <3>1. s # << >> /\ Last(s) = s[n]
      BY <1>2, <2>5 DEF Last
    <3>2. r[n] = s[n] /\ r[n + 1] = b /\ Len(r) = n + 1
      BY <1>1, <1>2, <2>5
    <3>3. ~ (r[n] = "\r" /\ r[n + 1] = "\n")
      BY <3>1, <3>2 DEF EndsCR
    <3>4. p[n] = <<s[n]>>
      BY <2>1, <2>5
    <3>5. q[n] = <<s[n]>>
      BY <2>3, <2>5, <3>2, <3>3
    <3> QED
      BY <2>5, <3>4, <3>5
  <2> QED
    BY <2>4, <2>5
<1>7. q[n + 1] = <<b>> /\ <<b>> \in Seq(Byte)
  <2>1. n + 1 \in 1 .. Len(r) /\ Len(r) = n + 1 /\ ~ (n + 1 < n + 1)
    BY <1>1, <1>2
  <2>2. q[n + 1] = IF r[n + 1] = "\r" /\ n + 1 < Len(r) /\ r[n + 1 + 1] = "\n"
                   THEN << >> ELSE <<r[n + 1]>>
    BY <1>1, <1>4, <2>1, PiecesType
  <2>3. q[n + 1] = <<r[n + 1]>>
    BY <2>1, <2>2
  <2> QED
    BY <1>1, <1>2, <2>3
<1>8. q = Append(p, q[n + 1])
  BY <1>5, <1>6, SplitLast
<1>9. FlattenSeq(q) = FlattenSeq(p) \o <<b>>
  <2>1. PICK e \in Seq(Byte) : e = q[n + 1]
    BY <1>7
  <2>2. FlattenSeq(Append(p, e)) = FlattenSeq(p) \o e
    BY <1>3, FlattenAppend
  <2> QED
    BY <1>7, <1>8, <2>1, <2>2
<1>10. Normal(r) = FlattenSeq(q) /\ Normal(s) = FlattenSeq(p) /\ Normal(s) \in Seq(Byte)
  BY <1>1, <1>4, PiecesType
<1>11. Normal(r) = Normal(s) \o <<b>>
  BY <1>9, <1>10
<1>12. Normal(s) \o <<b>> = Append(Normal(s), b)
  BY <1>10
<1> QED
  BY <1>11, <1>12 DEF r

\* The newline after a CR takes its place.
LEMMA NormalReplaces ==
  ASSUME NEW s \in Seq(Byte), EndsCR(s)
  PROVE  \E t \in Seq(Byte) :
           Normal(s) = Append(t, "\r") /\ Normal(Append(s, "\n")) = Append(t, "\n")
<1> DEFINE r == Append(s, "\n")
<1>0. "\n" \in Byte /\ "\r" \in Byte
  BY DEF Byte
<1>1. r \in Seq(Byte) /\ Len(r) = Len(s) + 1 /\ (\A i \in 1 .. Len(s) : r[i] = s[i])
      /\ r[Len(s) + 1] = "\n" /\ Len(s) \in Nat
  BY <1>0, AppendFacts
<1> HIDE DEF r
<1>2. PICK m \in Nat : Len(s) = m + 1
  <2>1. Len(s) # 0
    BY DEF EndsCR
  <2>2. Len(s) - 1 \in Nat /\ Len(s) = (Len(s) - 1) + 1
    BY <1>1, <2>1
  <2> QED
    BY <2>2
<1>3. PICK T : T = Seq(Byte)
  OBVIOUS
<1>4. PICK p, q \in Seq(T) : p = Pieces(s) /\ q = Pieces(r)
  BY <1>1, <1>3, PiecesType
<1>5. Len(p) = m + 1 /\ Len(q) = m + 2
  <2>1. Len(p) = Len(s) /\ Len(q) = Len(r)
    BY <1>1, <1>4, PiecesType
  <2> QED
    BY <1>1, <1>2, <2>1
<1>6. s[m + 1] = "\r" /\ r[m + 1] = "\r" /\ r[m + 2] = "\n" /\ Len(r) = m + 2
  <2>1. m + 1 \in 1 .. Len(s) /\ Len(s) + 1 = m + 2
    BY <1>2
  <2> QED
    BY <1>1, <1>2, <2>1 DEF EndsCR, Last
<1>7. ASSUME NEW i \in 1 .. m PROVE p[i] = q[i]
  <2>0. i \in 1 .. Len(s) /\ i \in 1 .. Len(r) /\ i + 1 \in 1 .. Len(s) /\ i < Len(s) /\ i < Len(r)
    BY <1>2, <1>6
  <2>1. p[i] = IF s[i] = "\r" /\ i < Len(s) /\ s[i + 1] = "\n" THEN << >> ELSE <<s[i]>>
    BY <1>4, <2>0, PiecesType
  <2>2. q[i] = IF r[i] = "\r" /\ i < Len(r) /\ r[i + 1] = "\n" THEN << >> ELSE <<r[i]>>
    BY <1>1, <1>4, <2>0, PiecesType
  <2>3. r[i] = s[i] /\ r[i + 1] = s[i + 1]
    BY <1>1, <2>0
  <2> QED
    BY <2>0, <2>1, <2>2, <2>3
<1>8. p[m + 1] = <<"\r">>
  <2>1. m + 1 \in 1 .. Len(s) /\ ~ (m + 1 < Len(s))
    BY <1>2
  <2>2. p[m + 1] = IF s[m + 1] = "\r" /\ m + 1 < Len(s) /\ s[m + 1 + 1] = "\n"
                   THEN << >> ELSE <<s[m + 1]>>
    BY <1>4, <2>1, PiecesType
  <2> QED
    BY <1>6, <2>1, <2>2
<1>9. q[m + 1] = << >>
  <2>1. m + 1 \in 1 .. Len(r) /\ m + 1 < Len(r) /\ m + 1 + 1 = m + 2
    BY <1>6
  <2>2. q[m + 1] = IF r[m + 1] = "\r" /\ m + 1 < Len(r) /\ r[m + 1 + 1] = "\n"
                   THEN << >> ELSE <<r[m + 1]>>
    BY <1>1, <1>4, <2>1, PiecesType
  <2> QED
    BY <1>6, <2>1, <2>2
<1>10. q[m + 2] = <<"\n">>
  <2>1. m + 2 \in 1 .. Len(r) /\ ~ (m + 2 < Len(r))
    BY <1>6
  <2>2. q[m + 2] = IF r[m + 2] = "\r" /\ m + 2 < Len(r) /\ r[m + 2 + 1] = "\n"
                   THEN << >> ELSE <<r[m + 2]>>
    BY <1>1, <1>4, <2>1, PiecesType
  <2> QED
    BY <1>6, <2>1, <2>2
<1>11. PICK t \in Seq(T) : Len(t) = m /\ \A i \in 1 .. m : t[i] = p[i]
  <2>1. SubSeq(p, 1, m) \in Seq(T) /\ Len(SubSeq(p, 1, m)) = m
        /\ \A i \in 1 .. m : SubSeq(p, 1, m)[i] = p[i]
    <3>1. \A i \in 1 .. m : p[i] \in T
      BY <1>5
    <3> QED
      BY <1>5, <3>1, SubSeqProperties
  <2> QED
    BY <2>1
<1>12. p = Append(t, p[m + 1])
  BY <1>5, <1>11, SplitLast
<1>13. PICK c, n, z \in Seq(Byte) : c = <<"\r">> /\ n = <<"\n">> /\ z = << >>
  <2>1. <<"\r">> \in Seq(Byte) /\ <<"\n">> \in Seq(Byte)
    BY <1>0
  <2>2. << >> \in Seq(Byte)
    OBVIOUS
  <2> QED
    BY <2>1, <2>2, Zenon
<1>14. PICK u \in Seq(T) : u = Append(t, z)
  <2>1. z \in T
    BY <1>3, <1>13
  <2> QED
    BY <1>11, <2>1, AppendFacts
<1>15. Len(u) = m + 1 /\ \A i \in 1 .. m + 1 : u[i] = q[i]
  <2>1. z \in T
    BY <1>3, <1>13
  <2>2. Len(u) = Len(t) + 1 /\ (\A i \in 1 .. Len(t) : u[i] = t[i]) /\ u[Len(t) + 1] = z
    BY <1>14, <2>1, AppendFacts
  <2>3. \A i \in 1 .. m + 1 : i \in 1 .. m \/ i = m + 1
    OBVIOUS
  <2> QED
    BY <1>7, <1>9, <1>11, <1>13, <2>2, <2>3
<1>16. q = Append(u, q[m + 2])
  <2>1. Len(q) = (m + 1) + 1 /\ (m + 1) + 1 = m + 2
    BY <1>5
  <2>2. PICK k \in Nat : k = m + 1
    OBVIOUS
  <2>3. q = Append(u, q[k + 1])
    BY <1>15, <2>1, <2>2, SplitLast
  <2> QED
    BY <2>1, <2>2, <2>3
<1>17. PICK w \in Seq(Byte) : w = FlattenSeq(t)
  BY <1>3, FlattenType
<1>18. FlattenSeq(p) = w \o c
  <2>1. FlattenSeq(Append(t, c)) = FlattenSeq(t) \o c
    BY <1>3, FlattenAppend
  <2> QED
    BY <1>8, <1>12, <1>13, <1>17, <2>1
<1>19. FlattenSeq(u) = w
  <2>1. FlattenSeq(Append(t, z)) = FlattenSeq(t) \o z
    BY <1>3, FlattenAppend
  <2>2. w \o z = w
    BY <1>13, ConcatEmpty
  <2> QED
    BY <1>14, <1>17, <2>1, <2>2
<1>20. FlattenSeq(q) = w \o n
  <2>1. FlattenSeq(Append(u, n)) = FlattenSeq(u) \o n
    BY <1>3, FlattenAppend
  <2> QED
    BY <1>10, <1>13, <1>16, <1>19, <2>1
<1>21. Normal(r) = FlattenSeq(q) /\ Normal(s) = FlattenSeq(p)
  BY <1>1, <1>4, PiecesType
<1>22. w \o c = Append(w, "\r") /\ w \o n = Append(w, "\n")
  BY <1>13
<1> QED
  BY <1>18, <1>20, <1>21, <1>22 DEF r

\* Of what was scanned, the lines and what is left over tell all, and what is
\* left over is what comes after the last newline.
Scanned(s) ==
  /\ Joined(Scan(s).out) \o Scan(s).left = Normal(s)
  /\ Clean(Scan(s).left) /\ \A i \in 1 .. Len(Scan(s).out) : Clean(Scan(s).out[i])
  /\ Scan(s).left = << >> <=> s = << >> \/ Last(s) = "\n"
  /\ Scan(s).left # << >> => Last(Scan(s).left) = Last(s)

\* What a scan has told and what it has left are all it was given, and so on of
\* every continuation: by induction over the bytes.
LEMMA ScanTellsAll ==
  ASSUME NEW s \in Seq(Byte) PROVE Scanned(s)
<1> DEFINE T == {t \in Seq(Byte) : Scanned(t)}
<1>0. "\n" \in Byte
  BY DEF Byte
<1>1. << >> \in T
  <2>1. << >> \in Seq(Byte)
    OBVIOUS
  <2>2. Pieces(<< >>) = << >>
    BY DEF Pieces
  <2>3. Normal(<< >>) = << >>
    BY <2>1, <2>2, PiecesType, FlattenEmpty
  <2>4. Scan(<< >>).out = << >> /\ Scan(<< >>).left = << >>
    BY ScanEmpty DEF Nothing
  <2>5. Joined(Scan(<< >>).out) \o Scan(<< >>).left = Normal(<< >>)
    BY <2>1, <2>3, <2>4, JoinedFacts, ConcatEmpty
  <2>6. Clean(Scan(<< >>).left)
    BY <2>4, CleanFacts
  <2>7. \A i \in 1 .. Len(Scan(<< >>).out) : Clean(Scan(<< >>).out[i])
    BY <2>4
  <2>8. Scanned(<< >>)
    BY <2>4, <2>5, <2>6, <2>7 DEF Scanned
  <2> QED
    BY <2>1, <2>8
<1>2. ASSUME NEW t \in T, NEW b \in Byte PROVE Append(t, b) \in T
  <2> DEFINE r == Append(t, b)
  <2>1. r \in Seq(Byte) /\ r # << >> /\ Last(r) = b /\ t \in Seq(Byte) /\ Scanned(t)
    BY AppendFacts, AppendFront
  <2> HIDE DEF r
  <2>2. PICK out \in Seq(Seq(Byte)), left \in Seq(Byte) :
          Scan(t) = [out |-> out, left |-> left]
    <3>1. t \in Seq(Byte)
      BY <2>1
    <3>2. Scan(t) \in Acc
      BY <3>1, ScanType
    <3> QED
      BY <3>2 DEF Acc
  <2>3. /\ Joined(out) \o left = Normal(t)
        /\ Clean(left) /\ \A i \in 1 .. Len(out) : Clean(out[i])
        /\ left = << >> <=> t = << >> \/ Last(t) = "\n"
        /\ left # << >> => Last(left) = Last(t)
    BY <2>1, <2>2 DEF Scanned
  <2>4. Scan(r) = ScanByte(Scan(t), b)
    BY <2>1, ScanAppend DEF r
  <2>5. PICK j \in Seq(Byte), nt \in Seq(Byte) : j = Joined(out) /\ nt = Normal(t)
    BY <2>1, JoinedFacts, PiecesType
  <2>6. CASE b # "\n"
    <3>1. Scan(r).out = out /\ Scan(r).left = Append(left, b)
      BY <2>2, <2>4, <2>6 DEF ScanByte
    <3>2. j \o Append(left, b) = Append(nt, b)
      <4>1. j \o Append(left, b) = Append(j \o left, b)
        BY ConcatAppend
      <4>2. j \o left = nt
        BY <2>3, <2>5
      <4> QED
        BY <4>1, <4>2
    <3>3. Normal(r) = Append(nt, b)
      BY <2>1, <2>5, <2>6, NormalGrows DEF r
    <3>4. Clean(Append(left, b))
      BY <2>3, <2>6, CleanFacts
    <3>5. Append(left, b) # << >> /\ Last(Append(left, b)) = b
      BY AppendFront
    <3>6. Joined(Scan(r).out) \o Scan(r).left = Normal(r)
      BY <2>5, <3>1, <3>2, <3>3
    <3>7. Scanned(r)
      BY <2>1, <2>3, <2>6, <3>1, <3>4, <3>5, <3>6 DEF Scanned
    <3> QED
      BY <2>1, <3>7 DEF r
  <2>7. CASE b = "\n"
    <3>1. PICK l \in Seq(Byte) : l = Strip(left)
      BY StripIs
    <3>2. Scan(r).out = Append(out, l) /\ Scan(r).left = << >>
      BY <2>2, <2>4, <2>7, <3>1 DEF ScanByte
    <3>3. PICK ln \in Seq(Byte) : ln = Append(l, "\n")
      BY <1>0, AppendFacts
    <3>4. Joined(Append(out, l)) = j \o ln
      BY <2>5, <3>3, JoinedFacts
    <3>5. j \o ln = Normal(r)
      <4>1. CASE EndsCR(t)
        <5>1. left # << >> /\ Last(left) = "\r" /\ l = Front(left)
          <6>1. left # << >>
            BY <2>3, <4>1 DEF EndsCR
          <6>2. Last(left) = "\r"
            BY <2>3, <4>1, <6>1 DEF EndsCR
          <6> QED
            BY <3>1, <6>1, <6>2, StripIs
        <5>2. left = Append(l, "\r")
          BY <5>1, FrontFacts
        <5>3. PICK n0 \in Seq(Byte) : nt = Append(n0, "\r") /\ Normal(r) = Append(n0, "\n")
          BY <2>1, <2>5, <2>7, <4>1, NormalReplaces DEF r
        <5>4. "\r" \in Byte
          BY DEF Byte
        <5>5. PICK jl \in Seq(Byte) : jl = j \o l
          BY ConcatFacts
        <5>6. nt = Append(jl, "\r")
          <6>1. j \o Append(l, "\r") = Append(j \o l, "\r")
            BY <5>4, ConcatAppend
          <6> QED
            BY <2>3, <2>5, <5>2, <5>5, <6>1
        <5>7. n0 = jl
          <6>1. Front(nt) = n0
            BY <5>3, <5>4, AppendFront
          <6>2. Front(nt) = jl
            BY <5>4, <5>6, AppendFront
          <6> QED
            BY <6>1, <6>2
        <5>8. j \o ln = Append(jl, "\n")
          <6>1. "\n" \in Byte
            BY DEF Byte
          <6>2. j \o Append(l, "\n") = Append(j \o l, "\n")
            BY <6>1, ConcatAppend
          <6> QED
            BY <3>3, <5>5, <6>2
        <5> QED
          BY <5>3, <5>7, <5>8
      <4>2. CASE ~ EndsCR(t)
        <5>1. l = left
          <6>1. ~ (left # << >> /\ Last(left) = "\r")
            BY <2>3, <4>2 DEF EndsCR
          <6> QED
            BY <3>1, <6>1, StripIs
        <5>2. Normal(r) = Append(nt, "\n")
          BY <1>0, <2>1, <2>5, <2>7, <4>2, NormalGrows DEF r
        <5>3. j \o ln = Append(j \o left, "\n")
          BY <1>0, <3>3, <5>1, ConcatAppend
        <5> QED
          BY <2>3, <2>5, <5>2, <5>3
      <4> QED
        BY <4>1, <4>2
    <3>6. Joined(Scan(r).out) \o Scan(r).left = Normal(r)
      <4>1. PICK nr \in Seq(Byte) : nr = Normal(r)
        BY <2>1, PiecesType
      <4>2. nr \o << >> = nr
        BY ConcatEmpty
      <4> QED
        BY <3>2, <3>4, <3>5, <4>1, <4>2
    <3>7. Clean(Scan(r).left)
      BY <3>2, CleanFacts
    <3>8. \A i \in 1 .. Len(Append(out, l)) : Clean(Append(out, l)[i])
      <4>1. Clean(l)
        BY <2>3, <3>1, CleanFacts
      <4>2. Len(Append(out, l)) = Len(out) + 1 /\ Len(out) \in Nat
            /\ (\A i \in 1 .. Len(out) : Append(out, l)[i] = out[i])
            /\ Append(out, l)[Len(out) + 1] = l
        BY AppendFacts
      <4> QED
        BY <2>3, <4>1, <4>2
    <3>9. Scanned(r)
      BY <2>1, <2>7, <3>2, <3>6, <3>7, <3>8 DEF Scanned
    <3> QED
      BY <2>1, <3>9 DEF r
  <2> QED
    BY <2>6, <2>7
<1>3. T = Seq(Byte)
  <2> HIDE DEF T
  <2>1. T \in SUBSET Seq(Byte)
    BY DEF T
  <2> QED
    BY <1>1, <1>2, <2>1, SeqInduction
<1> QED
  BY <1>3

\* The scan of one byte, in terms of what it starts from.
LEMMA ScanByteIs ==
  ASSUME NEW out, NEW left, NEW b
  PROVE  LET acc == [out |-> out, left |-> left]
         IN  ScanByte(acc, b) = IF b = "\n" THEN [out |-> Append(out, Strip(left)), left |-> << >>]
                                ELSE [out |-> out, left |-> Append(left, b)]
<1> DEFINE acc == [out |-> out, left |-> left]
<1>1. b = "\n" => ScanByte(acc, b) = [out |-> Append(out, Strip(left)), left |-> << >>]
  BY DEF ScanByte
<1>2. b # "\n" => ScanByte(acc, b) = [acc EXCEPT !.left = Append(acc.left, b)]
  BY DEF ScanByte
<1>3. acc.left = left
  OBVIOUS
<1>4. ASSUME NEW l PROVE [acc EXCEPT !.left = l] = [out |-> out, left |-> l]
  OBVIOUS
<1> QED
  BY <1>1, <1>2, <1>3, <1>4

\* What has no newline is left over.
LEMMA ScanClean ==
  ASSUME NEW s \in Seq(Byte), Clean(s) PROVE Scan(s) = [out |-> << >>, left |-> s]
<1> DEFINE T == {t \in Seq(Byte) : Clean(t) => Scan(t) = [out |-> << >>, left |-> t]}
<1>1. << >> \in T
  BY ScanEmpty DEF Nothing
<1>2. ASSUME NEW t \in T, NEW b \in Byte PROVE Append(t, b) \in T
  <2> DEFINE r == Append(t, b)
  <2>1. r \in Seq(Byte) /\ Len(r) = Len(t) + 1 /\ (\A i \in 1 .. Len(t) : r[i] = t[i])
        /\ r[Len(t) + 1] = b /\ Len(t) \in Nat /\ t \in Seq(Byte)
    BY AppendFacts
  <2> HIDE DEF r
  <2> SUFFICES ASSUME Clean(r) PROVE Scan(r) = [out |-> << >>, left |-> r]
    BY <2>1 DEF r
  <2>2. Clean(t) /\ b # "\n"
    <3>1. \A i \in 1 .. Len(t) : i \in 1 .. Len(r)
      BY <2>1
    <3>2. Len(t) + 1 \in 1 .. Len(r)
      BY <2>1
    <3> QED
      BY <2>1, <3>1, <3>2 DEF Clean
  <2>3. Scan(r) = ScanByte(Scan(t), b) /\ Scan(t) = [out |-> << >>, left |-> t]
    BY <2>1, <2>2, ScanAppend DEF r
  <2> QED
    BY <2>2, <2>3, ScanByteIs DEF r
<1>3. T = Seq(Byte)
  <2> HIDE DEF T
  <2>1. T \in SUBSET Seq(Byte)
    BY DEF T
  <2> QED
    BY <1>1, <1>2, <2>1, SeqInduction
<1> QED
  BY <1>3

\* To go on from what is left over is to have scanned it all at once.
LEMMA ScanConcat ==
  ASSUME NEW s \in Seq(Byte), NEW t \in Seq(Byte)
  PROVE  /\ Scan(s \o t).out = Scan(s).out \o Scan(Scan(s).left \o t).out
         /\ Scan(s \o t).left = Scan(Scan(s).left \o t).left
<1>1. PICK out \in Seq(Seq(Byte)), left \in Seq(Byte) : Scan(s) = [out |-> out, left |-> left]
  BY ScanType DEF Acc
<1>2. Clean(left)
  <2>1. Clean(Scan(s).left)
    BY ScanTellsAll DEF Scanned
  <2> QED
    BY <1>1, <2>1
<1>6. \A a, z \in Seq(Seq(Byte)), e \in Seq(Byte) : a \o Append(z, e) = Append(a \o z, e)
  BY ConcatAppendLine
<1> DEFINE T == {u \in Seq(Byte) : /\ Scan(s \o u).out = out \o Scan(left \o u).out
                                   /\ Scan(s \o u).left = Scan(left \o u).left}
<1>3. << >> \in T
  <2>1. s \o << >> = s /\ left \o << >> = left /\ out \o << >> = out
    BY ConcatEmpty
  <2>2. Scan(left) = [out |-> << >>, left |-> left]
    BY <1>2, ScanClean
  <2> QED
    BY <1>1, <2>1, <2>2
<1>4. ASSUME NEW u \in T, NEW b \in Byte PROVE Append(u, b) \in T
  <2>1. u \in Seq(Byte) /\ Append(u, b) \in Seq(Byte)
    BY AppendFacts
  <2>2. PICK v \in Seq(Byte), w \in Seq(Byte) : v = s \o u /\ w = left \o u
    BY <2>1, ConcatFacts
  <2>3. s \o Append(u, b) = Append(v, b) /\ left \o Append(u, b) = Append(w, b)
    <3>1. s \o Append(u, b) = Append(s \o u, b)
      BY <2>1, ConcatAppend
    <3>2. left \o Append(u, b) = Append(left \o u, b)
      BY <2>1, ConcatAppend
    <3> QED
      BY <2>2, <3>1, <3>2
  <2>4. PICK o1 \in Seq(Seq(Byte)), l1 \in Seq(Byte) : Scan(v) = [out |-> o1, left |-> l1]
    BY ScanType DEF Acc
  <2>5. PICK o2 \in Seq(Seq(Byte)), l2 \in Seq(Byte) : Scan(w) = [out |-> o2, left |-> l2]
    BY ScanType DEF Acc
  <2>6. o1 = out \o o2 /\ l1 = l2
    BY <2>2, <2>4, <2>5
  <2>7. Scan(Append(v, b)) = ScanByte(Scan(v), b) /\ Scan(Append(w, b)) = ScanByte(Scan(w), b)
    BY ScanAppend
  <2>8. CASE b = "\n"
    <3>1. PICK l \in Seq(Byte) : l = Strip(l1)
      BY StripIs
    <3>2. Scan(Append(v, b)).out = Append(o1, l) /\ Scan(Append(v, b)).left = << >>
      BY <2>4, <2>7, <2>8, <3>1 DEF ScanByte
    <3>3. Scan(Append(w, b)).out = Append(o2, l) /\ Scan(Append(w, b)).left = << >>
      BY <2>5, <2>6, <2>7, <2>8, <3>1 DEF ScanByte
    <3>4. out \o Append(o2, l) = Append(out \o o2, l)
      BY <1>6
    <3> QED
      BY <2>1, <2>3, <2>6, <3>2, <3>3, <3>4
  <2>9. CASE b # "\n"
    <3>1. Scan(Append(v, b)).out = o1 /\ Scan(Append(v, b)).left = Append(l1, b)
      BY <2>4, <2>7, <2>9 DEF ScanByte
    <3>2. Scan(Append(w, b)).out = o2 /\ Scan(Append(w, b)).left = Append(l2, b)
      BY <2>5, <2>7, <2>9 DEF ScanByte
    <3> QED
      BY <2>1, <2>3, <2>6, <3>1, <3>2
  <2> QED
    BY <2>8, <2>9
<1>5. T = Seq(Byte)
  <2> HIDE DEF T
  <2>1. T \in SUBSET Seq(Byte)
    BY DEF T
  <2> QED
    BY <1>3, <1>4, <2>1, SeqInduction
<1> QED
  BY <1>1, <1>5

\* What flush_pending_lines adds is what one more newline would.
LEMMA ScanCompleted ==
  ASSUME NEW s \in Seq(Byte)
  PROVE  /\ Completed(s) \in Seq(Byte)
         /\ Scan(Completed(s)).left = << >>
         /\ Scan(Completed(s)).out =
              IF Scan(s).left = << >> THEN Scan(s).out
              ELSE Append(Scan(s).out, Strip(Scan(s).left))
<1>0. "\n" \in Byte
  BY DEF Byte
<1>1. Scan(s).left = << >> <=> s = << >> \/ Last(s) = "\n"
  BY ScanTellsAll DEF Scanned
<1>2. CASE s = << >> \/ Last(s) = "\n"
  <2>1. Completed(s) = s
    BY <1>2 DEF Completed
  <2> QED
    BY <1>1, <1>2, <2>1
<1>3. CASE ~ (s = << >> \/ Last(s) = "\n")
  <2>1. Completed(s) = Append(s, "\n")
    BY <1>3 DEF Completed
  <2>2. Scan(Append(s, "\n")) = ScanByte(Scan(s), "\n") /\ Append(s, "\n") \in Seq(Byte)
    BY <1>0, ScanAppend, AppendFacts
  <2>3. Scan(Completed(s)) = [out |-> Append(Scan(s).out, Strip(Scan(s).left)), left |-> << >>]
    BY <2>1, <2>2 DEF ScanByte
  <2>4. Completed(s) \in Seq(Byte)
    BY <2>1, <2>2
  <2> QED
    BY <1>1, <1>3, <2>3, <2>4
<1> QED
  BY <1>2, <1>3

-----------------------------------------------------------------------------
(* The lines that are told, whatever the UI does with max_ended_jobs.      *)

\* Where a child may be, as far as its output is concerned.
StageOK ==
  /\ at \in {"idle", "trim", "job_ended", "free", "freed"} /\ job \in Child \cup {NoJob}
  /\ running \subseteq Child /\ finished \subseteq Child /\ refused \subseteq Child
  /\ running \cap finished = {} /\ refused \cap Started = {}
  /\ at \in {"trim", "job_ended"} => job \in running
  /\ at \in {"idle", "free", "freed"} => job = NoJob

OutType ==
  /\ held \in [Child -> SUBSET Fd] /\ hungup \in [Child -> SUBSET Fd]
  /\ eof \in [Child -> SUBSET Fd]
  /\ n_read \in [Child -> [Fd -> Nat]]
  /\ wrote \in [Child -> [Fd -> Seq(Byte)]] /\ pending \in [Child -> [Fd -> Seq(Byte)]]
  /\ lines \in [Child -> [Fd -> Seq(Seq(Byte))]]

\* A child holds pipes while it runs and has not been reported as over.
HeldOK(c) == held[c] # {} => c \in running \ Over

\* A pipe that was closed was read to its end, and nothing was written to one
\* that was not there.
PipeOK(c, f) ==
  /\ n_read[c][f] <= Len(wrote[c][f]) /\ Len(wrote[c][f]) <= MaxOutput
  /\ f \in eof[c] => f \in hungup[c] /\ n_read[c][f] = Len(wrote[c][f])
  /\ wrote[c][f] # << >> => f \in held[c] \cup eof[c]
  /\ c \notin Started =>
       /\ eof[c] = {} /\ hungup[c] = {} /\ wrote[c][f] = << >>
       /\ lines[c][f] = << >> /\ pending[c][f] = << >>

\* What was read, or the whole of it, gives the lines that were told.
ToldOK(c, f) ==
  WantsLines =>
    IF c \in Over THEN lines[c][f] = Scan(Completed(wrote[c][f])).out /\ pending[c][f] = << >>
    ELSE Scan(SubSeq(wrote[c][f], 1, n_read[c][f]))
           = [out |-> lines[c][f], left |-> pending[c][f]]

OutInv ==
  /\ StageOK /\ OutType
  /\ \A c \in Child : HeldOK(c) /\ \A f \in Fd : PipeOK(c, f) /\ ToldOK(c, f)

\* What the invariant looks at of the pipes.
pipevars == <<held, output>>

\* At first nothing was written, read or told.
LEMMA InitOut == ASSUME Init PROVE OutInv
<1>1. StageOK
  BY DEF Init, Container!Init, StageOK, Started
<1>2. OutType
  <2>1. << >> \in Seq(Byte) /\ << >> \in Seq(Seq(Byte)) /\ 0 \in Nat
    OBVIOUS
  <2> QED
    BY <2>1 DEF Init, Container!Init, OutType
<1>3. ASSUME NEW c \in Child PROVE HeldOK(c)
  BY DEF Init, Container!Init, HeldOK
<1>4. ASSUME NEW c \in Child, NEW f \in Fd PROVE PipeOK(c, f) /\ ToldOK(c, f)
  <2>1. /\ n_read[c][f] = 0 /\ wrote[c][f] = << >> /\ eof[c] = {} /\ hungup[c] = {}
        /\ lines[c][f] = << >> /\ pending[c][f] = << >>
    BY DEF Init
  <2>2. PipeOK(c, f)
    BY <2>1, UIAssumption DEF PipeOK
  <2>3. c \notin Over
    BY UIAssumption DEF Over, Init, Container!Init
  <2>4. SubSeq(wrote[c][f], 1, n_read[c][f]) = << >>
    BY <2>1
  <2>5. ToldOK(c, f)
    BY <2>1, <2>3, <2>4, ScanEmpty DEF ToldOK, Nothing
  <2> QED
    BY <2>2, <2>5
<1> QED
  BY <1>1, <1>2, <1>3, <1>4 DEF OutInv

\* The steps that leave a child where it is.
LEMMA StageSame ==
  ASSUME StageOK, UNCHANGED <<running, finished, job>>, UNCHANGED refused,
         \/ UNCHANGED at
         \/ at = "trim" /\ at' = "job_ended"
         \/ at = "idle" /\ at' = "free"
         \/ at = "free" /\ at' = "freed"
  PROVE  StageOK'
  BY DEF StageOK, Started

\* A step that does not concern the output.
LEMMA OutSame ==
  ASSUME OutInv, UNCHANGED <<running, finished, job>>, UNCHANGED pipevars, StageOK'
  PROVE  OutInv'
<1>1. OutType' /\ \A c \in Child : HeldOK(c)' /\ \A f \in Fd : PipeOK(c, f)' /\ ToldOK(c, f)'
  BY DEF OutInv, OutType, HeldOK, PipeOK, ToldOK, pipevars, output, Over, Started
<1> QED
  BY <1>1 DEF OutInv

\* A job starts with nothing written, read or told.
LEMMA SpawnOut ==
  ASSUME OutInv, NEW c \in Child, NEW P \in SUBSET Fd, Spawn(c, P) PROVE OutInv'
<1>0. /\ c \notin Started /\ c \notin refused /\ running' = running \cup {c} /\ at = "idle"
      /\ held' = [held EXCEPT ![c] = P]
      /\ UNCHANGED <<finished, refused, at, job, output>>
  BY DEF Spawn, Container!Spawn, Container!Used, Started
<1>1. job = NoJob /\ NoJob \notin Child
  BY <1>0, UIAssumption DEF OutInv, StageOK
<1>2. Started' = Started \cup {c} /\ Over' = Over /\ c \notin Over
  BY <1>0, <1>1 DEF Started, Over
<1>3. StageOK'
  BY <1>0, <1>1, <1>2 DEF OutInv, StageOK, Started
<1>4. OutType'
  BY <1>0 DEF OutInv, OutType, output
<1>5. ASSUME NEW d \in Child PROVE HeldOK(d)'
  BY <1>0, <1>2 DEF OutInv, OutType, HeldOK
<1>6. ASSUME NEW d \in Child, NEW f \in Fd PROVE PipeOK(d, f)' /\ ToldOK(d, f)'
  <2>0. PipeOK(d, f) /\ ToldOK(d, f)
    BY DEF OutInv
  <2>1. ToldOK(d, f)'
    BY <1>0, <1>2, <2>0 DEF ToldOK, output
  <2>2. /\ n_read' = n_read /\ wrote' = wrote /\ eof' = eof /\ hungup' = hungup
        /\ lines' = lines /\ pending' = pending
    BY <1>0 DEF output
  <2>3. wrote[d][f] # << >> => f \in held'[d] \cup eof[d]
    <3>1. CASE d = c
      BY <1>0, <2>0, <3>1 DEF PipeOK
    <3>2. CASE d # c
      <4>1. held'[d] = held[d]
        BY <1>0, <3>2 DEF OutInv, OutType
      <4> QED
        BY <2>0, <4>1 DEF PipeOK
    <3> QED
      BY <3>1, <3>2
  <2>4. d \notin Started' => d \notin Started
    BY <1>2
  <2>5. PipeOK(d, f)'
    BY <2>0, <2>2, <2>3, <2>4 DEF PipeOK
  <2> QED
    BY <2>1, <2>5
<1> QED
  BY <1>3, <1>4, <1>5, <1>6 DEF OutInv

\* A step about one pipe of a child that runs leaves the others alone.
LEMMA OnePipe ==
  ASSUME OutInv, NEW c \in Child, NEW f \in Fd, UNCHANGED <<running, finished, refused, at, job>>,
         OutType', HeldOK(c)', PipeOK(c, f)', ToldOK(c, f)',
         \A d \in Child, g \in Fd :
           d # c \/ g # f => UNCHANGED <<wrote[d][g], n_read[d][g], lines[d][g], pending[d][g]>>,
         \A d \in Child : d # c => UNCHANGED <<held[d], eof[d], hungup[d]>>,
         \A g \in Fd : g # f => UNCHANGED <<g \in held[c], g \in eof[c], g \in hungup[c]>>,
         c \in running
  PROVE  OutInv'
<1>1. Started' = Started /\ Over' = Over /\ running' = running /\ c \in Started
  BY DEF Started, Over
<1>2. StageOK'
  BY StageSame DEF OutInv
<1>3. ASSUME NEW d \in Child PROVE HeldOK(d)'
  BY <1>1 DEF OutInv, HeldOK
<1>4. ASSUME NEW d \in Child, NEW g \in Fd PROVE PipeOK(d, g)' /\ ToldOK(d, g)'
  <2>1. CASE d = c /\ g = f
    BY <2>1
  <2>2. CASE ~ (d = c /\ g = f)
    <3>1. PipeOK(d, g) /\ ToldOK(d, g)
      BY DEF OutInv
    <3>2. /\ wrote'[d][g] = wrote[d][g] /\ n_read'[d][g] = n_read[d][g]
          /\ lines'[d][g] = lines[d][g] /\ pending'[d][g] = pending[d][g]
      BY <2>2
    <3>3. /\ g \in held'[d] <=> g \in held[d]
          /\ g \in eof'[d] <=> g \in eof[d]
          /\ g \in hungup'[d] <=> g \in hungup[d]
      <4>1. CASE d = c
        BY <2>2, <4>1
      <4>2. CASE d # c
        BY <4>2
      <4> QED
        BY <4>1, <4>2
    <3>4. d \notin Started => d # c
      BY <1>1
    <3>5. ToldOK(d, g)'
      BY <1>1, <3>1, <3>2 DEF ToldOK
    <3>6. PipeOK(d, g)'
      <4>1. d \notin Started => eof'[d] = eof[d] /\ hungup'[d] = hungup[d]
        BY <3>4
      <4> QED
        BY <1>1, <3>1, <3>2, <3>3, <4>1 DEF PipeOK
    <3> QED
      BY <3>5, <3>6
  <2> QED
    BY <2>1, <2>2
<1> QED
  BY <1>2, <1>3, <1>4 DEF OutInv

\* A child of which a pipe is still held runs, and its end was not reported.
LEMMA HeldRuns ==
  ASSUME OutInv, at = "idle", NEW c \in Child, NEW f \in held[c]
  PROVE  c \in running /\ c \in Started /\ c \notin Over /\ c \notin finished
  BY DEF OutInv, HeldOK, Over, Started

\* The end of a stream finds everything read.
LEMMA ReadEndOut ==
  ASSUME OutInv, NEW c \in Child, NEW f \in Fd, ReadEnd(c, f) PROVE OutInv'
<1>0. /\ at = "idle" /\ f \in held[c] /\ f \in hungup[c] /\ n_read[c][f] = Len(wrote[c][f])
      /\ eof' = [eof EXCEPT ![c] = @ \cup {f}]
      /\ UNCHANGED <<running, finished, refused, at, job, held, hungup, wrote, n_read, lines,
                     pending>>
  BY DEF ReadEnd, contract
<1>1. c \in running /\ c \in Started /\ PipeOK(c, f) /\ ToldOK(c, f) /\ HeldOK(c)
  BY <1>0, HeldRuns DEF OutInv
<1>2. Started' = Started /\ Over' = Over
  BY <1>0 DEF Started, Over
<1>3. OutType'
  BY <1>0 DEF OutInv, OutType
<1>4. /\ eof'[c] = eof[c] \cup {f}
      /\ \A d \in Child : d # c => eof'[d] = eof[d]
  BY <1>0 DEF OutInv, OutType
<1>5. HeldOK(c)' /\ ToldOK(c, f)'
  BY <1>0, <1>1, <1>2 DEF HeldOK, ToldOK
<1>6. PipeOK(c, f)'
  BY <1>0, <1>1, <1>2, <1>4 DEF PipeOK
<1>7. /\ \A d \in Child, g \in Fd :
           d # c \/ g # f => UNCHANGED <<wrote[d][g], n_read[d][g], lines[d][g], pending[d][g]>>
      /\ \A d \in Child : d # c => UNCHANGED <<held[d], eof[d], hungup[d]>>
      /\ \A g \in Fd : g # f => UNCHANGED <<g \in held[c], g \in eof[c], g \in hungup[c]>>
  BY <1>0, <1>4
<1> QED
  BY <1>0, <1>1, <1>3, <1>5, <1>6, <1>7, OnePipe

\* A pipe that is closed keeps what was told of it.
LEMMA ClosedOut ==
  ASSUME OutInv, NEW c \in Child, NEW f \in Fd, Closed(c, f) PROVE OutInv'
<1>0. /\ at = "idle" /\ f \in eof[c] /\ f \in held[c]
      /\ held' = [held EXCEPT ![c] = @ \ {f}]
      /\ UNCHANGED <<running, finished, refused, at, job, eof, hungup, wrote, n_read, lines,
                     pending>>
  BY DEF Closed, Container!Close, output
<1>1. c \in running /\ c \in Started /\ c \notin Over /\ PipeOK(c, f) /\ ToldOK(c, f)
  BY <1>0, HeldRuns DEF OutInv
<1>2. Started' = Started /\ Over' = Over
  BY <1>0 DEF Started, Over
<1>3. OutType'
  BY <1>0 DEF OutInv, OutType
<1>4. /\ held'[c] = held[c] \ {f}
      /\ \A d \in Child : d # c => held'[d] = held[d]
  BY <1>0 DEF OutInv, OutType
<1>5. HeldOK(c)' /\ ToldOK(c, f)'
  BY <1>0, <1>1, <1>2 DEF HeldOK, ToldOK
<1>6. PipeOK(c, f)'
  BY <1>0, <1>1, <1>2, <1>4 DEF PipeOK
<1>7. /\ \A d \in Child, g \in Fd :
           d # c \/ g # f => UNCHANGED <<wrote[d][g], n_read[d][g], lines[d][g], pending[d][g]>>
      /\ \A d \in Child : d # c => UNCHANGED <<held[d], eof[d], hungup[d]>>
      /\ \A g \in Fd : g # f => UNCHANGED <<g \in held[c], g \in eof[c], g \in hungup[c]>>
  BY <1>0, <1>4
<1> QED
  BY <1>0, <1>1, <1>3, <1>5, <1>6, <1>7, OnePipe

\* A hangup keeps what was told.
LEMMA HangsUpOut ==
  ASSUME OutInv, NEW c \in Child, NEW f \in Fd, ChildHangsUp(c, f) PROVE OutInv'
<1>0. /\ c \in running /\ f \in held[c]
      /\ hungup' = [hungup EXCEPT ![c] = @ \cup {f}]
      /\ UNCHANGED <<running, finished, refused, at, job, held, eof, wrote, n_read, lines,
                     pending>>
  BY DEF ChildHangsUp, contract
<1>1. c \in Started /\ PipeOK(c, f) /\ ToldOK(c, f) /\ HeldOK(c)
  BY <1>0 DEF OutInv, Started
<1>2. Started' = Started /\ Over' = Over
  BY <1>0 DEF Started, Over
<1>3. OutType'
  BY <1>0 DEF OutInv, OutType
<1>4. /\ hungup'[c] = hungup[c] \cup {f}
      /\ \A d \in Child : d # c => hungup'[d] = hungup[d]
  BY <1>0 DEF OutInv, OutType
<1>5. HeldOK(c)' /\ ToldOK(c, f)'
  BY <1>0, <1>1, <1>2 DEF HeldOK, ToldOK
<1>6. PipeOK(c, f)'
  BY <1>0, <1>1, <1>2, <1>4 DEF PipeOK
<1>7. /\ \A d \in Child, g \in Fd :
           d # c \/ g # f => UNCHANGED <<wrote[d][g], n_read[d][g], lines[d][g], pending[d][g]>>
      /\ \A d \in Child : d # c => UNCHANGED <<held[d], eof[d], hungup[d]>>
      /\ \A g \in Fd : g # f => UNCHANGED <<g \in held[c], g \in eof[c], g \in hungup[c]>>
  BY <1>0, <1>4
<1> QED
  BY <1>0, <1>1, <1>3, <1>5, <1>6, <1>7, OnePipe

\* A process writes at the end of what it wrote.
LEMMA WritesOut ==
  ASSUME OutInv, NEW c \in Child, NEW f \in Fd, NEW b \in Byte, ChildWrites(c, f, b)
  PROVE  OutInv'
<1>0. /\ c \in running /\ f \in held[c] /\ f \notin hungup[c] /\ Len(wrote[c][f]) < MaxOutput
      /\ wrote' = [wrote EXCEPT ![c][f] = Append(@, b)]
      /\ UNCHANGED <<running, finished, refused, at, job, held, eof, hungup, n_read, lines,
                     pending>>
  BY DEF ChildWrites, contract
<1>1. /\ c \in Started /\ c \notin Over /\ PipeOK(c, f) /\ ToldOK(c, f) /\ HeldOK(c)
  BY <1>0 DEF OutInv, Started, HeldOK
<1>2. Started' = Started /\ Over' = Over
  BY <1>0 DEF Started, Over
<1>3. PICK w \in Seq(Byte), n \in Nat : w = wrote[c][f] /\ n = n_read[c][f]
  BY DEF OutInv, OutType
<1>4. Append(w, b) \in Seq(Byte) /\ Len(Append(w, b)) = Len(w) + 1 /\ Len(w) \in Nat
  BY AppendFacts
<1>5. /\ wrote'[c][f] = Append(w, b)
      /\ \A d \in Child, g \in Fd : d # c \/ g # f => wrote'[d][g] = wrote[d][g]
      /\ wrote' \in [Child -> [Fd -> Seq(Byte)]]
  BY <1>0, <1>3, <1>4 DEF OutInv, OutType
<1>6. OutType'
  BY <1>0, <1>5 DEF OutInv, OutType
<1>7. n <= Len(w) /\ n_read'[c][f] = n
  BY <1>0, <1>1, <1>3 DEF PipeOK
<1>8. ToldOK(c, f)'
  <2>1. SubSeq(Append(w, b), 1, n) = SubSeq(w, 1, n)
    BY <1>7, PrefixAppend
  <2>2. WantsLines => Scan(SubSeq(w, 1, n)) = [out |-> lines[c][f], left |-> pending[c][f]]
    BY <1>1, <1>3 DEF ToldOK
  <2> QED
    BY <1>0, <1>1, <1>2, <1>5, <1>7, <2>1, <2>2 DEF ToldOK
<1>9. PipeOK(c, f)'
  <2>1. MaxOutput \in Nat
    BY UIAssumption
  <2>2. f \notin eof[c]
    BY <1>0, <1>1 DEF PipeOK
  <2>3. n_read'[c][f] <= Len(wrote'[c][f]) /\ Len(wrote'[c][f]) <= MaxOutput
    BY <1>0, <1>3, <1>4, <1>5, <1>7, <2>1
  <2> QED
    BY <1>0, <1>1, <1>2, <2>2, <2>3 DEF PipeOK
<1>10. HeldOK(c)'
  BY <1>0, <1>1, <1>2 DEF HeldOK
<1>11. /\ \A d \in Child, g \in Fd :
           d # c \/ g # f => UNCHANGED <<wrote[d][g], n_read[d][g], lines[d][g], pending[d][g]>>
      /\ \A d \in Child : d # c => UNCHANGED <<held[d], eof[d], hungup[d]>>
      /\ \A g \in Fd : g # f => UNCHANGED <<g \in held[c], g \in eof[c], g \in hungup[c]>>
  BY <1>0, <1>5
<1> QED
  BY <1>0, <1>6, <1>8, <1>9, <1>10, <1>11, OnePipe

\* ui_child_io tells the lines that the new bytes complete and holds back the rest.
LEMMA ReadOut ==
  ASSUME OutInv, NEW c \in Child, NEW f \in Fd, NEW k \in 1 .. MaxOutput, Read(c, f, k)
  PROVE  OutInv'
<1>0. /\ at = "idle" /\ f \in held[c] /\ f \notin eof[c]
      /\ k \in 1 .. Len(wrote[c][f]) - n_read[c][f]
      /\ n_read' = [n_read EXCEPT ![c][f] = @ + k]
      /\ UNCHANGED <<running, finished, refused, at, job, held, eof, hungup, wrote>>
  BY DEF Read, contract
<1>1. /\ c \in running /\ c \in Started /\ c \notin Over
      /\ PipeOK(c, f) /\ ToldOK(c, f) /\ HeldOK(c)
  BY <1>0, HeldRuns DEF OutInv
<1>2. Started' = Started /\ Over' = Over
  BY <1>0 DEF Started, Over
<1>3. PICK w \in Seq(Byte), n \in Nat, l \in Seq(Seq(Byte)), p \in Seq(Byte) :
        w = wrote[c][f] /\ n = n_read[c][f] /\ l = lines[c][f] /\ p = pending[c][f]
  BY DEF OutInv, OutType
<1>4. k \in Nat /\ Len(w) \in Nat /\ n + k <= Len(w)
  BY <1>0, <1>3
<1>5. /\ n_read'[c][f] = n + k
      /\ \A d \in Child, g \in Fd : d # c \/ g # f => n_read'[d][g] = n_read[d][g]
      /\ n_read' \in [Child -> [Fd -> Nat]]
  BY <1>0, <1>3, <1>4 DEF OutInv, OutType
<1>6. /\ lines' \in [Child -> [Fd -> Seq(Seq(Byte))]] /\ pending' \in [Child -> [Fd -> Seq(Byte)]]
      /\ \A d \in Child, g \in Fd :
           d # c \/ g # f => lines'[d][g] = lines[d][g] /\ pending'[d][g] = pending[d][g]
      /\ ToldOK(c, f)'
  <2>1. CASE ~ WantsLines
    <3>1. UNCHANGED <<lines, pending>>
      BY <2>1 DEF Read
    <3> QED
      BY <2>1, <3>1 DEF ToldOK, OutInv, OutType
  <2>2. CASE WantsLines
    <3>1. PICK data \in Seq(Byte) :
            data = SubSeq(w, n + 1, n + k) /\ SubSeq(w, 1, n + k) = SubSeq(w, 1, n) \o data
      <4>1. /\ SubSeq(w, n + 1, n + k) \in Seq(Byte)
            /\ SubSeq(w, 1, n + k) = SubSeq(w, 1, n) \o SubSeq(w, n + 1, n + k)
        BY <1>4, PrefixGrows
      <4> QED
        BY <4>1
    <3>2. PICK r \in Seq(Byte) : r = SubSeq(w, 1, n)
      <4>1. n <= Len(w)
        BY <1>4
      <4> QED
        BY <4>1, PrefixFacts
    <3>3. Scan(r) = [out |-> l, left |-> p]
      BY <1>1, <1>3, <2>2, <3>2 DEF ToldOK
    <3>4. PICK o \in Seq(Seq(Byte)), q \in Seq(Byte) : Scan(p \o data) = [out |-> o, left |-> q]
      <4>1. p \o data \in Seq(Byte)
        BY ConcatFacts
      <4>2. Scan(p \o data) \in Acc
        BY <4>1, ScanType
      <4> QED
        BY <4>2 DEF Acc
    <3>5. /\ lines' = [lines EXCEPT ![c][f] = l \o o] /\ pending' = [pending EXCEPT ![c][f] = q]
      <4> DEFINE scan == Scan(pending[c][f] \o
                              SubSeq(wrote[c][f], n_read[c][f] + 1, n_read[c][f] + k))
      <4>1. /\ lines' = [lines EXCEPT ![c][f] = lines[c][f] \o scan.out]
            /\ pending' = [pending EXCEPT ![c][f] = scan.left]
        BY <2>2 DEF Read
      <4>2. scan = [out |-> o, left |-> q]
        BY <1>3, <3>1, <3>4
      <4> HIDE DEF scan
      <4> QED
        BY <1>3, <4>1, <4>2
    <3>6. l \o o \in Seq(Seq(Byte))
      OBVIOUS
    <3>7. /\ lines'[c][f] = l \o o /\ pending'[c][f] = q
          /\ lines' \in [Child -> [Fd -> Seq(Seq(Byte))]]
          /\ pending' \in [Child -> [Fd -> Seq(Byte)]]
          /\ \A d \in Child, g \in Fd :
               d # c \/ g # f => lines'[d][g] = lines[d][g] /\ pending'[d][g] = pending[d][g]
      BY <3>5, <3>6 DEF OutInv, OutType
    <3>8. /\ Scan(r \o data).out = l \o o /\ Scan(r \o data).left = q
      <4>1. /\ Scan(r \o data).out = Scan(r).out \o Scan(Scan(r).left \o data).out
            /\ Scan(r \o data).left = Scan(Scan(r).left \o data).left
        BY ScanConcat
      <4>2. Scan(r).out = l /\ Scan(r).left = p
        BY <3>3
      <4>3. Scan(Scan(r).left \o data) = [out |-> o, left |-> q]
        BY <3>4, <4>2
      <4>4. Scan(Scan(r).left \o data).out = o /\ Scan(Scan(r).left \o data).left = q
        BY <4>3
      <4> QED
        BY <4>1, <4>2, <4>4
    <3>9. Scan(r \o data) = [out |-> l \o o, left |-> q]
      <4>1. r \o data \in Seq(Byte)
        BY ConcatFacts
      <4>2. Scan(r \o data) \in Acc
        BY <4>1, ScanType
      <4> QED
        BY <3>8, <4>2 DEF Acc
    <3>10. Scan(SubSeq(w, 1, n + k)) = [out |-> l \o o, left |-> q]
      BY <3>1, <3>2, <3>9
    <3>11. ToldOK(c, f)'
      BY <1>0, <1>1, <1>2, <1>3, <1>5, <3>7, <3>10 DEF ToldOK
    <3> QED
      BY <3>7, <3>11
  <2> QED
    BY <2>1, <2>2
<1>7. OutType'
  BY <1>0, <1>5, <1>6 DEF OutInv, OutType
<1>8. PipeOK(c, f)'
  BY <1>0, <1>1, <1>2, <1>3, <1>4, <1>5 DEF PipeOK
<1>9. HeldOK(c)'
  BY <1>0, <1>1, <1>2 DEF HeldOK
<1>10. /\ \A d \in Child, g \in Fd :
           d # c \/ g # f => UNCHANGED <<wrote[d][g], n_read[d][g], lines[d][g], pending[d][g]>>
      /\ \A d \in Child : d # c => UNCHANGED <<held[d], eof[d], hungup[d]>>
      /\ \A g \in Fd : g # f => UNCHANGED <<g \in held[c], g \in eof[c], g \in hungup[c]>>
  BY <1>0, <1>5, <1>6
<1> QED
  BY <1>0, <1>1, <1>6, <1>7, <1>8, <1>9, <1>10, OnePipe

\* A child whose pipes are closed was read to the end.
LEMMA ReadToTheEnd ==
  ASSUME OutInv, NEW c \in Child, NEW f \in Fd, f \notin held[c]
  PROVE  n_read[c][f] = Len(wrote[c][f]) /\ wrote[c][f] \in Seq(Byte)
         /\ SubSeq(wrote[c][f], 1, n_read[c][f]) = wrote[c][f]
<1>1. PipeOK(c, f) /\ wrote[c][f] \in Seq(Byte) /\ n_read[c][f] \in Nat
  BY DEF OutInv, OutType
<1>2. n_read[c][f] = Len(wrote[c][f])
  <2>1. CASE wrote[c][f] = << >>
    BY <1>1, <2>1 DEF PipeOK
  <2>2. CASE wrote[c][f] # << >>
    BY <1>1, <2>2 DEF PipeOK
  <2> QED
    BY <2>1, <2>2
<1> QED
  BY <1>1, <1>2, PrefixAll

\* The last line, without a newline, is told when the job ends, and nothing is left.
LEMMA DoneStartOut ==
  ASSUME OutInv, NEW c \in Child, DoneStart(c) PROVE OutInv'
<1>0. /\ at = "idle" /\ c \in running /\ held[c] = {} /\ job' = c
      /\ at' \in {"trim", "job_ended"}
      /\ UNCHANGED <<running, finished, refused, held, wrote, n_read, hungup, eof>>
      /\ Flush(c)
  BY DEF DoneStart, contract
<1>1. /\ job = NoJob /\ NoJob \notin Child /\ c \notin finished /\ running \subseteq Child
  BY <1>0, UIAssumption DEF OutInv, StageOK
<1>2. Started' = Started /\ Over' = Over \cup {c} /\ c \in Started /\ c \notin Over
  BY <1>0, <1>1 DEF Started, Over
<1>3. StageOK'
  BY <1>0 DEF OutInv, StageOK, Started
<1>4. /\ lines' \in [Child -> [Fd -> Seq(Seq(Byte))]] /\ pending' \in [Child -> [Fd -> Seq(Byte)]]
      /\ \A d \in Child, g \in Fd :
           d # c => lines'[d][g] = lines[d][g] /\ pending'[d][g] = pending[d][g]
      /\ WantsLines => \A g \in Fd :
           /\ pending'[c][g] = << >>
           /\ lines'[c][g] = IF pending[c][g] = << >> THEN lines[c][g]
                             ELSE Append(lines[c][g], Strip(pending[c][g]))
  <2>1. CASE ~ WantsLines
    <3>1. UNCHANGED <<lines, pending>>
      BY <1>0, <2>1 DEF Flush
    <3> QED
      BY <2>1, <3>1 DEF OutInv, OutType
  <2>2. CASE WantsLines
    <3> DEFINE told == [g \in Fd |-> IF pending[c][g] = << >> THEN lines[c][g]
                                     ELSE Append(lines[c][g], Strip(pending[c][g]))]
               none == [g \in Fd |-> << >>]
    <3>1. lines' = [lines EXCEPT ![c] = told] /\ pending' = [pending EXCEPT ![c] = none]
      BY <1>0, <2>2 DEF Flush
    <3>2. told \in [Fd -> Seq(Seq(Byte))]
      <4>1. ASSUME NEW g \in Fd PROVE told[g] \in Seq(Seq(Byte))
        <5>1. PICK l \in Seq(Seq(Byte)), q \in Seq(Byte) : l = lines[c][g] /\ q = pending[c][g]
          BY DEF OutInv, OutType
        <5>2. PICK t \in Seq(Byte) : t = Strip(q)
          BY StripIs
        <5>3. Append(l, t) \in Seq(Seq(Byte))
          BY AppendFacts
        <5> QED
          BY <5>1, <5>2, <5>3
      <4> QED
        BY <4>1
    <3>3. none \in [Fd -> Seq(Byte)]
      <4>1. << >> \in Seq(Byte)
        OBVIOUS
      <4> QED
        BY <4>1
    <3>4. \A g \in Fd : /\ none[g] = << >>
                        /\ told[g] = IF pending[c][g] = << >> THEN lines[c][g]
                                     ELSE Append(lines[c][g], Strip(pending[c][g]))
      OBVIOUS
    <3> HIDE DEF told, none
    <3> QED
      BY <3>1, <3>2, <3>3, <3>4 DEF OutInv, OutType
  <2> QED
    BY <2>1, <2>2
<1>5. OutType'
  BY <1>0, <1>4 DEF OutInv, OutType
<1>6. ASSUME NEW d \in Child PROVE HeldOK(d)'
  BY <1>0, <1>2 DEF OutInv, HeldOK
<1>7. ASSUME NEW d \in Child, NEW g \in Fd PROVE PipeOK(d, g)' /\ ToldOK(d, g)'
  <2>1. PipeOK(d, g) /\ ToldOK(d, g)
    BY DEF OutInv
  <2>2. PipeOK(d, g)'
    <3>1. d \notin Started => lines'[d][g] = lines[d][g] /\ pending'[d][g] = pending[d][g]
      BY <1>2, <1>4
    <3> QED
      BY <1>0, <1>2, <2>1, <3>1 DEF PipeOK
  <2>3. ToldOK(d, g)'
    <3>1. CASE d # c
      <4>1. d \in Over' <=> d \in Over
        BY <1>2, <3>1
      <4>2. lines'[d][g] = lines[d][g] /\ pending'[d][g] = pending[d][g]
        BY <1>4, <3>1
      <4> QED
        BY <1>0, <2>1, <4>1, <4>2 DEF ToldOK
    <3>2. CASE d = c
      <4> SUFFICES ASSUME WantsLines
                   PROVE  lines'[c][g] = Scan(Completed(wrote[c][g])).out /\ pending'[c][g] = << >>
        BY <1>0, <1>2, <3>2 DEF ToldOK
      <4>1. PICK w \in Seq(Byte) : w = wrote[c][g]
        BY DEF OutInv, OutType
      <4>2. g \notin held[c]
        BY <1>0
      <4>3. SubSeq(wrote[c][g], 1, n_read[c][g]) = w
        BY <4>1, <4>2, ReadToTheEnd
      <4>4. Scan(w) = [out |-> lines[c][g], left |-> pending[c][g]]
        BY <1>2, <2>1, <3>2, <4>3 DEF ToldOK
      <4>5. Scan(w).out = lines[c][g] /\ Scan(w).left = pending[c][g]
        BY <4>4
      <4>6. Scan(Completed(w)).out = IF Scan(w).left = << >> THEN Scan(w).out
                                     ELSE Append(Scan(w).out, Strip(Scan(w).left))
        BY ScanCompleted
      <4>7. Scan(Completed(w)).out = lines'[c][g]
        BY <1>4, <4>5, <4>6
      <4> QED
        BY <1>4, <4>1, <4>7
    <3> QED
      BY <3>1, <3>2
  <2> QED
    BY <2>2, <2>3
<1> QED
  BY <1>3, <1>5, <1>6, <1>7 DEF OutInv

\* The end of ui_child_done changes no output.
LEMMA DoneReturnOut ==
  ASSUME OutInv, DoneReturn PROVE OutInv'
<1>0. /\ at = "job_ended" /\ at' = "idle" /\ job \in running /\ job' = NoJob
      /\ running' = running \ {job} /\ finished' = finished \cup {job}
      /\ UNCHANGED <<refused, held, output>>
  BY DEF DoneReturn, Container!Done
<1>1. Started' = Started /\ Over' = Over /\ job \in Child /\ NoJob \notin Child
      /\ running \ Over = running' \ Over'
  BY <1>0, UIAssumption DEF Started, Over, OutInv, StageOK
<1>2. StageOK'
  BY <1>0, <1>1 DEF OutInv, StageOK
<1>3. OutType' /\ \A c \in Child : HeldOK(c)' /\ \A f \in Fd : PipeOK(c, f)' /\ ToldOK(c, f)'
  BY <1>0, <1>1 DEF OutInv, OutType, HeldOK, PipeOK, ToldOK, output
<1> QED
  BY <1>2, <1>3 DEF OutInv

\* The invariant of the output is inductive.
LEMMA NextOut == ASSUME OutInv, [Next]_vars PROVE OutInv'
<1>1. ASSUME UNCHANGED <<running, finished, refused, job>>, UNCHANGED pipevars,
             \/ UNCHANGED at
             \/ at = "trim" /\ at' = "job_ended"
             \/ at = "idle" /\ at' = "free"
             \/ at = "free" /\ at' = "freed"
      PROVE  OutInv'
  BY <1>1, StageSame, OutSame DEF OutInv
<1>2. CASE \/ Trim \/ TrimReturn \/ Free \/ FreeReturn
           \/ \E m \in Cap : SetCap(m)
           \/ \E c \in Child : Reap(c)
  BY <1>1, <1>2 DEF Trim, TrimReturn, Free, FreeReturn, SetCap, Reap, contract, pipevars
<1>3. CASE \E c \in Child, s \in {"ok", "failed"} : Exit(c, s)
  BY <1>1, <1>3 DEF Exit, Container!Exit, pipevars
<1>4. CASE \E c \in Child : SpawnFails(c)
  <2>1. PICK c \in Child : SpawnFails(c)
    BY <1>4
  <2>2. /\ UNCHANGED <<running, finished, job, at>> /\ UNCHANGED pipevars
        /\ refused' = refused \cup {c} /\ c \notin Started
    BY <2>1 DEF SpawnFails, Container!Refuse, Container!Used, pipevars, Started
  <2>3. StageOK'
    BY <2>2 DEF OutInv, StageOK, Started
  <2> QED
    BY <2>2, <2>3, OutSame
<1>5. CASE DoneReturn \/ \E c \in Child : DoneStart(c) \/ \E P \in SUBSET Fd : Spawn(c, P)
  BY <1>5, DoneReturnOut, DoneStartOut, SpawnOut
<1>6. CASE \E c \in Child, f \in Fd :
             \/ ReadEnd(c, f) \/ Closed(c, f) \/ ChildHangsUp(c, f)
             \/ \E k \in 1 .. MaxOutput : Read(c, f, k)
             \/ \E b \in Byte : ChildWrites(c, f, b)
  BY <1>6, ReadEndOut, ClosedOut, HangsUpOut, ReadOut, WritesOut
<1>7. CASE Terminated \/ UNCHANGED vars
  BY <1>1, <1>7 DEF Terminated, vars, pipevars, output
<1> QED
  BY <1>2, <1>3, <1>4, <1>5, <1>6, <1>7 DEF Next, Work

\* What was read and what was told agree, and the pipes are in order, in every
\* state, whatever the UI does in its callbacks.
THEOREM OutputAlways == Spec => []OutInv
<1>1. Init => OutInv
  BY InitOut
<1>2. OutInv /\ [Next]_vars => OutInv'
  BY NextOut
<1> QED
  BY <1>1, <1>2, PTL DEF Spec

\* LinesExact for every number of jobs and pipes and every length of output:
\* however the reads cut a stream up, what deliver_lines and
\* flush_pending_lines tell the UI is what was read of it, without the CR of a
\* CRLF, and in the end all of it.
THEOREM LinesAlwaysExact == Spec => []LinesExact
<1>1. ASSUME OutInv PROVE LinesExact
  <2> SUFFICES ASSUME WantsLines, NEW c \in Child, NEW f \in Fd
               PROVE  /\ \A i \in DOMAIN lines[c][f] : "\n" \notin ToSet(lines[c][f][i])
                      /\ IF c \in Over
                         THEN Joined(lines[c][f]) = Normal(Completed(wrote[c][f]))
                         ELSE Joined(lines[c][f]) \o pending[c][f]
                                = Normal(SubSeq(wrote[c][f], 1, n_read[c][f]))
    BY DEF LinesExact
  <2>1. PICK w \in Seq(Byte), n \in Nat, l \in Seq(Seq(Byte)), p \in Seq(Byte) :
          w = wrote[c][f] /\ n = n_read[c][f] /\ l = lines[c][f] /\ p = pending[c][f]
    BY <1>1 DEF OutInv, OutType
  <2>2. ToldOK(c, f) /\ n <= Len(w)
    BY <1>1, <2>1 DEF OutInv, PipeOK
  <2>3. PICK r \in Seq(Byte) :
          r = IF c \in Over THEN Completed(w) ELSE SubSeq(w, 1, n)
    <3>1. Completed(w) \in Seq(Byte) /\ SubSeq(w, 1, n) \in Seq(Byte)
      BY <2>2, ScanCompleted, PrefixFacts
    <3> QED
      BY <3>1
  <2>4. Scan(r).out = l /\ Scan(r).left = p
    <3>1. CASE c \in Over
      BY <2>1, <2>2, <2>3, <3>1, ScanCompleted DEF ToldOK
    <3>2. CASE c \notin Over
      BY <2>1, <2>2, <2>3, <3>2 DEF ToldOK
    <3> QED
      BY <3>1, <3>2
  <2>5. /\ Joined(l) \o p = Normal(r)
        /\ \A i \in 1 .. Len(l) : Clean(l[i])
    <3>1. Scanned(r)
      BY ScanTellsAll
    <3> QED
      BY <2>4, <3>1 DEF Scanned
  <2>6. \A i \in DOMAIN l : "\n" \notin ToSet(l[i])
    <3>0. DOMAIN l = 1 .. Len(l)
      OBVIOUS
    <3> SUFFICES ASSUME NEW i \in 1 .. Len(l) PROVE "\n" \notin ToSet(l[i])
      BY <3>0
    <3>1. PICK x \in Seq(Byte) : x = l[i]
      OBVIOUS
    <3>2. \A j \in DOMAIN x : x[j] # "\n"
      BY <2>5, <3>1 DEF Clean
    <3> QED
      BY <3>1, <3>2 DEF ToSet
  <2>7. c \in Over => Joined(l) = Normal(r)
    <3>1. Joined(l) \in Seq(Byte)
      BY JoinedFacts
    <3>2. Joined(l) \o << >> = Joined(l)
      BY <3>1, ConcatEmpty
    <3> QED
      BY <2>1, <2>2, <2>5, <3>2 DEF ToldOK
  <2> QED
    BY <2>1, <2>3, <2>5, <2>6, <2>7
<1> QED
  BY <1>1, OutputAlways, PTL

-----------------------------------------------------------------------------
(* The tables of the UI layer.                                             *)

\* No more jobs run than the container has slots, and the cap is one of those
\* that the UI gives.
SlotsOK ==
  running \subseteq Child /\ Cardinality(running) <= MaxChildren
  /\ max_ended_jobs \in Cap \cup {0}

\* At first no job runs.' slots.
LEMMA InitSlots == ASSUME Init PROVE SlotsOK
  BY FS_EmptySet, UIAssumption DEF Init, Container!Init, SlotsOK

\* No more jobs run than the container has slots, and the cap is one that the UI may
\* set.
LEMMA NextSlots == ASSUME SlotsOK, [Next]_vars PROVE SlotsOK'
<1>0. IsFiniteSet(running) /\ Cardinality(running) \in Nat /\ MaxChildren \in Nat
  BY UIAssumption, FS_Subset, FS_CardinalityType DEF SlotsOK
<1>1. CASE UNCHANGED <<running, max_ended_jobs>>
  BY <1>1 DEF SlotsOK
<1>2. CASE \E c \in Child : \E P \in SUBSET Fd : Spawn(c, P)
  <2>1. PICK c \in Child : /\ running' = running \cup {c} /\ Cardinality(running) < MaxChildren
                           /\ max_ended_jobs' = max_ended_jobs
    <3>1. PICK c \in Child, P \in SUBSET Fd : Spawn(c, P)
      BY <1>2
    <3>2. running' = running \cup {c}
      BY <3>1 DEF Spawn, Container!Spawn
    <3>3. Cardinality(running) < MaxChildren
      BY <3>1 DEF Spawn, Container!Spawn, Container!Cardinality, Cardinality
    <3>4. max_ended_jobs' = max_ended_jobs
      BY <3>1 DEF Spawn
    <3> QED
      BY <3>2, <3>3, <3>4
  <2>2. Cardinality(running') <= Cardinality(running) + 1
    BY <1>0, <2>1, FS_AddElement
  <2>3. Cardinality(running') \in Nat
    BY <1>0, <2>1, FS_AddElement, FS_CardinalityType
  <2> QED
    BY <1>0, <2>1, <2>2, <2>3 DEF SlotsOK
<1>3. CASE DoneReturn
  <2>1. running' = running \ {job} /\ max_ended_jobs' \in Cap \cup {max_ended_jobs}
    BY <1>3 DEF DoneReturn, Container!Done, CapAfterCallback
  <2>2. Cardinality(running') <= Cardinality(running) /\ Cardinality(running') \in Nat
    BY <1>0, <2>1, FS_RemoveElement, FS_CardinalityType
  <2> QED
    BY <1>0, <2>1, <2>2 DEF SlotsOK
<1>4. CASE Trim
  BY <1>4 DEF Trim, CapAfterCallback, contract, SlotsOK
<1>5. CASE Free \/ \E m \in Cap : SetCap(m)
  BY <1>5 DEF Free, SetCap, contract, SlotsOK
<1>6. CASE \/ TrimReturn \/ FreeReturn \/ Terminated \/ UNCHANGED vars
           \/ \E c \in Child : \/ DoneStart(c) \/ Reap(c) \/ SpawnFails(c)
                               \/ \E s \in {"ok", "failed"} : Exit(c, s)
  BY <1>1, <1>6 DEF TrimReturn, FreeReturn, Terminated, vars, DoneStart, Reap, SpawnFails, Exit,
                    Container!Refuse, Container!Exit, contract, tables
<1>7. CASE \E c \in Child, f \in Fd :
             \/ ReadEnd(c, f) \/ Closed(c, f) \/ ChildHangsUp(c, f)
             \/ \E k \in 1 .. MaxOutput : Read(c, f, k)
             \/ \E b \in Byte : ChildWrites(c, f, b)
  <2>1. PICK c \in Child, f \in Fd :
          \/ ReadEnd(c, f) \/ Closed(c, f) \/ ChildHangsUp(c, f)
          \/ \E k \in 1 .. MaxOutput : Read(c, f, k)
          \/ \E b \in Byte : ChildWrites(c, f, b)
    BY <1>7
  <2>2. UNCHANGED <<running, max_ended_jobs>>
    BY <2>1 DEF ReadEnd, Closed, Container!Close, ChildHangsUp, Read, ChildWrites,
                contract, tables
  <2> QED
    BY <1>1, <2>2
<1> QED
  BY <1>2, <1>3, <1>4, <1>5, <1>6, <1>7 DEF Next, Work

TableInv == LifeInv /\ CountsOK /\ OutInv /\ SlotsOK

\* The counts are those of finite sets, one within the other.
LEMMA CountsOrdered ==
  ASSUME TableInv PROVE n_ended \in 0 .. n_started /\ n_failed \in 0 .. n_ended
<1>1. /\ IsFiniteSet(Started) /\ IsFiniteSet(Over) /\ Over \subseteq Started
      /\ Failed \subseteq Over
  BY CountedFinite DEF TableInv, Over, Started, Failed
<1>2. Cardinality(Over) <= Cardinality(Started) /\ Cardinality(Failed) <= Cardinality(Over)
  BY <1>1, FS_Subset
<1>3. n_started = Cardinality(Started) /\ n_ended = Cardinality(Over) /\ n_failed = Cardinality(Failed)
  BY DEF TableInv, CountsOK, Failed
<1>4. n_started \in Nat /\ n_ended \in Nat /\ n_failed \in Nat
  BY DEF TableInv, LifeInv, PlaceType
<1> QED
  BY <1>2, <1>3, <1>4

\* ui->jobs is not longer than the container has slots.
LEMMA JobsFit ==
  ASSUME TableInv PROVE Len(jobs) <= MaxChildren
<1>1. jobs \in Seq(Child) /\ Len(jobs) \in Nat /\ IsFiniteSet(running)
      /\ Cardinality(running) \in Nat /\ MaxChildren \in Nat
  BY UIAssumption, FS_Subset, FS_CardinalityType DEF TableInv, LifeInv, PlaceType, SlotsOK
<1>2. \A i, j \in 1 .. Len(jobs) : jobs[i] = jobs[j] => i = j
  <2>1. \A i, j \in 1 .. Len(jobs) : i < j => index[jobs[i]] < index[jobs[j]]
    BY DEF TableInv, LifeInv, JobsOK
  <2>2. \A i \in 1 .. Len(jobs) : index[jobs[i]] \in Nat
    BY <1>1 DEF TableInv, LifeInv, PlaceType
  <2>3. \A i, j \in 1 .. Len(jobs) : i < j \/ j < i \/ i = j
    OBVIOUS
  <2>4. ASSUME NEW i \in 1 .. Len(jobs), NEW j \in 1 .. Len(jobs), jobs[i] = jobs[j]
        PROVE  ~ (i < j) /\ ~ (j < i)
    BY <2>1, <2>2, <2>4
  <2> QED
    BY <2>3, <2>4
<1>3. IsFiniteSet(1 .. Len(jobs)) /\ Cardinality(1 .. Len(jobs)) = Len(jobs)
  <2>1. PICK n \in Nat : n = Len(jobs)
    BY <1>1
  <2>2. IsFiniteSet(1 .. n) /\ Cardinality(1 .. n) = IF 1 > n THEN 0 ELSE n - 1 + 1
    BY FS_Interval
  <2>3. Cardinality(1 .. n) = n
    BY <2>2
  <2> QED
    BY <2>1, <2>2, <2>3
<1>4. [i \in 1 .. Len(jobs) |-> jobs[i]] \in [1 .. Len(jobs) -> running]
  BY DEF TableInv, LifeInv, JobsOK
<1>5. ~ (Cardinality(running) < Cardinality(1 .. Len(jobs)))
  BY <1>1, <1>2, <1>3, <1>4, FS_PigeonHole
<1> QED
  BY <1>1, <1>3, <1>5 DEF TableInv, SlotsOK

\* JobTables for every number of jobs, every limit of the container and every
\* cap: "one consistent world" (yc_ui_spawn, ui_child_done, ended_jobs_trim,
\* yc_ui_reap_job).
THEOREM TablesAlwaysRight == ASSUME ~CapInCallback PROVE Spec => []JobTables
<1>1. Init => SlotsOK
  BY InitSlots
<1>2. SlotsOK /\ [Next]_vars => SlotsOK'
  BY NextSlots
<1>3. Spec => []SlotsOK
  BY <1>1, <1>2, PTL DEF Spec
<1>4. ASSUME TableInv, RetainedByCap PROVE JobTables
  <2>1. TypeOK
    <3>1. n_read \in [Child -> [Fd -> 0 .. MaxOutput]]
      <4>1. n_read \in [Child -> [Fd -> Nat]] /\ MaxOutput \in Nat
        BY <1>4, UIAssumption DEF TableInv, OutInv, OutType
      <4>2. ASSUME NEW c \in Child, NEW f \in Fd PROVE n_read[c][f] \in 0 .. MaxOutput
        <5>1. PipeOK(c, f) /\ wrote[c][f] \in Seq(Byte)
          BY <1>4 DEF TableInv, OutInv, OutType
        <5>2. Len(wrote[c][f]) \in Nat
          BY <5>1
        <5> QED
          BY <4>1, <5>1, <5>2 DEF PipeOK
      <4> QED
        BY <4>1, <4>2
    <3>2. Len(jobs) <= MaxChildren /\ n_ended \in 0 .. n_started /\ n_failed \in 0 .. n_ended
      BY <1>4, JobsFit, CountsOrdered
    <3> QED
      BY <1>4, <3>1, <3>2 DEF TypeOK, TableInv, LifeInv, PlaceType, SlotsOK, OutInv, OutType
  <2>2. DOMAIN jobs = 1 .. Len(jobs) /\ DOMAIN ended_jobs = 1 .. Len(ended_jobs)
    BY <1>4 DEF TableInv, LifeInv, PlaceType
  <2>3. ToSet(jobs) = running \ {job}
    <3>1. \A c \in running \ {job} : c \in ToSet(jobs)
      BY <1>4, <2>2 DEF TableInv, LifeInv, JobsOK, ToSet
    <3>2. \A c \in ToSet(jobs) : c \in running \ {job}
      BY <1>4, <2>2 DEF TableInv, LifeInv, JobsOK, ToSet
    <3> QED
      BY <3>1, <3>2
  <2> QED
    BY <1>4, <2>1, <2>2, <2>3 DEF JobTables, TableInv, LifeInv, JobsOK, EndedOK
<1>5. LifeInv /\ CountsOK /\ OutInv /\ SlotsOK /\ RetainedByCap => JobTables
  BY <1>4 DEF TableInv
<1> QED
  BY <1>3, <1>5, LifeAlways, CountsTrue, OutputAlways, JobsRetainedByCap, PTL

-----------------------------------------------------------------------------
(* What the UI layer promises a UI.                                        *)

\* Where a job is, for the UI.
Stage == [c \in Child |-> IF destroyed[c] > 0 THEN "destroyed"
                          ELSE IF c \in Over THEN "ended"
                          ELSE IF c \in running THEN "running" ELSE "none"]

\* What the steps are looked at under.
ReportInv == LifeInv /\ CountsOK /\ OutInv

\* Where a job is follows from the tables and from what is in memory.
LEMMA StageIs ==
  ASSUME ReportInv, NEW c \in Child
  PROVE  /\ Stage[c] = IF destroyed[c] > 0 THEN "destroyed"
                       ELSE IF c \in Over THEN "ended"
                       ELSE IF c \in running THEN "running" ELSE "none"
         /\ Stage[c] = "none" <=> c \notin Started
         /\ c \in Started \ Over => Stage[c] = "running"
         /\ c \in Over /\ mem[c] = "live" => Stage[c] = "ended"
<1>1. destroyed[c] = (IF c \in Started /\ mem[c] = "freed" THEN 1 ELSE 0)
      /\ (c \in Started \ Over => mem[c] = "live")
  BY DEF ReportInv, LifeInv, MemOK
<1>2. Over \subseteq Started
  BY DEF Over, Started
<1>3. Stage[c] = IF destroyed[c] > 0 THEN "destroyed"
                 ELSE IF c \in Over THEN "ended"
                 ELSE IF c \in running THEN "running" ELSE "none"
  BY DEF Stage
<1>4. c \notin Started => c \notin Over /\ c \notin running
  BY <1>2 DEF Started
<1>5. c \in Started \ Over => c \in running
  BY DEF Started, Over
<1> QED
  BY <1>1, <1>2, <1>3, <1>4, <1>5

\* A job enters a stage, and the others stay in theirs.
LEMMA StageEntered ==
  ASSUME NEW c \in Child, NEW to, Stage'[c] = to,
         \A d \in Child : d # c => Stage'[d] = Stage[d]
  PROVE  Stage' = [Stage EXCEPT ![c] = to]
  BY DEF Stage

\* The stage of a job depends on whether it runs, is over or was destroyed, and on
\* nothing else.
LEMMA StageSameIf ==
  ASSUME UNCHANGED destroyed, Over' = Over, running' \ Over' = running \ Over
  PROVE  Stage' = Stage
<1>1. ASSUME NEW c \in Child PROVE Stage'[c] = Stage[c]
  <2>1. c \in Over' <=> c \in Over
    OBVIOUS
  <2>2. c \notin Over => (c \in running' <=> c \in running)
    OBVIOUS
  <2> QED
    BY <2>1, <2>2 DEF Stage
<1> QED
  BY <1>1 DEF Stage

\* yc_ui_spawn is a start of the report.
LEMMA SpawnReports ==
  ASSUME ReportInv, NEW c \in Child, NEW P \in SUBSET Fd, Spawn(c, P)
  PROVE  Report!Start(c)
<1>0. /\ c \notin Started /\ running' = running \cup {c} /\ finished' = finished /\ at = "idle"
      /\ index' = [index EXCEPT ![c] = n_started] /\ UNCHANGED <<job, destroyed, lines>>
  BY DEF Spawn, Container!Spawn, Container!Used, Started, output
<1>1. /\ Started' = Started \cup {c} /\ Over' = Over /\ c \notin Over /\ job = NoJob
      /\ NoJob \notin Child
  BY <1>0, UIAssumption DEF Started, Over, ReportInv, LifeInv, PlaceOK
<1>2. Stage[c] = "none" /\ Stage'[c] = "running"
  <2>1. Stage[c] = "none"
    BY <1>0, StageIs
  <2>2. destroyed[c] = 0
    BY <1>0 DEF ReportInv, LifeInv, MemOK
  <2> QED
    BY <1>0, <1>1, <2>1, <2>2 DEF Stage
<1>3. ASSUME NEW d \in Child, d # c PROVE Stage'[d] = Stage[d]
  BY <1>0, <1>1, <1>3 DEF Stage
<1>4. Stage' = [Stage EXCEPT ![c] = "running"]
  BY <1>2, <1>3, StageEntered
<1>5. {i \in Child : Stage[i] # "none"} = Started
  BY StageIs DEF ReportInv, LifeInv, PlaceType, Started
<1>6. n_started = Cardinality(Started)
  BY DEF ReportInv, CountsOK
<1>7. index' = [index EXCEPT ![c] = Cardinality({i \in Child : Stage[i] # "none"})]
  BY <1>0, <1>5, <1>6
<1> QED
  BY <1>0, <1>2, <1>4, <1>7
  DEF Report!Start, Report!Enter, Report!Cardinality, Cardinality, Stage

\* What is told goes on from what was told.
LEMMA ReadReports ==
  ASSUME ReportInv, NEW c \in Child, NEW f \in Fd, NEW k \in 1 .. MaxOutput, Read(c, f, k)
  PROVE  Report!Tell(c) \/ UNCHANGED Report!vars
<1>0. /\ at = "idle" /\ f \in held[c]
      /\ UNCHANGED <<running, finished, job, destroyed, index>>
  BY DEF Read, contract, records
<1>1. c \in Started \ Over /\ Over' = Over
  BY <1>0, HeldRuns DEF ReportInv, Over
<1>2. Stage' = Stage /\ Stage[c] = "running"
  BY <1>0, <1>1, StageSameIf, StageIs
<1>3. CASE ~ WantsLines
  <2>1. lines' = lines
    BY <1>3 DEF Read
  <2> QED
    BY <1>0, <1>2, <2>1 DEF Report!vars, Stage
<1>4. CASE WantsLines
  <2>1. PICK l \in Seq(Seq(Byte)) : l = lines[c][f]
    BY DEF ReportInv, OutInv, OutType
  <2>2. PICK data \in Seq(Byte) :
          data = SubSeq(wrote[c][f], n_read[c][f] + 1, n_read[c][f] + k)
    <3>1. PICK w \in Seq(Byte), n \in Nat : w = wrote[c][f] /\ n = n_read[c][f]
      BY DEF ReportInv, OutInv, OutType
    <3>2. k \in 1 .. Len(w) - n
      BY <3>1 DEF Read
    <3>3. k \in Nat /\ n + k <= Len(w)
      BY <3>2
    <3> QED
      BY <3>1, <3>3, PrefixGrows
  <2>3. PICK o \in Seq(Seq(Byte)) : o = Scan(pending[c][f] \o data).out
    <3>1. pending[c][f] \o data \in Seq(Byte)
      BY ConcatFacts DEF ReportInv, OutInv, OutType
    <3> QED
      BY <3>1, ScanType DEF Acc
  <2>4. lines' = [lines EXCEPT ![c][f] = l \o o]
    <3>1. lines' = [lines EXCEPT ![c][f] = lines[c][f] \o
            Scan(pending[c][f] \o SubSeq(wrote[c][f], n_read[c][f] + 1, n_read[c][f] + k)).out]
      BY <1>4 DEF Read
    <3> QED
      BY <2>1, <2>2, <2>3, <3>1
  <2>5. /\ lines'[c][f] = l \o o
        /\ \A d \in Child, g \in Fd : d # c \/ g # f => lines'[d][g] = lines[d][g]
        /\ \A d \in Child : d # c => lines'[d] = lines[d]
    BY <2>4 DEF ReportInv, OutInv, OutType
  <2>6. Len(l) <= Len(l \o o) /\ \A i \in 1 .. Len(l) : (l \o o)[i] = l[i]
    <3>1. /\ Len(l \o o) = Len(l) + Len(o)
          /\ \A i \in 1 .. Len(l) + Len(o) :
               (l \o o)[i] = IF i <= Len(l) THEN l[i] ELSE o[i - Len(l)]
      BY ConcatFacts
    <3>2. Len(l) \in Nat /\ Len(o) \in Nat
      OBVIOUS
    <3> QED
      BY <3>1, <3>2
  <2>7. ASSUME NEW g \in Fd
        PROVE  /\ Len(lines[c][g]) <= Len(lines'[c][g])
               /\ \A i \in 1 .. Len(lines[c][g]) : lines'[c][g][i] = lines[c][g][i]
    <3>1. CASE g = f
      BY <2>1, <2>5, <2>6, <3>1
    <3>2. CASE g # f
      <4>1. lines'[c][g] = lines[c][g] /\ Len(lines[c][g]) \in Nat
        BY <2>5, <3>2 DEF ReportInv, OutInv, OutType
      <4> QED
        BY <4>1
    <3> QED
      BY <3>1, <3>2
  <2>8. Report!Extends(c)
    BY <2>5, <2>7 DEF Report!Extends
  <2> QED
    BY <1>0, <1>2, <2>8 DEF Report!Tell, Stage
<1> QED
  BY <1>3, <1>4

\* The beginning of ui_child_done tells the last lines and ends the job.
LEMMA DoneStartReports ==
  ASSUME ReportInv, NEW c \in Child, DoneStart(c) PROVE Report!End(c)
<1>0. /\ at = "idle" /\ c \in running /\ job' = c /\ Flush(c)
      /\ UNCHANGED <<running, finished, destroyed, index>>
  BY DEF DoneStart, contract
<1>1. /\ job = NoJob /\ NoJob \notin Child /\ running \subseteq Child /\ c \notin finished
  BY <1>0, UIAssumption DEF ReportInv, LifeInv, PlaceOK, PlaceType
<1>2. Over' = Over \cup {c} /\ c \in Started \ Over
  BY <1>0, <1>1 DEF Started, Over
<1>3. Stage[c] = "running" /\ Stage'[c] = "ended"
  <2>1. Stage[c] = "running"
    BY <1>2, StageIs
  <2>2. ~ (destroyed[c] > 0)
    BY <2>1 DEF Stage
  <2> QED
    BY <1>0, <1>2, <2>1, <2>2 DEF Stage
<1>4. ASSUME NEW d \in Child, d # c PROVE Stage'[d] = Stage[d]
  BY <1>0, <1>2, <1>4 DEF Stage
<1>5. Stage' = [Stage EXCEPT ![c] = "ended"]
  BY <1>3, <1>4, StageEntered
<1>6. Report!Extends(c)
  <2>1. CASE ~ WantsLines
    <3>1. lines' = lines
      BY <1>0, <2>1 DEF Flush
    <3>2. \A f \in Fd : Len(lines[c][f]) \in Nat
      BY DEF ReportInv, OutInv, OutType
    <3> QED
      BY <3>1, <3>2 DEF Report!Extends
  <2>2. CASE WantsLines
    <3> DEFINE told == [g \in Fd |-> IF pending[c][g] = << >> THEN lines[c][g]
                                     ELSE Append(lines[c][g], Strip(pending[c][g]))]
    <3>1. lines' = [lines EXCEPT ![c] = told]
      BY <1>0, <2>2 DEF Flush
    <3>2. lines'[c] = told /\ \A d \in Child : d # c => lines'[d] = lines[d]
      BY <3>1 DEF ReportInv, OutInv, OutType
    <3>3. ASSUME NEW g \in Fd
          PROVE  /\ Len(lines[c][g]) <= Len(told[g])
                 /\ \A i \in 1 .. Len(lines[c][g]) : told[g][i] = lines[c][g][i]
      <4>1. PICK l \in Seq(Seq(Byte)), q \in Seq(Byte) : l = lines[c][g] /\ q = pending[c][g]
        BY DEF ReportInv, OutInv, OutType
      <4>2. PICK t \in Seq(Byte) : t = Strip(q)
        BY StripIs
      <4>3. /\ Len(Append(l, t)) = Len(l) + 1 /\ Len(l) \in Nat
            /\ \A i \in 1 .. Len(l) : Append(l, t)[i] = l[i]
        BY AppendFacts
      <4> QED
        BY <4>1, <4>2, <4>3
    <3> HIDE DEF told
    <3> QED
      BY <3>2, <3>3 DEF Report!Extends
  <2> QED
    BY <2>1, <2>2
<1> QED
  BY <1>0, <1>3, <1>5, <1>6 DEF Report!End, Report!Enter, Stage

\* job_destroyed() is called of a job that has ended.
LEMMA DestroyReports ==
  ASSUME ReportInv, NEW c \in Over, mem[c] = "live", JobDestroy(c), Over' = Over,
         running' \ Over' = running \ Over, UNCHANGED <<lines, index>>
  PROVE  Report!Destroy(c)
<1>0. c \in Child /\ destroyed \in [Child -> Nat] /\ destroyed' = [destroyed EXCEPT ![c] = @ + 1]
  BY DEF ReportInv, LifeInv, PlaceType, Over, JobDestroy
<1>1. Stage[c] = "ended"
  BY <1>0, StageIs
<1>2. Stage'[c] = "destroyed"
  BY <1>0 DEF Stage
<1>3. ASSUME NEW d \in Child, d # c PROVE Stage'[d] = Stage[d]
  <2>1. destroyed'[d] = destroyed[d]
    BY <1>0, <1>3
  <2>2. d \in Over' <=> d \in Over
    OBVIOUS
  <2>3. d \notin Over => (d \in running' <=> d \in running)
    OBVIOUS
  <2> QED
    BY <2>1, <2>2, <2>3 DEF Stage
<1>4. Stage' = [Stage EXCEPT ![c] = "destroyed"]
  BY <1>0, <1>2, <1>3, StageEntered
<1> QED
  BY <1>0, <1>1, <1>4 DEF Report!Destroy, Report!Enter, Stage

\* An eviction is a destruction.
LEMMA TrimReports == ASSUME ReportInv, Trim PROVE \E c \in Child : Report!Destroy(c)
<1>1. /\ JobDestroy(Head(ended_jobs)) /\ TooMany
      /\ UNCHANGED <<running, finished, job, lines, index>>
  BY DEF Trim, contract, records, output
<1>2. ended_jobs \in Seq(Child) /\ max_ended_jobs \in Nat
  BY DEF ReportInv, LifeInv, PlaceType
<1>3. Len(ended_jobs) \in Nat /\ Len(ended_jobs) > max_ended_jobs
  BY <1>1, <1>2 DEF TooMany
<1>4. 1 \in 1 .. Len(ended_jobs) /\ ended_jobs # << >>
  BY <1>2, <1>3
<1>5. Head(ended_jobs) = ended_jobs[1]
  BY <1>2, <1>4
<1>6. PICK c \in Child : c = ended_jobs[1]
  BY <1>2, <1>4
<1>7. c \in Over /\ mem[c] = "live" /\ JobDestroy(c)
  BY <1>1, <1>4, <1>5, <1>6 DEF ReportInv, LifeInv, EndedOK
<1>8. Over' = Over /\ running' \ Over' = running \ Over
  BY <1>1 DEF Over
<1>9. Report!Destroy(c)
  BY <1>1, <1>7, <1>8, DestroyReports
<1> QED
  BY <1>9

\* So is a reap.
LEMMA ReapReports == ASSUME ReportInv, NEW c \in Child, Reap(c) PROVE Report!Destroy(c)
<1>1. /\ JobDestroy(c) /\ \E i \in 1 .. Len(ended_jobs) : ended_jobs[i] = c
      /\ UNCHANGED <<running, finished, job, lines, index>>
  BY DEF Reap, contract, records, output
<1>2. c \in Over /\ mem[c] = "live"
  BY <1>1 DEF ReportInv, LifeInv, EndedOK
<1>3. Over' = Over /\ running' \ Over' = running \ Over
  BY <1>1 DEF Over
<1> QED
  BY <1>1, <1>2, <1>3, DestroyReports

\* The end of ui_child_done is a destruction under a cap of 0, or nothing.
LEMMA DoneReturnReports ==
  ASSUME ReportInv, ~CapInCallback, DoneReturn
  PROVE  (\E c \in Child : Report!Destroy(c)) \/ UNCHANGED Report!vars
<1>1. /\ at = "job_ended" /\ job \in running /\ job' = NoJob /\ running' = running \ {job}
      /\ finished' = finished \cup {job} /\ max_ended_jobs' = max_ended_jobs
      /\ UNCHANGED <<lines, index>>
      /\ IF max_ended_jobs = 0 THEN JobDestroy(job) ELSE UNCHANGED <<mem, destroyed>>
  BY DEF DoneReturn, Container!Done, CapAfterCallback, output
<1>2. /\ job \in Over /\ job \in Child /\ NoJob \notin Child
  BY <1>1, UIAssumption DEF Over, ReportInv, LifeInv, PlaceType
<1>3. Over' = Over /\ running' \ Over' = running \ Over
  BY <1>1, <1>2, UIAssumption DEF Over, ReportInv, LifeInv, PlaceType
<1>4. CASE max_ended_jobs = 0
  <2>1. mem[job] = "live"
    BY <1>1, <1>4 DEF ReportInv, LifeInv, ReportOK
  <2>2. PICK c \in Child : c = job
    BY <1>2
  <2>3. c \in Over /\ mem[c] = "live" /\ JobDestroy(c)
    BY <1>1, <1>2, <1>4, <2>1, <2>2
  <2>4. Report!Destroy(c)
    BY <1>1, <1>3, <2>3, DestroyReports
  <2> QED
    BY <2>4
<1>5. CASE max_ended_jobs # 0
  <2>1. Stage' = Stage
    BY <1>1, <1>3, <1>5, StageSameIf
  <2> QED
    BY <1>1, <2>1 DEF Report!vars, Stage
<1> QED
  BY <1>4, <1>5

\* Every step is a step of the report, or none.
LEMMA NextReports ==
  ASSUME ReportInv, ~CapInCallback, [Next]_vars PROVE [Report!Next]_(Report!vars)
<1>1. ASSUME UNCHANGED <<running, finished, job, destroyed, lines, index>>
      PROVE  UNCHANGED Report!vars
  <2>1. Stage' = Stage
    BY <1>1, StageSameIf DEF Over
  <2> QED
    BY <1>1, <2>1 DEF Report!vars, Stage
<1>2. CASE \E c \in Child : \E P \in SUBSET Fd : Spawn(c, P)
  BY <1>2, SpawnReports DEF Report!Next
<1>3. CASE \E c \in Child, f \in Fd, k \in 1 .. MaxOutput : Read(c, f, k)
  BY <1>3, ReadReports DEF Report!Next
<1>4. CASE \E c \in Child : DoneStart(c) \/ Reap(c)
  BY <1>4, DoneStartReports, ReapReports DEF Report!Next
<1>5. CASE Trim
  BY <1>5, TrimReports DEF Report!Next
<1>6. CASE DoneReturn
  BY <1>6, DoneReturnReports DEF Report!Next
<1>7. CASE \/ TrimReturn \/ Free \/ FreeReturn \/ Terminated \/ UNCHANGED vars
           \/ \E m \in Cap : SetCap(m)
           \/ \E c \in Child : SpawnFails(c) \/ \E s \in {"ok", "failed"} : Exit(c, s)
  BY <1>1, <1>7 DEF TrimReturn, Free, FreeReturn, Terminated, vars, SetCap, SpawnFails, Exit,
                    Container!Refuse, Container!Exit, contract, records, output
<1>8. CASE \E c \in Child, f \in Fd :
             \/ ReadEnd(c, f) \/ Closed(c, f) \/ ChildHangsUp(c, f)
             \/ \E b \in Byte : ChildWrites(c, f, b)
  <2>1. PICK c \in Child, f \in Fd :
          \/ ReadEnd(c, f) \/ Closed(c, f) \/ ChildHangsUp(c, f)
          \/ \E b \in Byte : ChildWrites(c, f, b)
    BY <1>8
  <2>2. UNCHANGED <<running, finished, job, destroyed, lines, index>>
    BY <2>1 DEF ReadEnd, Closed, Container!Close, ChildHangsUp, ChildWrites, contract, records,
                output
  <2> QED
    BY <1>1, <2>2
<1> QED
  BY <1>2, <1>3, <1>4, <1>5, <1>6, <1>7, <1>8 DEF Next, Work

\* The UI layer keeps JobReport's promises to a UI for every number of jobs and
\* pipes: each job is started, tells its lines, ends and is destroyed, in this
\* order and each once, and what it told stays told (yc_ui_spawn, ui_child_io,
\* ui_child_done, job_destroy).
THEOREM ReportsAsPromised == ASSUME ~CapInCallback PROVE Spec => ReportSpec
<1>1. Init => Report!Init
  <2> SUFFICES ASSUME Init PROVE Report!Init
    OBVIOUS
  <2>1. Stage = [c \in Child |-> "none"]
    <3>1. ASSUME NEW c \in Child
          PROVE  destroyed[c] = 0 /\ c \notin Over /\ c \notin running
      BY UIAssumption DEF Init, Container!Init, Over
    <3> QED
      BY <3>1 DEF Stage
  <2> QED
    BY <2>1 DEF Init, Report!Init, Stage
<1>2. LifeInv /\ CountsOK /\ OutInv /\ [Next]_vars => [Report!Next]_(Report!vars)
  BY NextReports DEF ReportInv
<1> QED
  BY <1>1, <1>2, LifeAlways, CountsTrue, OutputAlways, PTL DEF Spec, ReportSpec, Report!Spec

=============================================================================
