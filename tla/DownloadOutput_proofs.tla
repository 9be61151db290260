----------------------- MODULE DownloadOutput_proofs -----------------------
(***************************************************************************)
(* Proofs about DownloadOutput, for any downloads, sessions, faults, files *)
(* of others and lengths.                                                  *)
(*                                                                         *)
(* A run's place in the code says which of its two files exist (FilesOK),  *)
(* and its folder is whole while it has a record (PlaceOK).  A sweep only  *)
(* visits folders of sessions that are gone for good, so that the runs it  *)
(* meets are over, and it takes the temporary file before the record and   *)
(* the records before the folder (SweepOK).  A file is at its destination  *)
(* between the call that publishes it and the result, and since each run   *)
(* puts at most one there, a free name is always found (ShelfOK).          *)
(***************************************************************************)
EXTENDS DownloadOutput, FiniteSetTheorems, TLAPS

Pcs == {"idle", "waiting", "opening", "recording", "describing", "creating", "undoing", "reading",
        "writing", "returning", "syncing", "linking", "dropping", "forgetting", "joining",
        "discarding", "erasing", "done", "lost"}
RunType ==
  [pc : Pcs, session : 0..MaxSessions, kind : Kinds, aborted : BOOLEAN, reader : BOOLEAN,
   sink : BOOLEAN, index : 1..Names, why : {None, "cancelled", "other", "publish"},
   unclean : BOOLEAN, result : Results \cup {None}]

Sweeping == {"sweeping", "removing", "erasing"}
Dropping == {"emptying", "disowning", "unfolding"}
Visiting == {"inspecting"} \cup Sweeping \cup Dropping
Early == {"listing", "visiting"} \cup Visiting
Stages == {"off", "gone", "broken", "owner", "records", "ready", "leaving", "left"} \cup Early
Full == {"folder", "owner", "records"}
SessionType ==
  [parent : BOOLEAN, worker : BOOLEAN, at : Stages, closed : BOOLEAN, todo : SUBSET Sessions,
   visit : 0..MaxSessions, records : SUBSET Downloads, item : Downloads \cup {None},
   clean : BOOLEAN, failed : BOOLEAN, dead : SUBSET Sessions]

File == [by : Downloads \cup {None, Foreign}, bytes : 0..Length]
DiskType ==
  [record : [Downloads -> {None, "torn", "whole"}],
   temporary : [Downloads -> {Absent} \cup 0..Length],
   folder : [Sessions -> SUBSET Full], shelf : [1..Names -> File], foreign : SUBSET (1..Names)]

TypeInv ==
  /\ job \in [Downloads -> RunType] /\ session \in [Sessions -> SessionType]
  /\ disk \in DiskType /\ faults \in 0..MaxFaults

\* Where the processes are while a run is under way, and the folder of its record.
PlaceOK(d) ==
  /\ (job[d].pc = "idle") <=> (job[d].session = 0)
  /\ job[d].pc \notin Settled => session[job[d].session].worker
  /\ job[d].pc \notin Settled \cup {"waiting"} => session[job[d].session].at = "ready"
  /\ disk.record[d] # None =>
       job[d].session \in Sessions /\ disk.folder[job[d].session] = Full

\* What a run's place in the code says of its two files and of its result.
FilesOK(d) ==
  /\ (job[d].pc = "done") <=> (job[d].result # None)
  /\ job[d].pc \in {"idle", "waiting", "opening", "recording"} => disk.record[d] = None
  /\ job[d].pc \in {"recording", "describing", "creating", "undoing", "forgetting", "erasing"} =>
       disk.temporary[d] = Absent
  /\ job[d].pc = "creating" => disk.record[d] = "whole"
  /\ job[d].pc \in Writing => job[d].sink /\ disk.temporary[d] # Absent
  /\ job[d].pc = "writing" => disk.temporary[d] < Length
  /\ job[d].pc \in {"returning", "syncing", "linking"} => disk.temporary[d] = Length
  /\ job[d].pc = "joining" /\ ~job[d].sink => disk.temporary[d] = Absent
  /\ job[d].sink => job[d].pc \in Writing \cup {"joining", "dropping", "forgetting", "discarding", "erasing"}
  /\ disk.temporary[d] # Absent => disk.record[d] = "whole"

\* A session's own life and folder.
LifeOK(s) ==
  /\ session[s].worker <=> session[s].at \notin {"off", "gone"}
  /\ session[s].at = "off" => ~session[s].parent
  /\ session[s].at # "off" => \A t \in 1..s - 1 : session[t].at # "off"
  /\ session[s].at \in {"off"} \cup Early => disk.folder[s] = {}
  /\ session[s].at = "owner" => disk.folder[s] = {"folder"}
  /\ session[s].at = "records" => disk.folder[s] = {"folder", "owner"}
  /\ session[s].at = "ready" => disk.folder[s] = Full
  /\ session[s].at \in {"leaving", "left"} =>
       /\ session[s].closed /\ Records(s) = {}
       /\ \A d \in JobsOf(s) : job[d].pc \in Settled

\* The folder the sweep is in, and the records it has still to remove.
StageOK(r) ==
  /\ r.at \in Visiting => r.visit \in r.todo /\ ~Alive(r.visit)
  /\ r.at \in Sweeping => r.records \subseteq JobsOf(r.visit)
  /\ r.at \in {"removing", "erasing"} => r.item \in JobsOf(r.visit)
  /\ r.at = "erasing" => disk.temporary[r.item] = Absent
  /\ r.at = "sweeping" /\ r.clean =>
       Records(r.visit) \subseteq r.records
  /\ r.at \in {"removing", "erasing"} /\ r.clean =>
       Records(r.visit) \subseteq r.records \cup {r.item}
  /\ r.at \in Dropping => Records(r.visit) = {}
  /\ r.at \in (Early \ {"listing"}) \cup {"owner", "records"} /\ ~r.failed =>
       \A t \in r.dead \ r.todo : Records(t) = {}
  /\ r.at \in {"owner", "records"} => r.todo = {}

\* The folders its sweep has still to visit.
SweepOK(s) ==
  /\ s \notin session[s].todo \cup session[s].dead
  /\ \A t \in session[s].todo \cup session[s].dead : session[t].at # "off"
  /\ \A t \in session[s].dead : ~Alive(t)
  /\ StageOK(session[s])

JobsOK == \A d \in Downloads : PlaceOK(d) /\ FilesOK(d)
SessionsOK == \A s \in Sessions : LifeOK(s) /\ SweepOK(s)

\* The names a run's file has; somebody replaced it, as its user confirmed; it is published.
Holds(d) == {n \in 1..Names : disk.shelf[n].by = d}
Replaced(d) == \E e \in Downloads \ {d} : job[e].kind = "confirmed" /\ disk.shelf[1].by = e
Published(d) == job[d].pc \in {"dropping", "forgetting"} \/ job[d].result = "saved"

Late == {"linking", "dropping", "forgetting", "joining", "discarding", "erasing"}

ShelfOf(d) ==
  /\ \A n \in Holds(d) : disk.shelf[n].bytes = Length
  /\ \A m, n \in Holds(d) : m = n
  /\ Published(d) => Holds(d) # {} \/ Replaced(d)
  /\ ~Published(d) /\ job[d].pc # "lost" => Holds(d) = {}
  /\ job[d].pc = "linking" => \A n \in 1..job[d].index - 1 : disk.shelf[n] # NoFile
  /\ job[d].pc \notin Late => job[d].index = 1

ForeignOK ==
  /\ \A n \in 1..Names : disk.shelf[n].by = None => disk.shelf[n] = NoFile
  /\ \A n \in 1..Names : disk.shelf[n].by = Foreign => n \in disk.foreign
  /\ \A n \in disk.foreign : disk.shelf[n].by = Foreign \/ (n = 1 /\ Replaced(Foreign))
  /\ Cardinality(disk.foreign) <= MaxForeign

ShelfOK == ForeignOK /\ \A d \in Downloads : ShelfOf(d)

\* The inductive invariant.
OutputInv == TypeInv /\ JobsOK /\ SessionsOK /\ ShelfOK

(* Steps that leave a session as it is *)

\* What is gone stays gone, and nothing is written for it any more.
Quiet ==
  /\ \A t \in Sessions : session[t].at # "off" => session'[t].at # "off"
  /\ \A t \in Sessions : session[t].at # "off" /\ ~Alive(t) =>
       /\ ~Alive(t)' /\ JobsOf(t)' = JobsOf(t) /\ Records(t)' \subseteq Records(t)
       /\ \A d \in JobsOf(t) : disk.temporary[d] = Absent => disk'.temporary[d] = Absent

LEMMA SessionKept ==
  ASSUME TypeInv, SessionsOK, Quiet, NEW s \in Sessions, session'[s] = session[s],
         session[s].at \in Early \cup {"off", "owner", "records", "ready"} => disk'.folder[s] = disk.folder[s],
         session[s].at \in {"leaving", "left"} =>
           /\ Records(s)' = {} /\ \A d \in JobsOf(s)' : job'[d].pc \in Settled
  PROVE  LifeOK(s)' /\ SweepOK(s)'
<1>1. LifeOK(s) /\ SweepOK(s)
  BY DEF SessionsOK
<1>2. LifeOK(s)'
  <2>1. s - 1 \in Int /\ 1..s - 1 \subseteq Sessions
    BY OutputAssumption DEF Sessions
  <2> QED
    BY <1>1, <2>1 DEF LifeOK, Quiet
<1>3. session[s] \in SessionType
  BY DEF TypeInv
<1>4. SweepOK(s)'
  <2>1. session[s].todo \subseteq Sessions /\ session[s].dead \subseteq Sessions
    BY <1>3 DEF SessionType
  <2>2. \A t \in session[s].todo \cup session[s].dead : session'[t].at # "off"
    BY <1>1, <2>1 DEF SweepOK, Quiet
  <2>3. \A t \in session[s].dead : ~Alive(t)' /\ (Records(t) = {} => Records(t)' = {})
    BY <1>1, <2>1 DEF SweepOK, Quiet
  <2>4. ASSUME session[s].at \in Visiting
        PROVE  /\ session[s].visit \in Sessions /\ ~Alive(session[s].visit)'
               /\ JobsOf(session[s].visit)' = JobsOf(session[s].visit)
               /\ Records(session[s].visit)' \subseteq Records(session[s].visit)
               /\ \A d \in JobsOf(session[s].visit) :
                    disk.temporary[d] = Absent => disk'.temporary[d] = Absent
    <3>1. PICK t \in Sessions : t = session[s].visit /\ session[t].at # "off" /\ ~Alive(t)
      BY <1>1, <2>1, <2>4 DEF SweepOK, StageOK
    <3>2. /\ ~Alive(t)' /\ JobsOf(t)' = JobsOf(t) /\ Records(t)' \subseteq Records(t)
          /\ \A d \in JobsOf(t) : disk.temporary[d] = Absent => disk'.temporary[d] = Absent
      BY <3>1 DEF Quiet
    <3>3. session'[s].visit = t
      BY <3>1
    <3> QED
      BY <3>1, <3>2, <3>3 DEF Alive, JobsOf, Records
  <2> QED
    BY <1>1, <2>2, <2>3, <2>4 DEF SweepOK, StageOK, Visiting, Sweeping, Dropping
<1> QED
  BY <1>2, <1>4

-----------------------------------------------------------------------------
(* Steps of a run *)

\* What a step of one run leaves of the rest.
JobMoves(d) ==
  /\ session' = session /\ faults' \in 0..MaxFaults
  /\ job' \in [Downloads -> RunType] /\ disk' \in DiskType /\ disk'.folder = disk.folder
  /\ job'[d].session = job[d].session /\ job'[d].pc # "idle"
  /\ \A e \in Downloads \ {d} : /\ job'[e] = job[e] /\ disk'.record[e] = disk.record[e]
                                /\ disk'.temporary[e] = disk.temporary[e]
  /\ job'[d].pc \notin Settled \cup {"waiting"} => session[job[d].session].at = "ready"
  /\ disk'.record[d] # None => session[job[d].session].at = "ready"
  /\ FilesOK(d)'

LEMMA JobStep ==
  ASSUME TypeInv, JobsOK, SessionsOK, NEW d \in Downloads, job[d].pc \notin Settled, JobMoves(d)
  PROVE  TypeInv' /\ JobsOK' /\ SessionsOK'
<1>1. TypeInv'
  BY DEF TypeInv, JobMoves
<1>2. /\ job[d].session \in Sessions /\ session[job[d].session].worker
      /\ session[job[d].session].at \notin {"off", "gone"}
  <2>1. job[d].session \in 0..MaxSessions /\ PlaceOK(d)
    BY DEF JobsOK, TypeInv, RunType
  <2>2. job[d].session \in Sessions /\ session[job[d].session].worker
    BY <2>1, OutputAssumption DEF PlaceOK, Settled, Sessions
  <2> QED
    BY <2>2 DEF SessionsOK, LifeOK
<1>3. \A t \in Sessions : ~session[t].worker => JobsOf(t)' = JobsOf(t) /\ Records(t)' = Records(t)
  BY <1>2 DEF JobMoves, JobsOf, Records
<1>4. Quiet
  BY <1>2, <1>3 DEF JobMoves, Quiet, Alive, JobsOf
<1>5. SessionsOK'
  <2> SUFFICES ASSUME NEW s \in Sessions PROVE LifeOK(s)' /\ SweepOK(s)'
    BY DEF SessionsOK
  <2>1. session'[s] = session[s] /\ disk'.folder[s] = disk.folder[s]
    BY DEF JobMoves
  <2>2. ASSUME session[s].at \in {"leaving", "left"}
        PROVE  Records(s)' = {} /\ \A e \in JobsOf(s)' : job'[e].pc \in Settled
    <3>1. Records(s) = {} /\ \A e \in JobsOf(s) : job[e].pc \in Settled
      BY <2>2 DEF SessionsOK, LifeOK
    <3>2. d \notin JobsOf(s)
      BY <3>1
    <3> QED
      BY <3>1, <3>2 DEF JobMoves, JobsOf, Records
  <2> QED
    BY <1>4, <2>1, <2>2, SessionKept
<1>6. JobsOK'
  <2> SUFFICES ASSUME NEW e \in Downloads PROVE PlaceOK(e)' /\ FilesOK(e)'
    BY DEF JobsOK
  <2>1. PlaceOK(e) /\ FilesOK(e)
    BY DEF JobsOK
  <2>2. CASE e # d
    BY <2>1, <2>2 DEF JobMoves, PlaceOK, FilesOK
  <2>3. CASE e = d
    <3>1. PlaceOK(d)'
      <4>1. session[job[d].session].at = "ready" => disk.folder[job[d].session] = Full
        BY <1>2 DEF SessionsOK, LifeOK
      <4> QED
        BY <1>2, <2>1, <2>3, <4>1 DEF JobMoves, PlaceOK, Settled
    <3> QED
      BY <2>3, <3>1 DEF JobMoves
  <2> QED
    BY <2>2, <2>3
<1> QED
  BY <1>1, <1>5, <1>6

\* The shelf is left alone, and no run passes or forgets its commit point.
ShelfMoves(d) ==
  /\ disk'.shelf = disk.shelf /\ disk'.foreign = disk.foreign
  /\ job'[d].kind = job[d].kind \/ Holds(d) = {}
  /\ Published(d)' => Published(d)
  /\ Published(d) \/ job[d].pc = "lost" => Published(d)' \/ job'[d].pc = "lost"
  /\ job'[d].pc = "linking" => \A n \in 1..job'[d].index - 1 : disk.shelf[n] # NoFile
  /\ job'[d].pc \notin Late => job'[d].index = 1

LEMMA ShelfKept ==
  ASSUME TypeInv, ShelfOK, \A d \in Downloads : ShelfMoves(d) \/ (job'[d] = job[d]),
         disk'.shelf = disk.shelf, disk'.foreign = disk.foreign
  PROVE  ShelfOK'
<1>1. \A d \in Downloads : Holds(d)' = Holds(d)
  BY DEF Holds
<1>2. ASSUME NEW x, Replaced(x) PROVE Replaced(x)'
  <2>1. PICK e \in Downloads \ {x} : job[e].kind = "confirmed" /\ disk.shelf[1].by = e
    BY <1>2 DEF Replaced
  <2>2. job[e].index \in 1..Names
    BY <2>1 DEF TypeInv, RunType
  <2>3. 1 \in Holds(e)
    BY <2>1, <2>2, OutputAssumption DEF Holds
  <2>4. job'[e].kind = "confirmed"
    BY <2>1, <2>3 DEF ShelfMoves
  <2> QED
    BY <2>1, <2>4 DEF Replaced
<1>3. ASSUME NEW d \in Downloads PROVE ShelfOf(d)'
  <2>1. ShelfOf(d)
    BY DEF ShelfOK
  <2>2. CASE job'[d] = job[d]
    <3>1. Published(d)' <=> Published(d)
      BY <2>2 DEF Published
    <3> QED
      BY <1>1, <1>2, <2>1, <2>2, <3>1 DEF ShelfOf
  <2>3. CASE ShelfMoves(d)
    BY <1>1, <1>2, <2>1, <2>3 DEF ShelfOf, ShelfMoves
  <2> QED
    BY <2>2, <2>3
<1>4. ForeignOK'
  <2>1. Replaced(Foreign) => Replaced(Foreign)'
    BY <1>2
  <2> QED
    BY <2>1 DEF ShelfOK, ForeignOK
<1> QED
  BY <1>3, <1>4 DEF ShelfOK

-----------------------------------------------------------------------------
(* What a stage does to its run *)

\* Only this run changes; these of its fields say where its files are.
JobKept(d) ==
  /\ job' \in [Downloads -> RunType] /\ job'[d].session = job[d].session
  /\ \A e \in Downloads \ {d} : job'[e] = job[e]
Like(d, run) ==
  /\ job'[d].kind = run.kind /\ job'[d].sink = run.sink /\ job'[d].index = run.index
  /\ job'[d].result = run.result

LEMMA JobSet ==
  ASSUME TypeInv, NEW d \in Downloads, NEW r \in RunType, r.session = job[d].session,
         job' = [job EXCEPT ![d] = r]
  PROVE  JobKept(d) /\ job'[d] = r
BY DEF TypeInv, JobKept

LEMMA RunGoes ==
  ASSUME TypeInv, NEW d \in Downloads, NEW pc \in Pcs, Goes(d, pc)
  PROVE  JobKept(d) /\ job'[d].pc = pc /\ Like(d, job[d])
<1> DEFINE r == [job[d] EXCEPT !.pc = pc]
<1>1. job[d] \in RunType /\ r \in RunType
  BY DEF TypeInv, RunType
<1>2. r.session = job[d].session /\ job' = [job EXCEPT ![d] = r]
  BY <1>1 DEF Goes, RunType
<1>3. JobKept(d) /\ job'[d] = r
  <2> HIDE DEF r
  <2> QED
    BY <1>1, <1>2, JobSet
<1> QED
  BY <1>1, <1>3 DEF RunType, Like

LEMMA RunThrows ==
  ASSUME TypeInv, NEW d \in Downloads, NEW why \in {"cancelled", "other", "publish"}, Throws(d, why)
  PROVE  JobKept(d) /\ job'[d].pc = "joining" /\ Like(d, job[d])
<1> DEFINE r == [job[d] EXCEPT !.pc = "joining", !.why = why]
<1>1. job[d] \in RunType /\ r \in RunType
  BY ZenonT(60) DEF TypeInv, RunType, Pcs
<1>2. r.session = job[d].session /\ job' = [job EXCEPT ![d] = r]
  BY <1>1 DEF Throws, RunType, TypeInv
<1>3. JobKept(d) /\ job'[d] = r
  <2> HIDE DEF r
  <2> QED
    BY <1>1, <1>2, JobSet
<1> QED
  BY <1>1, <1>3 DEF RunType, Like

\* checkCancelled() sends an aborted run to its catch clause.
LEMMA RunChecked ==
  ASSUME TypeInv, NEW d \in Downloads, NEW run \in RunType, NEW pc \in Pcs,
         run.session = job[d].session, job' = [job EXCEPT ![d] = Unless(run, pc)]
  PROVE  JobKept(d) /\ job'[d].pc \in {pc, "joining"} /\ Like(d, run)
<1> DEFINE r == Unless(run, pc)
<1>1. /\ r \in RunType /\ r.session = job[d].session /\ r.pc \in {pc, "joining"}
      /\ r.kind = run.kind /\ r.sink = run.sink /\ r.index = run.index /\ r.result = run.result
  BY DEF Unless, RunType, Pcs
<1>2. JobKept(d) /\ job'[d] = r
  <2> HIDE DEF r
  <2> QED
    BY <1>1, JobSet DEF r
<1> QED
  BY <1>1, <1>2 DEF Like

LEMMA RunGoesOn ==
  ASSUME TypeInv, NEW d \in Downloads, NEW pc \in Pcs, GoesUnlessAborted(d, pc)
  PROVE  JobKept(d) /\ job'[d].pc \in {pc, "joining"} /\ Like(d, job[d])
<1>1. job[d] \in RunType /\ job' = [job EXCEPT ![d] = Unless(job[d], pc)]
  BY DEF GoesUnlessAborted, TypeInv
<1> QED
  BY <1>1, RunChecked

LEMMA RunFinishes ==
  ASSUME TypeInv, NEW d \in Downloads, NEW result \in Results, Finishes(d, result)
  PROVE  /\ JobKept(d) /\ job'[d].pc = "done" /\ job'[d].result = result
         /\ ~job'[d].sink /\ job'[d].kind = job[d].kind /\ job'[d].index = 1
<1> DEFINE r == Ended(d, "done", result)
<1>1. job[d] \in RunType /\ 1 \in 1..Names
  BY OutputAssumption DEF TypeInv, RunType
<1>2. /\ r \in RunType /\ r.session = job[d].session /\ r.pc = "done" /\ r.result = result
      /\ ~r.sink /\ r.kind = job[d].kind /\ r.index = 1
  BY <1>1 DEF Ended, NoRun, RunType, Pcs
<1>3. JobKept(d) /\ job'[d] = r
  <2>1. job' = [job EXCEPT ![d] = r]
    BY DEF Finishes
  <2> HIDE DEF r
  <2> QED
    BY <1>2, <2>1, JobSet
<1> QED
  BY <1>2, <1>3

\* The files of the other runs stay, and so do the folders and the shelf.
DiskKept(d) ==
  /\ disk' \in DiskType /\ disk'.folder = disk.folder
  /\ disk'.shelf = disk.shelf /\ disk'.foreign = disk.foreign
  /\ \A e \in Downloads \ {d} : disk'.record[e] = disk.record[e] /\ disk'.temporary[e] = disk.temporary[e]

LEMMA DiskSame ==
  ASSUME TypeInv, NEW d \in Downloads, disk' = disk
  PROVE  DiskKept(d)
BY DEF TypeInv, DiskKept

LEMMA RecordSet ==
  ASSUME TypeInv, NEW d \in Downloads, NEW x \in {None, "torn", "whole"},
         disk' = [disk EXCEPT !.record[d] = x]
  PROVE  DiskKept(d) /\ disk'.record[d] = x /\ disk'.temporary[d] = disk.temporary[d]
BY DEF TypeInv, DiskType, DiskKept

LEMMA TemporarySet ==
  ASSUME TypeInv, NEW d \in Downloads, NEW x \in {Absent} \cup 0..Length,
         disk' = [disk EXCEPT !.temporary[d] = x]
  PROVE  DiskKept(d) /\ disk'.temporary[d] = x /\ disk'.record[d] = disk.record[d]
BY DEF TypeInv, DiskType, DiskKept

LEMMA CallCounted ==
  ASSUME TypeInv, NEW d \in Downloads, Works \/ Fault
  PROVE  faults' \in 0..MaxFaults
BY OutputAssumption DEF TypeInv, Works, Fault

\* Every stage: where the run is now, and what its files and its file at the destination are.
LEMMA StageStep ==
  ASSUME OutputInv, NEW d \in Downloads, job[d].pc \notin Settled, session' = session,
         faults' \in 0..MaxFaults, JobKept(d), DiskKept(d), job'[d].pc # "idle",
         job'[d].pc \notin Settled \cup {"waiting"} => session[job[d].session].at = "ready",
         disk'.record[d] # None => session[job[d].session].at = "ready",
         FilesOK(d)', ShelfMoves(d)
  PROVE  OutputInv'
<1>1. JobMoves(d)
  BY DEF JobMoves, JobKept, DiskKept
<1>2. TypeInv' /\ JobsOK' /\ SessionsOK'
  BY <1>1, JobStep DEF OutputInv
<1>3. ShelfOK'
  BY ShelfKept DEF JobKept, DiskKept, OutputInv
<1> QED
  BY <1>2, <1>3 DEF OutputInv

-----------------------------------------------------------------------------
(* The stages of a run *)

\* What is known of a run that is at a stage.
LEMMA AtStage ==
  ASSUME OutputInv, NEW d \in Downloads, NEW pc \in Pcs \ Settled, At(d, pc)
  PROVE  /\ job[d].pc = pc /\ job[d] \in RunType /\ TypeInv
         /\ disk.record[d] \in {None, "torn", "whole"}
         /\ disk.temporary[d] \in {Absent} \cup 0..Length
         /\ pc # "waiting" => session[job[d].session].at = "ready"
         /\ FilesOK(d) /\ ShelfOf(d)
BY DEF OutputInv, TypeInv, DiskType, JobsOK, PlaceOK, ShelfOK, At

LEMMA OpenRecordKeeps ==
  ASSUME OutputInv, NEW d \in Downloads, OpenRecord(d)
  PROVE  OutputInv'
<1>1. /\ job[d].pc = "recording" /\ job[d] \in RunType /\ TypeInv /\ FilesOK(d) /\ ShelfOf(d)
      /\ disk.record[d] \in {None, "torn", "whole"} /\ disk.temporary[d] \in {Absent} \cup 0..Length
      /\ session[job[d].session].at = "ready"
  BY AtStage DEF OpenRecord, At, Pcs, Settled
<1>2. CASE Goes(d, "describing") /\ disk' = [disk EXCEPT !.record[d] = "torn"] /\ Works
  <2>1. /\ JobKept(d)
        /\ job'[d].pc = "describing" /\ Like(d, job[d])
    BY <1>1, <1>2, RunGoes DEF Pcs, Results
  <2>2. DiskKept(d) /\ disk'.record[d] = "torn" /\ disk'.temporary[d] = disk.temporary[d]
    BY <1>1, <1>2, RecordSet
  <2>3. faults' \in 0..MaxFaults /\ session' = session
    BY <1>1, <1>2, CallCounted DEF TypeInv, OpenRecord
  <2>4. FilesOK(d)'
    BY <1>1, <1>2, <2>1, <2>2, OutputAssumption DEF FilesOK, Writing, Like, Absent, None, Results
  <2>5. ShelfMoves(d)
    BY <1>1, <1>2, <2>1, <2>2 DEF FilesOK, ShelfMoves, ShelfOf, Published, Late, Like, DiskKept, None, Results
  <2> QED
    BY <1>1, <1>2, <2>1, <2>2, <2>3, <2>4, <2>5, StageStep DEF FilesOK, Settled
<1>3. CASE Throws(d, "other") /\ disk' = disk /\ Fault
  <2>1. /\ JobKept(d)
        /\ job'[d].pc = "joining" /\ Like(d, job[d])
    BY <1>1, <1>3, RunThrows DEF Pcs, Results
  <2>2. DiskKept(d) /\ disk'.record[d] = disk.record[d] /\ disk'.temporary[d] = disk.temporary[d]
    BY <1>1, <1>3, DiskSame
  <2>3. faults' \in 0..MaxFaults /\ session' = session
    BY <1>1, <1>3, CallCounted DEF TypeInv, OpenRecord
  <2>4. FilesOK(d)'
    BY <1>1, <1>3, <2>1, <2>2, OutputAssumption DEF FilesOK, Writing, Like, Absent, None, Results
  <2>5. ShelfMoves(d)
    BY <1>1, <1>3, <2>1, <2>2 DEF FilesOK, ShelfMoves, ShelfOf, Published, Late, Like, DiskKept, None, Results
  <2> QED
    BY <1>1, <1>3, <2>1, <2>2, <2>3, <2>4, <2>5, StageStep DEF FilesOK, Settled
<1> QED
  BY <1>1, <1>2, <1>3 DEF OpenRecord, Calls, RunType

LEMMA WriteRecordKeeps ==
  ASSUME OutputInv, NEW d \in Downloads, WriteRecord(d)
  PROVE  OutputInv'
<1>1. /\ job[d].pc = "describing" /\ job[d] \in RunType /\ TypeInv /\ FilesOK(d) /\ ShelfOf(d)
      /\ disk.record[d] \in {None, "torn", "whole"} /\ disk.temporary[d] \in {Absent} \cup 0..Length
      /\ session[job[d].session].at = "ready"
  BY AtStage DEF WriteRecord, At, Pcs, Settled
<1>2. CASE Goes(d, "creating") /\ disk' = [disk EXCEPT !.record[d] = "whole"] /\ Works
  <2>1. /\ JobKept(d)
        /\ job'[d].pc = "creating" /\ Like(d, job[d])
    BY <1>1, <1>2, RunGoes DEF Pcs, Results
  <2>2. DiskKept(d) /\ disk'.record[d] = "whole" /\ disk'.temporary[d] = disk.temporary[d]
    BY <1>1, <1>2, RecordSet
  <2>3. faults' \in 0..MaxFaults /\ session' = session
    BY <1>1, <1>2, CallCounted DEF TypeInv, WriteRecord
  <2>4. FilesOK(d)'
    BY <1>1, <1>2, <2>1, <2>2, OutputAssumption DEF FilesOK, Writing, Like, Absent, None, Results
  <2>5. ShelfMoves(d)
    BY <1>1, <1>2, <2>1, <2>2 DEF FilesOK, ShelfMoves, ShelfOf, Published, Late, Like, DiskKept, None, Results
  <2> QED
    BY <1>1, <1>2, <2>1, <2>2, <2>3, <2>4, <2>5, StageStep DEF FilesOK, Settled
<1>3. CASE Goes(d, "undoing") /\ disk' = disk /\ Fault
  <2>1. /\ JobKept(d)
        /\ job'[d].pc = "undoing" /\ Like(d, job[d])
    BY <1>1, <1>3, RunGoes DEF Pcs, Results
  <2>2. DiskKept(d) /\ disk'.record[d] = disk.record[d] /\ disk'.temporary[d] = disk.temporary[d]
    BY <1>1, <1>3, DiskSame
  <2>3. faults' \in 0..MaxFaults /\ session' = session
    BY <1>1, <1>3, CallCounted DEF TypeInv, WriteRecord
  <2>4. FilesOK(d)'
    BY <1>1, <1>3, <2>1, <2>2, OutputAssumption DEF FilesOK, Writing, Like, Absent, None, Results
  <2>5. ShelfMoves(d)
    BY <1>1, <1>3, <2>1, <2>2 DEF FilesOK, ShelfMoves, ShelfOf, Published, Late, Like, DiskKept, None, Results
  <2> QED
    BY <1>1, <1>3, <2>1, <2>2, <2>3, <2>4, <2>5, StageStep DEF FilesOK, Settled
<1> QED
  BY <1>1, <1>2, <1>3 DEF WriteRecord, Calls, RunType

LEMMA UndoRecordKeeps ==
  ASSUME OutputInv, NEW d \in Downloads, UndoRecord(d)
  PROVE  OutputInv'
<1>1. /\ job[d].pc = "undoing" /\ job[d] \in RunType /\ TypeInv /\ FilesOK(d) /\ ShelfOf(d)
      /\ disk.record[d] \in {None, "torn", "whole"} /\ disk.temporary[d] \in {Absent} \cup 0..Length
      /\ session[job[d].session].at = "ready"
  BY AtStage DEF UndoRecord, At, Pcs, Settled
<1>2. CASE Throws(d, "other") /\ disk' = [disk EXCEPT !.record[d] = None] /\ Works
  <2>1. /\ JobKept(d)
        /\ job'[d].pc = "joining" /\ Like(d, job[d])
    BY <1>1, <1>2, RunThrows DEF Pcs, Results
  <2>2. DiskKept(d) /\ disk'.record[d] = None /\ disk'.temporary[d] = disk.temporary[d]
    BY <1>1, <1>2, RecordSet
  <2>3. faults' \in 0..MaxFaults /\ session' = session
    BY <1>1, <1>2, CallCounted DEF TypeInv, UndoRecord
  <2>4. FilesOK(d)'
    BY <1>1, <1>2, <2>1, <2>2, OutputAssumption DEF FilesOK, Writing, Like, Absent, None, Results
  <2>5. ShelfMoves(d)
    BY <1>1, <1>2, <2>1, <2>2 DEF FilesOK, ShelfMoves, ShelfOf, Published, Late, Like, DiskKept, None, Results
  <2> QED
    BY <1>1, <1>2, <2>1, <2>2, <2>3, <2>4, <2>5, StageStep DEF FilesOK, Settled
<1>3. CASE Throws(d, "other") /\ disk' = disk /\ Fault
  <2>1. /\ JobKept(d)
        /\ job'[d].pc = "joining" /\ Like(d, job[d])
    BY <1>1, <1>3, RunThrows DEF Pcs, Results
  <2>2. DiskKept(d) /\ disk'.record[d] = disk.record[d] /\ disk'.temporary[d] = disk.temporary[d]
    BY <1>1, <1>3, DiskSame
  <2>3. faults' \in 0..MaxFaults /\ session' = session
    BY <1>1, <1>3, CallCounted DEF TypeInv, UndoRecord
  <2>4. FilesOK(d)'
    BY <1>1, <1>3, <2>1, <2>2, OutputAssumption DEF FilesOK, Writing, Like, Absent, None, Results
  <2>5. ShelfMoves(d)
    BY <1>1, <1>3, <2>1, <2>2 DEF FilesOK, ShelfMoves, ShelfOf, Published, Late, Like, DiskKept, None, Results
  <2> QED
    BY <1>1, <1>3, <2>1, <2>2, <2>3, <2>4, <2>5, StageStep DEF FilesOK, Settled
<1> QED
  BY <1>1, <1>2, <1>3 DEF UndoRecord, Calls, RunType

LEMMA NextChunkKeeps ==
  ASSUME OutputInv, NEW d \in Downloads, NextChunk(d)
  PROVE  OutputInv'
<1>1. /\ job[d].pc = "reading" /\ job[d] \in RunType /\ TypeInv /\ FilesOK(d) /\ ShelfOf(d)
      /\ disk.record[d] \in {None, "torn", "whole"} /\ disk.temporary[d] \in {Absent} \cup 0..Length
      /\ session[job[d].session].at = "ready"
  BY AtStage DEF NextChunk, At, Pcs, Settled
<1>2. CASE Throws(d, "other") /\ disk' = disk /\ Works
  <2>1. /\ JobKept(d)
        /\ job'[d].pc = "joining" /\ Like(d, job[d])
    BY <1>1, <1>2, RunThrows DEF Pcs, Results
  <2>2. DiskKept(d) /\ disk'.record[d] = disk.record[d] /\ disk'.temporary[d] = disk.temporary[d]
    BY <1>1, <1>2, DiskSame
  <2>3. faults' \in 0..MaxFaults /\ session' = session
    BY <1>1, <1>2, CallCounted DEF TypeInv, NextChunk
  <2>4. FilesOK(d)'
    BY <1>1, <1>2, <2>1, <2>2, OutputAssumption DEF FilesOK, Writing, Like, Absent, None, Results
  <2>5. ShelfMoves(d)
    BY <1>1, <1>2, <2>1, <2>2 DEF FilesOK, ShelfMoves, ShelfOf, Published, Late, Like, DiskKept, None, Results
  <2> QED
    BY <1>1, <1>2, <2>1, <2>2, <2>3, <2>4, <2>5, StageStep DEF FilesOK, Settled
<1>3. CASE GoesUnlessAborted(d, "writing") /\ disk' = disk /\ Works /\ disk.temporary[d] < Length
  <2>1. /\ JobKept(d)
        /\ job'[d].pc \in {"writing", "joining"} /\ Like(d, job[d])
    BY <1>1, <1>3, RunGoesOn DEF Pcs, Results
  <2>2. DiskKept(d) /\ disk'.record[d] = disk.record[d] /\ disk'.temporary[d] = disk.temporary[d]
    BY <1>1, <1>3, DiskSame
  <2>3. faults' \in 0..MaxFaults /\ session' = session
    BY <1>1, <1>3, CallCounted DEF TypeInv, NextChunk
  <2>4. FilesOK(d)'
    BY <1>1, <1>3, <2>1, <2>2, OutputAssumption DEF FilesOK, Writing, Like, Absent, None, Results
  <2>5. ShelfMoves(d)
    BY <1>1, <1>3, <2>1, <2>2 DEF FilesOK, ShelfMoves, ShelfOf, Published, Late, Like, DiskKept, None, Results
  <2> QED
    BY <1>1, <1>3, <2>1, <2>2, <2>3, <2>4, <2>5, StageStep DEF FilesOK, Settled
<1>4. CASE GoesUnlessAborted(d, "returning") /\ disk' = disk /\ Works /\ disk.temporary[d] = Length
  <2>1. /\ JobKept(d)
        /\ job'[d].pc \in {"returning", "joining"} /\ Like(d, job[d])
    BY <1>1, <1>4, RunGoesOn DEF Pcs, Results
  <2>2. DiskKept(d) /\ disk'.record[d] = disk.record[d] /\ disk'.temporary[d] = disk.temporary[d]
    BY <1>1, <1>4, DiskSame
  <2>3. faults' \in 0..MaxFaults /\ session' = session
    BY <1>1, <1>4, CallCounted DEF TypeInv, NextChunk
  <2>4. FilesOK(d)'
    BY <1>1, <1>4, <2>1, <2>2, OutputAssumption DEF FilesOK, Writing, Like, Absent, None, Results
  <2>5. ShelfMoves(d)
    BY <1>1, <1>4, <2>1, <2>2 DEF FilesOK, ShelfMoves, ShelfOf, Published, Late, Like, DiskKept, None, Results
  <2> QED
    BY <1>1, <1>4, <2>1, <2>2, <2>3, <2>4, <2>5, StageStep DEF FilesOK, Settled
<1> QED
  BY <1>1, <1>2, <1>3, <1>4 DEF NextChunk, Works

LEMMA WriteChunkKeeps ==
  ASSUME OutputInv, NEW d \in Downloads, WriteChunk(d)
  PROVE  OutputInv'
<1>1. /\ job[d].pc = "writing" /\ job[d] \in RunType /\ TypeInv /\ FilesOK(d) /\ ShelfOf(d)
      /\ disk.record[d] \in {None, "torn", "whole"} /\ disk.temporary[d] \in {Absent} \cup 0..Length
      /\ session[job[d].session].at = "ready"
  BY AtStage DEF WriteChunk, At, Pcs, Settled
<1>2. CASE GoesUnlessAborted(d, "reading") /\ disk' = [disk EXCEPT !.temporary[d] = disk.temporary[d] + 1] /\ Works
  <2>1. /\ JobKept(d)
        /\ job'[d].pc \in {"reading", "joining"} /\ Like(d, job[d])
    BY <1>1, <1>2, RunGoesOn DEF Pcs, Results
  <2>2. DiskKept(d) /\ disk'.temporary[d] = disk.temporary[d] + 1 /\ disk'.record[d] = disk.record[d]
    BY <1>1, <1>2, TemporarySet, OutputAssumption DEF Writing, Absent, FilesOK
  <2>3. faults' \in 0..MaxFaults /\ session' = session
    BY <1>1, <1>2, CallCounted DEF TypeInv, WriteChunk
  <2>4. FilesOK(d)'
    BY <1>1, <1>2, <2>1, <2>2, OutputAssumption DEF FilesOK, Writing, Like, Absent, None, Results
  <2>5. ShelfMoves(d)
    BY <1>1, <1>2, <2>1, <2>2 DEF FilesOK, ShelfMoves, ShelfOf, Published, Late, Like, DiskKept, None, Results
  <2> QED
    BY <1>1, <1>2, <2>1, <2>2, <2>3, <2>4, <2>5, StageStep DEF FilesOK, Settled
<1>3. CASE Throws(d, "other") /\ disk' = disk /\ Fault
  <2>1. /\ JobKept(d)
        /\ job'[d].pc = "joining" /\ Like(d, job[d])
    BY <1>1, <1>3, RunThrows DEF Pcs, Results
  <2>2. DiskKept(d) /\ disk'.record[d] = disk.record[d] /\ disk'.temporary[d] = disk.temporary[d]
    BY <1>1, <1>3, DiskSame
  <2>3. faults' \in 0..MaxFaults /\ session' = session
    BY <1>1, <1>3, CallCounted DEF TypeInv, WriteChunk
  <2>4. FilesOK(d)'
    BY <1>1, <1>3, <2>1, <2>2, OutputAssumption DEF FilesOK, Writing, Like, Absent, None, Results
  <2>5. ShelfMoves(d)
    BY <1>1, <1>3, <2>1, <2>2 DEF FilesOK, ShelfMoves, ShelfOf, Published, Late, Like, DiskKept, None, Results
  <2> QED
    BY <1>1, <1>3, <2>1, <2>2, <2>3, <2>4, <2>5, StageStep DEF FilesOK, Settled
<1> QED
  BY <1>1, <1>2, <1>3 DEF WriteChunk, Calls, RunType

LEMMA DropTemporaryKeeps ==
  ASSUME OutputInv, NEW d \in Downloads, DropTemporary(d)
  PROVE  OutputInv'
<1>1. /\ job[d].pc = "dropping" /\ job[d] \in RunType /\ TypeInv /\ FilesOK(d) /\ ShelfOf(d)
      /\ disk.record[d] \in {None, "torn", "whole"} /\ disk.temporary[d] \in {Absent} \cup 0..Length
      /\ session[job[d].session].at = "ready"
  BY AtStage DEF DropTemporary, At, Pcs, Settled
<1>2. CASE Goes(d, "forgetting") /\ disk' = [disk EXCEPT !.temporary[d] = Absent] /\ Works
  <2>1. /\ JobKept(d)
        /\ job'[d].pc = "forgetting" /\ Like(d, job[d])
    BY <1>1, <1>2, RunGoes DEF Pcs, Results
  <2>2. DiskKept(d) /\ disk'.temporary[d] = Absent /\ disk'.record[d] = disk.record[d]
    BY <1>1, <1>2, TemporarySet, OutputAssumption DEF Writing, Absent
  <2>3. faults' \in 0..MaxFaults /\ session' = session
    BY <1>1, <1>2, CallCounted DEF TypeInv, DropTemporary
  <2>4. FilesOK(d)'
    BY <1>1, <1>2, <2>1, <2>2, OutputAssumption DEF FilesOK, Writing, Like, Absent, None, Results
  <2>5. ShelfMoves(d)
    BY <1>1, <1>2, <2>1, <2>2 DEF FilesOK, ShelfMoves, ShelfOf, Published, Late, Like, DiskKept, None, Results
  <2> QED
    BY <1>1, <1>2, <2>1, <2>2, <2>3, <2>4, <2>5, StageStep DEF FilesOK, Settled
<1>3. CASE Finishes(d, "saved") /\ disk' = disk /\ Fault
  <2>1. /\ JobKept(d)
        /\ job'[d].pc = "done" /\ job'[d].result = "saved" /\ ~job'[d].sink
        /\ job'[d].kind = job[d].kind /\ job'[d].index = 1
    BY <1>1, <1>3, RunFinishes DEF Pcs, Results
  <2>2. DiskKept(d) /\ disk'.record[d] = disk.record[d] /\ disk'.temporary[d] = disk.temporary[d]
    BY <1>1, <1>3, DiskSame
  <2>3. faults' \in 0..MaxFaults /\ session' = session
    BY <1>1, <1>3, CallCounted DEF TypeInv, DropTemporary
  <2>4. FilesOK(d)'
    BY <1>1, <1>3, <2>1, <2>2, OutputAssumption DEF FilesOK, Writing, Like, Absent, None, Results
  <2>5. ShelfMoves(d)
    BY <1>1, <1>3, <2>1, <2>2 DEF FilesOK, ShelfMoves, ShelfOf, Published, Late, Like, DiskKept, None, Results
  <2> QED
    BY <1>1, <1>3, <2>1, <2>2, <2>3, <2>4, <2>5, StageStep DEF FilesOK, Settled
<1> QED
  BY <1>1, <1>2, <1>3 DEF DropTemporary, Calls, RunType

LEMMA ForgetRecordKeeps ==
  ASSUME OutputInv, NEW d \in Downloads, ForgetRecord(d)
  PROVE  OutputInv'
<1>1. /\ job[d].pc = "forgetting" /\ job[d] \in RunType /\ TypeInv /\ FilesOK(d) /\ ShelfOf(d)
      /\ disk.record[d] \in {None, "torn", "whole"} /\ disk.temporary[d] \in {Absent} \cup 0..Length
      /\ session[job[d].session].at = "ready"
  BY AtStage DEF ForgetRecord, At, Pcs, Settled
<1>2. CASE Finishes(d, "saved") /\ disk' = [disk EXCEPT !.record[d] = None] /\ Works
  <2>1. /\ JobKept(d)
        /\ job'[d].pc = "done" /\ job'[d].result = "saved" /\ ~job'[d].sink
        /\ job'[d].kind = job[d].kind /\ job'[d].index = 1
    BY <1>1, <1>2, RunFinishes DEF Pcs, Results
  <2>2. DiskKept(d) /\ disk'.record[d] = None /\ disk'.temporary[d] = disk.temporary[d]
    BY <1>1, <1>2, RecordSet
  <2>3. faults' \in 0..MaxFaults /\ session' = session
    BY <1>1, <1>2, CallCounted DEF TypeInv, ForgetRecord
  <2>4. FilesOK(d)'
    BY <1>1, <1>2, <2>1, <2>2, OutputAssumption DEF FilesOK, Writing, Like, Absent, None, Results
  <2>5. ShelfMoves(d)
    BY <1>1, <1>2, <2>1, <2>2 DEF FilesOK, ShelfMoves, ShelfOf, Published, Late, Like, DiskKept, None, Results
  <2> QED
    BY <1>1, <1>2, <2>1, <2>2, <2>3, <2>4, <2>5, StageStep DEF FilesOK, Settled
<1>3. CASE Finishes(d, "saved") /\ disk' = disk /\ Fault
  <2>1. /\ JobKept(d)
        /\ job'[d].pc = "done" /\ job'[d].result = "saved" /\ ~job'[d].sink
        /\ job'[d].kind = job[d].kind /\ job'[d].index = 1
    BY <1>1, <1>3, RunFinishes DEF Pcs, Results
  <2>2. DiskKept(d) /\ disk'.record[d] = disk.record[d] /\ disk'.temporary[d] = disk.temporary[d]
    BY <1>1, <1>3, DiskSame
  <2>3. faults' \in 0..MaxFaults /\ session' = session
    BY <1>1, <1>3, CallCounted DEF TypeInv, ForgetRecord
  <2>4. FilesOK(d)'
    BY <1>1, <1>3, <2>1, <2>2, OutputAssumption DEF FilesOK, Writing, Like, Absent, None, Results
  <2>5. ShelfMoves(d)
    BY <1>1, <1>3, <2>1, <2>2 DEF FilesOK, ShelfMoves, ShelfOf, Published, Late, Like, DiskKept, None, Results
  <2> QED
    BY <1>1, <1>3, <2>1, <2>2, <2>3, <2>4, <2>5, StageStep DEF FilesOK, Settled
<1> QED
  BY <1>1, <1>2, <1>3 DEF ForgetRecord, Calls, RunType

-----------------------------------------------------------------------------
\* The catch clause reports anything but "saved".
LEMMA RunEnds ==
  ASSUME TypeInv, NEW d \in Downloads, NEW unclean \in BOOLEAN, Ends(d, unclean)
  PROVE  /\ JobKept(d) /\ job'[d].pc = "done" /\ job'[d].result \in Results \ {"saved"}
         /\ ~job'[d].sink /\ job'[d].kind = job[d].kind /\ job'[d].index = 1
<1>1. PICK result \in Results \ {"saved"} : Finishes(d, result)
  BY DEF Ends, Results
<1> QED
  BY <1>1, RunFinishes

LEMMA JournalAwaitedKeeps ==
  ASSUME OutputInv, NEW d \in Downloads, JournalAwaited(d)
  PROVE  OutputInv'
<1>1. /\ job[d].pc = "waiting" /\ job[d] \in RunType /\ TypeInv /\ FilesOK(d) /\ ShelfOf(d)
      /\ disk.record[d] \in {None, "torn", "whole"} /\ disk.temporary[d] \in {Absent} \cup 0..Length
  BY AtStage DEF JournalAwaited, At, Pcs, Settled
<1>2. CASE Finishes(d, "failed") /\ disk' = disk /\ Works /\ session[job[d].session].at = "broken"
  <2>1. /\ JobKept(d)
        /\ job'[d].pc = "done" /\ job'[d].result = "failed" /\ ~job'[d].sink
        /\ job'[d].kind = job[d].kind /\ job'[d].index = 1
    BY <1>1, <1>2, RunFinishes DEF Pcs, Results
  <2>2. DiskKept(d) /\ disk'.record[d] = disk.record[d] /\ disk'.temporary[d] = disk.temporary[d]
    BY <1>1, <1>2, DiskSame
  <2>3. faults' \in 0..MaxFaults /\ session' = session
    BY <1>1, <1>2, CallCounted DEF TypeInv, JournalAwaited
  <2>4. FilesOK(d)'
    BY <1>1, <1>2, <2>1, <2>2, OutputAssumption DEF FilesOK, Writing, Like, Absent, None, Results
  <2>5. ShelfMoves(d)
    BY <1>1, <1>2, <2>1, <2>2 DEF FilesOK, ShelfMoves, ShelfOf, Published, Late, Like, DiskKept, None, Results
  <2> QED
    BY <1>1, <1>2, <2>1, <2>2, <2>3, <2>4, <2>5, StageStep DEF FilesOK, Settled
<1>3. CASE GoesUnlessAborted(d, "opening") /\ disk' = disk /\ Works /\ session[job[d].session].at = "ready"
  <2>1. /\ JobKept(d)
        /\ job'[d].pc \in {"opening", "joining"} /\ Like(d, job[d])
    BY <1>1, <1>3, RunGoesOn DEF Pcs, Results
  <2>2. DiskKept(d) /\ disk'.record[d] = disk.record[d] /\ disk'.temporary[d] = disk.temporary[d]
    BY <1>1, <1>3, DiskSame
  <2>3. faults' \in 0..MaxFaults /\ session' = session
    BY <1>1, <1>3, CallCounted DEF TypeInv, JournalAwaited
  <2>4. FilesOK(d)'
    BY <1>1, <1>3, <2>1, <2>2, OutputAssumption DEF FilesOK, Writing, Like, Absent, None, Results
  <2>5. ShelfMoves(d)
    BY <1>1, <1>3, <2>1, <2>2 DEF FilesOK, ShelfMoves, ShelfOf, Published, Late, Like, DiskKept, None, Results
  <2> QED
    BY <1>1, <1>3, <2>1, <2>2, <2>3, <2>4, <2>5, StageStep DEF FilesOK, Settled
<1> QED
  BY <1>1, <1>2, <1>3 DEF JournalAwaited, Works

LEMMA ReaderOpensKeeps ==
  ASSUME OutputInv, NEW d \in Downloads, ReaderOpens(d)
  PROVE  OutputInv'
<1>1. /\ job[d].pc = "opening" /\ job[d] \in RunType /\ TypeInv /\ FilesOK(d) /\ ShelfOf(d)
      /\ disk.record[d] \in {None, "torn", "whole"} /\ disk.temporary[d] \in {Absent} \cup 0..Length
      /\ session[job[d].session].at = "ready"
  BY AtStage DEF ReaderOpens, At, Pcs, Settled
<1>2. CASE Throws(d, "other") /\ disk' = disk /\ Works
  <2>1. /\ JobKept(d)
        /\ job'[d].pc = "joining" /\ Like(d, job[d])
    BY <1>1, <1>2, RunThrows DEF Pcs, Results
  <2>2. DiskKept(d) /\ disk'.record[d] = disk.record[d] /\ disk'.temporary[d] = disk.temporary[d]
    BY <1>1, <1>2, DiskSame
  <2>3. faults' \in 0..MaxFaults /\ session' = session
    BY <1>1, <1>2, CallCounted DEF TypeInv, ReaderOpens
  <2>4. FilesOK(d)'
    BY <1>1, <1>2, <2>1, <2>2, OutputAssumption DEF FilesOK, Writing, Like, Absent, None, Results
  <2>5. ShelfMoves(d)
    BY <1>1, <1>2, <2>1, <2>2 DEF FilesOK, ShelfMoves, ShelfOf, Published, Late, Like, DiskKept, None, Results
  <2> QED
    BY <1>1, <1>2, <2>1, <2>2, <2>3, <2>4, <2>5, StageStep DEF FilesOK, Settled
<1>3. CASE job' = [job EXCEPT ![d] = Unless([@ EXCEPT !.reader = TRUE], "recording")] /\ disk' = disk /\ Works
  <2>1. /\ JobKept(d)
        /\ job'[d].pc \in {"recording", "joining"} /\ Like(d, job[d])
    <3> DEFINE run == [job[d] EXCEPT !.reader = TRUE]
    <3>1. run \in RunType /\ run.session = job[d].session
      BY <1>1 DEF RunType, Pcs
    <3>2. /\ run.index = job[d].index /\ run.result = job[d].result
          /\ run.sink = job[d].sink /\ run.kind = job[d].kind
      BY <1>1 DEF RunType
    <3>3. job' = [job EXCEPT ![d] = Unless(run, "recording")]
      BY <1>1, <1>3 DEF TypeInv
    <3> HIDE DEF run
    <3> QED
      BY ZenonT(60), <1>1, <3>1, <3>2, <3>3, RunChecked DEF Pcs, Like
  <2>2. DiskKept(d) /\ disk'.record[d] = disk.record[d] /\ disk'.temporary[d] = disk.temporary[d]
    BY <1>1, <1>3, DiskSame
  <2>3. faults' \in 0..MaxFaults /\ session' = session
    BY <1>1, <1>3, CallCounted DEF TypeInv, ReaderOpens
  <2>4. FilesOK(d)'
    BY <1>1, <1>3, <2>1, <2>2, OutputAssumption DEF FilesOK, Writing, Like, Absent, None, Results
  <2>5. ShelfMoves(d)
    BY <1>1, <1>3, <2>1, <2>2 DEF FilesOK, ShelfMoves, ShelfOf, Published, Late, Like, DiskKept, None, Results
  <2> QED
    BY <1>1, <1>3, <2>1, <2>2, <2>3, <2>4, <2>5, StageStep DEF FilesOK, Settled
<1>4. CASE job' = [job EXCEPT ![d].reader = TRUE, ![d].pc = "joining", ![d].why = "other"] /\ disk' = disk /\ Works
  <2>1. /\ JobKept(d)
        /\ job'[d].pc = "joining" /\ Like(d, job[d])
    <3> DEFINE run == [job[d] EXCEPT !.reader = TRUE, !.pc = "joining", !.why = "other"]
    <3>1. run \in RunType /\ run.session = job[d].session
      BY <1>1 DEF RunType, Pcs
    <3>2. /\ run.index = job[d].index /\ run.result = job[d].result
          /\ run.sink = job[d].sink /\ run.kind = job[d].kind /\ run.pc = "joining"
      BY <1>1 DEF RunType
    <3>3. job' = [job EXCEPT ![d] = run]
      BY <1>1, <1>4 DEF TypeInv
    <3> HIDE DEF run
    <3> QED
      BY <1>1, <3>1, <3>2, <3>3, JobSet DEF Pcs, Like
  <2>2. DiskKept(d) /\ disk'.record[d] = disk.record[d] /\ disk'.temporary[d] = disk.temporary[d]
    BY <1>1, <1>4, DiskSame
  <2>3. faults' \in 0..MaxFaults /\ session' = session
    BY <1>1, <1>4, CallCounted DEF TypeInv, ReaderOpens
  <2>4. FilesOK(d)'
    BY <1>1, <1>4, <2>1, <2>2, OutputAssumption DEF FilesOK, Writing, Like, Absent, None, Results
  <2>5. ShelfMoves(d)
    BY <1>1, <1>4, <2>1, <2>2 DEF FilesOK, ShelfMoves, ShelfOf, Published, Late, Like, DiskKept, None, Results
  <2> QED
    BY <1>1, <1>4, <2>1, <2>2, <2>3, <2>4, <2>5, StageStep DEF FilesOK, Settled
<1> QED
  BY <1>1, <1>2, <1>3, <1>4 DEF ReaderOpens, Works

LEMMA CreateTemporaryKeeps ==
  ASSUME OutputInv, NEW d \in Downloads, CreateTemporary(d)
  PROVE  OutputInv'
<1>1. /\ job[d].pc = "creating" /\ job[d] \in RunType /\ TypeInv /\ FilesOK(d) /\ ShelfOf(d)
      /\ disk.record[d] \in {None, "torn", "whole"} /\ disk.temporary[d] \in {Absent} \cup 0..Length
      /\ session[job[d].session].at = "ready"
  BY AtStage DEF CreateTemporary, At, Pcs, Settled
<1>2. CASE job' = [job EXCEPT ![d] = Unless([@ EXCEPT !.sink = TRUE], "reading")] /\ disk' = [disk EXCEPT !.temporary[d] = 0] /\ Works
  <2>1. /\ JobKept(d)
        /\ job'[d].pc \in {"reading", "joining"} /\ job'[d].sink /\ job'[d].kind = job[d].kind /\ job'[d].index = job[d].index /\ job'[d].result = job[d].result
    <3> DEFINE run == [job[d] EXCEPT !.sink = TRUE]
    <3>1. run \in RunType /\ run.session = job[d].session
      BY <1>1 DEF RunType, Pcs
    <3>2. /\ run.index = job[d].index /\ run.result = job[d].result
          /\ run.sink = TRUE /\ run.kind = job[d].kind
      BY <1>1 DEF RunType
    <3>3. job' = [job EXCEPT ![d] = Unless(run, "reading")]
      BY <1>1, <1>2 DEF TypeInv
    <3> HIDE DEF run
    <3> QED
      BY ZenonT(60), <1>1, <3>1, <3>2, <3>3, RunChecked DEF Pcs, Like
  <2>2. DiskKept(d) /\ disk'.temporary[d] = 0 /\ disk'.record[d] = disk.record[d]
    BY <1>1, <1>2, TemporarySet, OutputAssumption DEF Writing, Absent
  <2>3. faults' \in 0..MaxFaults /\ session' = session
    BY <1>1, <1>2, CallCounted DEF TypeInv, CreateTemporary
  <2>4. FilesOK(d)'
    BY <1>1, <1>2, <2>1, <2>2, OutputAssumption DEF FilesOK, Writing, Like, Absent, None, Results
  <2>5. ShelfMoves(d)
    BY <1>1, <1>2, <2>1, <2>2 DEF FilesOK, ShelfMoves, ShelfOf, Published, Late, Like, DiskKept, None, Results
  <2> QED
    BY <1>1, <1>2, <2>1, <2>2, <2>3, <2>4, <2>5, StageStep DEF FilesOK, Settled
<1>3. CASE Goes(d, "undoing") /\ disk' = disk /\ Fault
  <2>1. /\ JobKept(d)
        /\ job'[d].pc = "undoing" /\ Like(d, job[d])
    BY <1>1, <1>3, RunGoes DEF Pcs, Results
  <2>2. DiskKept(d) /\ disk'.record[d] = disk.record[d] /\ disk'.temporary[d] = disk.temporary[d]
    BY <1>1, <1>3, DiskSame
  <2>3. faults' \in 0..MaxFaults /\ session' = session
    BY <1>1, <1>3, CallCounted DEF TypeInv, CreateTemporary
  <2>4. FilesOK(d)'
    BY <1>1, <1>3, <2>1, <2>2, OutputAssumption DEF FilesOK, Writing, Like, Absent, None, Results
  <2>5. ShelfMoves(d)
    BY <1>1, <1>3, <2>1, <2>2 DEF FilesOK, ShelfMoves, ShelfOf, Published, Late, Like, DiskKept, None, Results
  <2> QED
    BY <1>1, <1>3, <2>1, <2>2, <2>3, <2>4, <2>5, StageStep DEF FilesOK, Settled
<1> QED
  BY <1>1, <1>2, <1>3 DEF CreateTemporary, Calls, RunType

LEMMA ReturnReaderKeeps ==
  ASSUME OutputInv, NEW d \in Downloads, ReturnReader(d)
  PROVE  OutputInv'
<1>1. /\ job[d].pc = "returning" /\ job[d] \in RunType /\ TypeInv /\ FilesOK(d) /\ ShelfOf(d)
      /\ disk.record[d] \in {None, "torn", "whole"} /\ disk.temporary[d] \in {Absent} \cup 0..Length
      /\ session[job[d].session].at = "ready"
  BY AtStage DEF ReturnReader, At, Pcs, Settled
<1>2. CASE Throws(d, "other") /\ disk' = disk /\ Works
  <2>1. /\ JobKept(d)
        /\ job'[d].pc = "joining" /\ Like(d, job[d])
    BY <1>1, <1>2, RunThrows DEF Pcs, Results
  <2>2. DiskKept(d) /\ disk'.record[d] = disk.record[d] /\ disk'.temporary[d] = disk.temporary[d]
    BY <1>1, <1>2, DiskSame
  <2>3. faults' \in 0..MaxFaults /\ session' = session
    BY <1>1, <1>2, CallCounted DEF TypeInv, ReturnReader
  <2>4. FilesOK(d)'
    BY <1>1, <1>2, <2>1, <2>2, OutputAssumption DEF FilesOK, Writing, Like, Absent, None, Results
  <2>5. ShelfMoves(d)
    BY <1>1, <1>2, <2>1, <2>2 DEF FilesOK, ShelfMoves, ShelfOf, Published, Late, Like, DiskKept, None, Results
  <2> QED
    BY <1>1, <1>2, <2>1, <2>2, <2>3, <2>4, <2>5, StageStep DEF FilesOK, Settled
<1>3. CASE job' = [job EXCEPT ![d] = Unless([@ EXCEPT !.reader = FALSE], "syncing")] /\ disk' = disk /\ Works
  <2>1. /\ JobKept(d)
        /\ job'[d].pc \in {"syncing", "joining"} /\ Like(d, job[d])
    <3> DEFINE run == [job[d] EXCEPT !.reader = FALSE]
    <3>1. run \in RunType /\ run.session = job[d].session
      BY <1>1 DEF RunType, Pcs
    <3>2. /\ run.index = job[d].index /\ run.result = job[d].result
          /\ run.sink = job[d].sink /\ run.kind = job[d].kind
      BY <1>1 DEF RunType
    <3>3. job' = [job EXCEPT ![d] = Unless(run, "syncing")]
      BY <1>1, <1>3 DEF TypeInv
    <3> HIDE DEF run
    <3> QED
      BY ZenonT(60), <1>1, <3>1, <3>2, <3>3, RunChecked DEF Pcs, Like
  <2>2. DiskKept(d) /\ disk'.record[d] = disk.record[d] /\ disk'.temporary[d] = disk.temporary[d]
    BY <1>1, <1>3, DiskSame
  <2>3. faults' \in 0..MaxFaults /\ session' = session
    BY <1>1, <1>3, CallCounted DEF TypeInv, ReturnReader
  <2>4. FilesOK(d)'
    BY <1>1, <1>3, <2>1, <2>2, OutputAssumption DEF FilesOK, Writing, Like, Absent, None, Results
  <2>5. ShelfMoves(d)
    BY <1>1, <1>3, <2>1, <2>2 DEF FilesOK, ShelfMoves, ShelfOf, Published, Late, Like, DiskKept, None, Results
  <2> QED
    BY <1>1, <1>3, <2>1, <2>2, <2>3, <2>4, <2>5, StageStep DEF FilesOK, Settled
<1> QED
  BY <1>1, <1>2, <1>3 DEF ReturnReader, Works

LEMMA SyncTemporaryKeeps ==
  ASSUME OutputInv, NEW d \in Downloads, SyncTemporary(d)
  PROVE  OutputInv'
<1>1. /\ job[d].pc = "syncing" /\ job[d] \in RunType /\ TypeInv /\ FilesOK(d) /\ ShelfOf(d)
      /\ disk.record[d] \in {None, "torn", "whole"} /\ disk.temporary[d] \in {Absent} \cup 0..Length
      /\ session[job[d].session].at = "ready"
  BY AtStage DEF SyncTemporary, At, Pcs, Settled
<1>2. CASE (\E kind \in Kinds : job' = [job EXCEPT ![d].pc = "linking", ![d].kind = kind]) /\ disk' = disk /\ Works
  <2>1. /\ JobKept(d)
        /\ job'[d].pc = "linking" /\ job'[d].sink = job[d].sink /\ job'[d].index = job[d].index /\ job'[d].result = job[d].result
    <3>4. PICK kind \in Kinds : job' = [job EXCEPT ![d].pc = "linking", ![d].kind = kind]
      BY <1>2
    <3> DEFINE run == [job[d] EXCEPT !.pc = "linking", !.kind = kind]
    <3>1. run \in RunType /\ run.session = job[d].session
      BY <1>1 DEF RunType, Pcs
    <3>2. /\ run.index = job[d].index /\ run.result = job[d].result
          /\ run.sink = job[d].sink /\ run.pc = "linking"
      BY <1>1 DEF RunType
    <3>3. job' = [job EXCEPT ![d] = run]
      BY <1>1, <1>2, <3>4 DEF TypeInv
    <3> HIDE DEF run
    <3> QED
      BY <1>1, <3>1, <3>2, <3>3, JobSet DEF Pcs, Like
  <2>2. DiskKept(d) /\ disk'.record[d] = disk.record[d] /\ disk'.temporary[d] = disk.temporary[d]
    BY <1>1, <1>2, DiskSame
  <2>3. faults' \in 0..MaxFaults /\ session' = session
    BY <1>1, <1>2, CallCounted DEF TypeInv, SyncTemporary
  <2>4. FilesOK(d)'
    BY <1>1, <1>2, <2>1, <2>2, OutputAssumption DEF FilesOK, Writing, Like, Absent, None, Results
  <2>5. ShelfMoves(d)
    <3>1. ~Published(d) /\ ~Published(d)' /\ Holds(d) = {} /\ job[d].index = 1
      BY <1>1, <2>1 DEF FilesOK, ShelfOf, Published, Late, None
    <3>2. 1..job'[d].index - 1 = {}
      BY <2>1, <3>1
    <3> QED
      BY <1>1, <2>1, <2>2, <3>1, <3>2 DEF ShelfMoves, DiskKept, Late
  <2> QED
    BY <1>1, <1>2, <2>1, <2>2, <2>3, <2>4, <2>5, StageStep DEF FilesOK, Settled
<1>3. CASE Throws(d, "publish") /\ disk' = disk /\ Fault
  <2>1. /\ JobKept(d)
        /\ job'[d].pc = "joining" /\ Like(d, job[d])
    BY <1>1, <1>3, RunThrows DEF Pcs, Results
  <2>2. DiskKept(d) /\ disk'.record[d] = disk.record[d] /\ disk'.temporary[d] = disk.temporary[d]
    BY <1>1, <1>3, DiskSame
  <2>3. faults' \in 0..MaxFaults /\ session' = session
    BY <1>1, <1>3, CallCounted DEF TypeInv, SyncTemporary
  <2>4. FilesOK(d)'
    BY <1>1, <1>3, <2>1, <2>2, OutputAssumption DEF FilesOK, Writing, Like, Absent, None, Results
  <2>5. ShelfMoves(d)
    BY <1>1, <1>3, <2>1, <2>2 DEF FilesOK, ShelfMoves, ShelfOf, Published, Late, Like, DiskKept, None, Results
  <2> QED
    BY <1>1, <1>3, <2>1, <2>2, <2>3, <2>4, <2>5, StageStep DEF FilesOK, Settled
<1> QED
  BY <1>1, <1>2, <1>3 DEF SyncTemporary, Calls, RunType

LEMMA DiscardTemporaryKeeps ==
  ASSUME OutputInv, NEW d \in Downloads, DiscardTemporary(d)
  PROVE  OutputInv'
<1>1. /\ job[d].pc = "discarding" /\ job[d] \in RunType /\ TypeInv /\ FilesOK(d) /\ ShelfOf(d)
      /\ disk.record[d] \in {None, "torn", "whole"} /\ disk.temporary[d] \in {Absent} \cup 0..Length
      /\ session[job[d].session].at = "ready"
  BY AtStage DEF DiscardTemporary, At, Pcs, Settled
<1>2. CASE Goes(d, "erasing") /\ disk' = [disk EXCEPT !.temporary[d] = Absent] /\ Works
  <2>1. /\ JobKept(d)
        /\ job'[d].pc = "erasing" /\ Like(d, job[d])
    BY <1>1, <1>2, RunGoes DEF Pcs, Results
  <2>2. DiskKept(d) /\ disk'.temporary[d] = Absent /\ disk'.record[d] = disk.record[d]
    BY <1>1, <1>2, TemporarySet, OutputAssumption DEF Writing, Absent
  <2>3. faults' \in 0..MaxFaults /\ session' = session
    BY <1>1, <1>2, CallCounted DEF TypeInv, DiscardTemporary
  <2>4. FilesOK(d)'
    BY <1>1, <1>2, <2>1, <2>2, OutputAssumption DEF FilesOK, Writing, Like, Absent, None, Results
  <2>5. ShelfMoves(d)
    BY <1>1, <1>2, <2>1, <2>2 DEF FilesOK, ShelfMoves, ShelfOf, Published, Late, Like, DiskKept, None, Results
  <2> QED
    BY <1>1, <1>2, <2>1, <2>2, <2>3, <2>4, <2>5, StageStep DEF FilesOK, Settled
<1>3. CASE (\E u \in BOOLEAN : Ends(d, u)) /\ disk' = disk /\ Fault
  <2>1. /\ JobKept(d)
        /\ job'[d].pc = "done" /\ job'[d].result \in Results \ {"saved"} /\ ~job'[d].sink
        /\ job'[d].kind = job[d].kind /\ job'[d].index = 1
    BY <1>1, <1>3, RunEnds DEF Pcs, Results
  <2>2. DiskKept(d) /\ disk'.record[d] = disk.record[d] /\ disk'.temporary[d] = disk.temporary[d]
    BY <1>1, <1>3, DiskSame
  <2>3. faults' \in 0..MaxFaults /\ session' = session
    BY <1>1, <1>3, CallCounted DEF TypeInv, DiscardTemporary
  <2>4. FilesOK(d)'
    BY <1>1, <1>3, <2>1, <2>2, OutputAssumption DEF FilesOK, Writing, Like, Absent, None, Results
  <2>5. ShelfMoves(d)
    BY <1>1, <1>3, <2>1, <2>2 DEF FilesOK, ShelfMoves, ShelfOf, Published, Late, Like, DiskKept, None, Results
  <2> QED
    BY <1>1, <1>3, <2>1, <2>2, <2>3, <2>4, <2>5, StageStep DEF FilesOK, Settled
<1> QED
  BY <1>1, <1>2, <1>3 DEF DiscardTemporary, Calls, RunType

LEMMA DiscardRecordKeeps ==
  ASSUME OutputInv, NEW d \in Downloads, DiscardRecord(d)
  PROVE  OutputInv'
<1>1. /\ job[d].pc = "erasing" /\ job[d] \in RunType /\ TypeInv /\ FilesOK(d) /\ ShelfOf(d)
      /\ disk.record[d] \in {None, "torn", "whole"} /\ disk.temporary[d] \in {Absent} \cup 0..Length
      /\ session[job[d].session].at = "ready"
  BY AtStage DEF DiscardRecord, At, Pcs, Settled
<1>2. CASE (\E u \in BOOLEAN : Ends(d, u)) /\ disk' = [disk EXCEPT !.record[d] = None] /\ Works
  <2>1. /\ JobKept(d)
        /\ job'[d].pc = "done" /\ job'[d].result \in Results \ {"saved"} /\ ~job'[d].sink
        /\ job'[d].kind = job[d].kind /\ job'[d].index = 1
    BY <1>1, <1>2, RunEnds DEF Pcs, Results
  <2>2. DiskKept(d) /\ disk'.record[d] = None /\ disk'.temporary[d] = disk.temporary[d]
    BY <1>1, <1>2, RecordSet
  <2>3. faults' \in 0..MaxFaults /\ session' = session
    BY <1>1, <1>2, CallCounted DEF TypeInv, DiscardRecord
  <2>4. FilesOK(d)'
    BY <1>1, <1>2, <2>1, <2>2, OutputAssumption DEF FilesOK, Writing, Like, Absent, None, Results
  <2>5. ShelfMoves(d)
    BY <1>1, <1>2, <2>1, <2>2 DEF FilesOK, ShelfMoves, ShelfOf, Published, Late, Like, DiskKept, None, Results
  <2> QED
    BY <1>1, <1>2, <2>1, <2>2, <2>3, <2>4, <2>5, StageStep DEF FilesOK, Settled
<1>3. CASE (\E u \in BOOLEAN : Ends(d, u)) /\ disk' = disk /\ Fault
  <2>1. /\ JobKept(d)
        /\ job'[d].pc = "done" /\ job'[d].result \in Results \ {"saved"} /\ ~job'[d].sink
        /\ job'[d].kind = job[d].kind /\ job'[d].index = 1
    BY <1>1, <1>3, RunEnds DEF Pcs, Results
  <2>2. DiskKept(d) /\ disk'.record[d] = disk.record[d] /\ disk'.temporary[d] = disk.temporary[d]
    BY <1>1, <1>3, DiskSame
  <2>3. faults' \in 0..MaxFaults /\ session' = session
    BY <1>1, <1>3, CallCounted DEF TypeInv, DiscardRecord
  <2>4. FilesOK(d)'
    BY <1>1, <1>3, <2>1, <2>2, OutputAssumption DEF FilesOK, Writing, Like, Absent, None, Results
  <2>5. ShelfMoves(d)
    BY <1>1, <1>3, <2>1, <2>2 DEF FilesOK, ShelfMoves, ShelfOf, Published, Late, Like, DiskKept, None, Results
  <2> QED
    BY <1>1, <1>3, <2>1, <2>2, <2>3, <2>4, <2>5, StageStep DEF FilesOK, Settled
<1> QED
  BY <1>1, <1>2, <1>3 DEF DiscardRecord, Calls, RunType

LEMMA JoinReaderKeeps ==
  ASSUME OutputInv, NEW d \in Downloads, JoinReader(d)
  PROVE  OutputInv'
<1>1. /\ job[d].pc = "joining" /\ job[d] \in RunType /\ TypeInv /\ FilesOK(d) /\ ShelfOf(d)
      /\ disk.record[d] \in {None, "torn", "whole"} /\ disk.temporary[d] \in {Absent} \cup 0..Length
      /\ session[job[d].session].at = "ready"
  BY AtStage DEF JoinReader, At, Pcs, Settled
<1>2. CASE (\E u \in BOOLEAN : Ends(d, u)) /\ disk' = disk /\ Works /\ ~job[d].sink
  <2>1. /\ JobKept(d)
        /\ job'[d].pc = "done" /\ job'[d].result \in Results \ {"saved"} /\ ~job'[d].sink
        /\ job'[d].kind = job[d].kind /\ job'[d].index = 1
    BY <1>1, <1>2, RunEnds DEF Pcs, Results
  <2>2. DiskKept(d) /\ disk'.record[d] = disk.record[d] /\ disk'.temporary[d] = disk.temporary[d]
    BY <1>1, <1>2, DiskSame
  <2>3. faults' \in 0..MaxFaults /\ session' = session
    BY <1>1, <1>2, CallCounted DEF TypeInv, JoinReader
  <2>4. FilesOK(d)'
    BY <1>1, <1>2, <2>1, <2>2, OutputAssumption DEF FilesOK, Writing, Like, Absent, None, Results
  <2>5. ShelfMoves(d)
    BY <1>1, <1>2, <2>1, <2>2 DEF FilesOK, ShelfMoves, ShelfOf, Published, Late, Like, DiskKept, None, Results
  <2> QED
    BY <1>1, <1>2, <2>1, <2>2, <2>3, <2>4, <2>5, StageStep DEF FilesOK, Settled
<1>3. CASE (\E u \in BOOLEAN : job' = [job EXCEPT ![d].pc = "discarding", ![d].reader = FALSE, ![d].unclean = u]) /\ disk' = disk /\ Works /\ job[d].sink
  <2>1. /\ JobKept(d)
        /\ job'[d].pc = "discarding" /\ Like(d, job[d])
    <3>4. PICK u \in BOOLEAN : job' = [job EXCEPT ![d].pc = "discarding", ![d].reader = FALSE, ![d].unclean = u]
      BY <1>3
    <3> DEFINE run == [job[d] EXCEPT !.pc = "discarding", !.reader = FALSE, !.unclean = u]
    <3>1. run \in RunType /\ run.session = job[d].session
      BY <1>1 DEF RunType, Pcs
    <3>2. /\ run.index = job[d].index /\ run.result = job[d].result
          /\ run.sink = job[d].sink /\ run.kind = job[d].kind /\ run.pc = "discarding"
      BY <1>1 DEF RunType
    <3>3. job' = [job EXCEPT ![d] = run]
      BY <1>1, <1>3, <3>4 DEF TypeInv
    <3> HIDE DEF run
    <3> QED
      BY <1>1, <3>1, <3>2, <3>3, JobSet DEF Pcs, Like
  <2>2. DiskKept(d) /\ disk'.record[d] = disk.record[d] /\ disk'.temporary[d] = disk.temporary[d]
    BY <1>1, <1>3, DiskSame
  <2>3. faults' \in 0..MaxFaults /\ session' = session
    BY <1>1, <1>3, CallCounted DEF TypeInv, JoinReader
  <2>4. FilesOK(d)'
    BY <1>1, <1>3, <2>1, <2>2, OutputAssumption DEF FilesOK, Writing, Like, Absent, None, Results
  <2>5. ShelfMoves(d)
    BY <1>1, <1>3, <2>1, <2>2 DEF FilesOK, ShelfMoves, ShelfOf, Published, Late, Like, DiskKept, None, Results
  <2> QED
    BY <1>1, <1>3, <2>1, <2>2, <2>3, <2>4, <2>5, StageStep DEF FilesOK, Settled
<1> QED
  BY <1>1, <1>2, <1>3 DEF JoinReader, Works, RunType

-----------------------------------------------------------------------------
(* The commit point *)

LEMMA ShelfGains ==
  ASSUME OutputInv, NEW d \in Downloads, job[d].pc = "linking", JobKept(d), job'[d].pc = "dropping",
         Like(d, job[d]), NEW n \in 1..Names,
         disk'.shelf = [disk.shelf EXCEPT ![n] = [by |-> d, bytes |-> Length]],
         disk'.foreign = disk.foreign,
         disk.shelf[n] = NoFile \/ (n = 1 /\ job[d].kind = "confirmed")
  PROVE  ShelfOK'
<1>1. /\ disk.shelf \in [1..Names -> File] /\ disk.foreign \in SUBSET (1..Names)
      /\ job[d] \in RunType /\ TypeInv /\ ForeignOK /\ \A e \in Downloads : ShelfOf(e) /\ FilesOK(e)
  BY DEF OutputInv, TypeInv, DiskType, ShelfOK, JobsOK
<1>2. /\ disk'.shelf[n].by = d /\ disk'.shelf[n].bytes = Length
      /\ \A m \in (1..Names) \ {n} : disk'.shelf[m] = disk.shelf[m]
  <2> DEFINE file == [by |-> d, bytes |-> Length]
  <2>1. file.by = d /\ file.bytes = Length
    OBVIOUS
  <2>2. disk.shelf \in [1..Names -> File] /\ disk'.shelf = [disk.shelf EXCEPT ![n] = file]
    BY <1>1
  <2> HIDE DEF file
  <2>3. /\ disk'.shelf[n] = file
        /\ \A m \in (1..Names) \ {n} : disk'.shelf[m] = disk.shelf[m]
    BY <2>2
  <2> QED
    BY <2>1, <2>3
<1>3. /\ d # None /\ d # Foreign /\ None # Foreign /\ disk'.shelf[n] # NoFile
      /\ \A e \in Downloads : e # None /\ e # Foreign
  BY <1>2, OutsiderAssumption DEF None, Foreign, NoFile
<1>4. Holds(d)' = {n} /\ \A e \in Downloads \ {d} : Holds(e)' = Holds(e) \ {n}
  <2>1. Holds(d) = {}
    BY <1>1 DEF ShelfOf, Published, FilesOK, None
  <2> QED
    BY <1>2, <2>1 DEF Holds
\* Whatever was at the name, its owner's user has confirmed that it goes.
<1>5. ASSUME NEW x, x # d, disk.shelf[n].by = x, x # None PROVE n = 1 /\ Replaced(x)'
  <2>1. disk.shelf[n] # NoFile
    BY <1>5 DEF NoFile
  <2>2. n = 1 /\ job[d].kind = "confirmed"
    BY <2>1
  <2> QED
    BY <1>2, <1>5, <2>2 DEF Replaced, Like
<1>6. ASSUME NEW x, x # d, Replaced(x) PROVE Replaced(x)'
  <2>1. PICK e \in Downloads \ {x} : job[e].kind = "confirmed" /\ disk.shelf[1].by = e
    BY <1>6 DEF Replaced
  <2>2. e # d
    <3>1. Holds(d) = {}
      BY <1>1 DEF ShelfOf, Published, FilesOK, None
    <3>2. 1 \in 1..Names
      BY OutputAssumption
    <3> QED
      BY <2>1, <3>1, <3>2 DEF Holds
  <2>3. CASE n = 1
    <3>1. disk.shelf[n] # NoFile
      BY <1>3, <2>1, <2>3 DEF NoFile
    <3> QED
      BY <1>2, <1>6, <2>3, <3>1 DEF Replaced, Like
  <2>4. CASE n # 1
    <3>1. 1 \in 1..Names
      BY OutputAssumption
    <3> QED
      BY <1>2, <2>1, <2>2, <2>4, <3>1 DEF Replaced, JobKept
  <2> QED
    BY <2>3, <2>4
<1>7. ASSUME NEW e \in Downloads PROVE ShelfOf(e)'
  <2>1. CASE e = d
    <3>1. Published(d)' /\ job'[d].pc # "linking" /\ job'[d].pc \in Late
      BY DEF Published, Late
    <3> QED
      BY <1>2, <1>4, <2>1, <3>1 DEF ShelfOf
  <2>2. CASE e # d
    <3>1. job'[e] = job[e] /\ ShelfOf(e) /\ (Published(e)' <=> Published(e))
      BY <1>1, <2>2 DEF JobKept, Published
    <3>2. Holds(e)' = Holds(e) \ {n} /\ (Replaced(e) => Replaced(e)')
      BY <1>4, <1>6, <2>2
    <3>3. Holds(e) # {} => Holds(e)' # {} \/ Replaced(e)'
      BY <1>3, <1>5, <2>2, <3>2 DEF Holds
    <3>4. \A m \in Holds(e)' : m \in Holds(e) /\ disk'.shelf[m] = disk.shelf[m]
      BY <1>2, <3>2 DEF Holds
    <3>5. job'[e].pc = "linking" => \A m \in 1..job'[e].index - 1 : disk'.shelf[m] # NoFile
      <4>1. job[e].index \in 1..Names
        BY <1>1 DEF TypeInv, RunType
      <4>2. 1..job[e].index - 1 \subseteq 1..Names
        BY <4>1, OutputAssumption
      <4> QED
        BY <1>2, <1>3, <3>1, <4>2 DEF ShelfOf
    <3> QED
      BY <3>1, <3>2, <3>3, <3>4, <3>5 DEF ShelfOf
  <2> QED
    BY <2>1, <2>2
<1>8. ForeignOK'
  <2>1. \A m \in 1..Names : disk'.shelf[m].by = None => disk'.shelf[m] = NoFile
    BY <1>1, <1>2, <1>3 DEF ForeignOK
  <2>2. \A m \in 1..Names : disk'.shelf[m].by = Foreign => m \in disk'.foreign
    BY <1>1, <1>2, <1>3 DEF ForeignOK
  <2>3. ASSUME NEW m \in disk'.foreign
        PROVE  disk'.shelf[m].by = Foreign \/ (m = 1 /\ Replaced(Foreign)')
    <3>1. m \in 1..Names /\ (disk.shelf[m].by = Foreign \/ (m = 1 /\ Replaced(Foreign)))
      BY <1>1 DEF ForeignOK
    <3> QED
      BY <1>2, <1>3, <1>5, <1>6, <3>1
  <2> QED
    BY <1>1, <2>1, <2>2, <2>3 DEF ForeignOK
<1> QED
  BY <1>7, <1>8 DEF ShelfOK

\* A file at every name up to the present one is another run's or another program's.
LEMMA FreeName ==
  ASSUME OutputInv, NEW d \in Downloads, job[d].pc = "linking",
         \A n \in 1..job[d].index : disk.shelf[n] # NoFile
  PROVE  job[d].index + 1 \in 1..Names
<1> DEFINE i == job[d].index
           ours == {n \in 1..i : disk.shelf[n].by \in Downloads \ {d}}
           theirs == {n \in 1..i : disk.shelf[n].by = Foreign}
<1>1. /\ disk.shelf \in [1..Names -> File] /\ disk.foreign \in SUBSET (1..Names)
      /\ i \in 1..Names /\ ForeignOK /\ \A e \in Downloads : ShelfOf(e) /\ FilesOK(e)
      /\ i = job[d].index /\ \A n \in 1..i : disk.shelf[n] # NoFile
  BY DEF OutputInv, TypeInv, DiskType, ShelfOK, JobsOK, RunType
<1> HIDE DEF i
<1>2. i \in Nat /\ Names \in Nat /\ MaxForeign \in Nat /\ 1..i \subseteq 1..Names
  BY <1>1, OutputAssumption
<1>3. \A n \in 1..i : disk.shelf[n].by \in (Downloads \ {d}) \cup {Foreign}
  <2>1. Holds(d) = {}
    BY <1>1 DEF ShelfOf, Published, FilesOK, None
  <2> QED
    BY <1>1, <1>2, <2>1 DEF ForeignOK, File, Holds
<1>4. IsFiniteSet(Downloads \ {d}) /\ Cardinality(Downloads \ {d}) = Cardinality(Downloads) - 1
  BY OutputAssumption, FS_RemoveElement
<1>5. IsFiniteSet(ours) /\ Cardinality(ours) <= Cardinality(Downloads \ {d})
  <2> DEFINE f == [n \in ours |-> disk.shelf[n].by]
  <2>1. f \in [ours -> Downloads \ {d}]
    OBVIOUS
  <2>2. ASSUME NEW m \in ours, NEW n \in ours, f[m] = f[n] PROVE m = n
    <3>1. m \in Holds(f[m]) /\ n \in Holds(f[m]) /\ f[m] \in Downloads
      BY <1>2, <2>2 DEF Holds
    <3> HIDE DEF f
    <3> QED
      BY <1>1, <3>1 DEF ShelfOf
  <2>3. f \in Injection(ours, Downloads \ {d})
    <3> HIDE DEF f, ours
    <3> QED
      BY <2>1, <2>2 DEF Injection, IsInjective
  <2> HIDE DEF f, ours
  <2> QED
    BY <1>4, <2>3, FS_Injection
<1>6. IsFiniteSet(theirs) /\ Cardinality(theirs) <= MaxForeign
  <2>1. theirs \subseteq disk.foreign
    BY <1>1, <1>2 DEF ForeignOK
  <2>2. IsFiniteSet(1..Names) /\ IsFiniteSet(disk.foreign)
    <3>1. IsFiniteSet(1..Names)
      BY <1>2, FS_Interval
    <3> QED
      BY <1>1, <3>1, FS_Subset
  <2>3. IsFiniteSet(theirs) /\ Cardinality(theirs) <= Cardinality(disk.foreign)
    <3> HIDE DEF theirs
    <3> QED
      BY <2>1, <2>2, FS_Subset
  <2>4. Cardinality(disk.foreign) \in Nat /\ Cardinality(theirs) \in Nat
    BY <2>2, <2>3, FS_CardinalityType
  <2> HIDE DEF theirs
  <2> QED
    BY <1>1, <1>2, <2>3, <2>4 DEF ForeignOK
<1>7. i <= Cardinality(ours) + Cardinality(theirs)
  <2>1. ours \cup theirs = 1..i
    BY <1>3
  <2>2. Cardinality(1..i) = i
    BY <1>1, <1>2, FS_Interval
  <2> HIDE DEF ours, theirs
  <2>3. /\ Cardinality(ours \cup theirs)
             = Cardinality(ours) + Cardinality(theirs) - Cardinality(ours \cap theirs)
        /\ IsFiniteSet(ours \cap theirs)
    BY <1>5, <1>6, FS_Union, FS_Intersection
  <2>4. /\ Cardinality(ours) \in Nat /\ Cardinality(theirs) \in Nat
        /\ Cardinality(ours \cap theirs) \in Nat
    <3>1. IsFiniteSet(ours) /\ IsFiniteSet(theirs) /\ IsFiniteSet(ours \cap theirs)
      BY <1>5, <1>6, <2>3
    <3> QED
      BY <3>1, FS_CardinalityType
  <2>5. Cardinality(ours \cup theirs) = i
    BY <2>1, <2>2, Zenon
  <2> QED
    BY <1>2, <2>3, <2>4, <2>5
<1>8. Cardinality(ours) \in Nat /\ Cardinality(theirs) \in Nat /\ Cardinality(Downloads) \in Nat
  BY <1>5, <1>6, OutputAssumption, FS_CardinalityType
<1> HIDE DEF ours, theirs
<1> QED
  BY SMTT(40), <1>1, <1>2, <1>4, <1>5, <1>6, <1>7, <1>8, OutputAssumption

-----------------------------------------------------------------------------
LEMMA LinkThrows ==
  ASSUME OutputInv, NEW d \in Downloads, At(d, "linking"), Throws(d, "publish"),
         disk' = disk, session' = session, Works \/ Fault
  PROVE  OutputInv'
<1>1. /\ job[d].pc = "linking" /\ job[d] \in RunType /\ TypeInv /\ FilesOK(d) /\ ShelfOf(d)
      /\ disk.record[d] \in {None, "torn", "whole"} /\ disk.temporary[d] \in {Absent} \cup 0..Length
      /\ session[job[d].session].at = "ready"
  BY AtStage DEF At, Pcs, Settled
<1>2. JobKept(d) /\ job'[d].pc = "joining" /\ Like(d, job[d])
  BY <1>1, RunThrows
<1>3. DiskKept(d) /\ disk'.record[d] = disk.record[d] /\ disk'.temporary[d] = disk.temporary[d]
  BY <1>1, DiskSame
<1>4. faults' \in 0..MaxFaults
  BY <1>1, CallCounted
<1>5. FilesOK(d)'
  BY <1>1, <1>2, <1>3, OutputAssumption DEF FilesOK, Writing, Like, Absent, None
<1>6. ShelfMoves(d)
  BY <1>1, <1>2, <1>3 DEF FilesOK, ShelfMoves, ShelfOf, Published, Late, Like, DiskKept, None
<1> QED
  BY <1>1, <1>2, <1>3, <1>4, <1>5, <1>6, StageStep DEF Settled

\* The file is at its destination: the run goes on to what only tidies up.
LEMMA Commits ==
  ASSUME OutputInv, NEW d \in Downloads, At(d, "linking"), Goes(d, "dropping"), session' = session,
         Works, NEW n \in 1..Names, disk.shelf[n] = NoFile \/ (n = 1 /\ job[d].kind = "confirmed"),
         NEW t \in {Absent, Length},
         disk' = [disk EXCEPT !.shelf[n] = [by |-> d, bytes |-> disk.temporary[d]], !.temporary[d] = t]
  PROVE  OutputInv'
<1>1. /\ job[d].pc = "linking" /\ job[d] \in RunType /\ TypeInv /\ FilesOK(d)
      /\ session[job[d].session].at = "ready" /\ disk \in DiskType /\ Length \in Nat
  BY AtStage, OutputAssumption DEF Pcs, Settled, TypeInv
<1>2. JobKept(d) /\ job'[d].pc = "dropping" /\ Like(d, job[d])
  BY <1>1, RunGoes DEF Pcs
<1>3. disk.temporary[d] = Length /\ disk.record[d] = "whole" /\ job[d].result = None /\ job[d].sink
  BY <1>1 DEF FilesOK, Writing, Absent, None
<1>4. /\ disk' \in DiskType /\ disk'.folder = disk.folder /\ disk'.record = disk.record
      /\ disk'.foreign = disk.foreign /\ disk'.temporary = [disk.temporary EXCEPT ![d] = t]
      /\ disk'.shelf = [disk.shelf EXCEPT ![n] = [by |-> d, bytes |-> Length]]
  <2> DEFINE file == [by |-> d, bytes |-> Length]
  <2>1. file \in File
    BY <1>1 DEF File
  <2> DEFINE shelf == [disk.shelf EXCEPT ![n] = file]
             temporary == [disk.temporary EXCEPT ![d] = t]
  <2>2. disk' = [disk EXCEPT !.shelf = shelf, !.temporary = temporary]
    BY <1>1, <1>3 DEF DiskType
  <2>3. shelf \in [1..Names -> File] /\ temporary \in [Downloads -> {Absent} \cup 0..Length]
    BY <1>1, <2>1 DEF DiskType
  <2>4. shelf = [disk.shelf EXCEPT ![n] = [by |-> d, bytes |-> Length]]
    OBVIOUS
  <2>5. temporary = [disk.temporary EXCEPT ![d] = t]
    OBVIOUS
  <2> HIDE DEF shelf, temporary
  <2>6. /\ disk'.folder = disk.folder /\ disk'.record = disk.record /\ disk'.foreign = disk.foreign
        /\ disk'.temporary = temporary /\ disk'.shelf = shelf /\ disk' \in DiskType
    BY <1>1, <2>2, <2>3 DEF DiskType
  <2> QED
    BY <2>4, <2>5, <2>6
<1>5. /\ disk'.temporary[d] = t /\ disk'.record[d] = "whole"
      /\ \A e \in Downloads \ {d} : disk'.record[e] = disk.record[e] /\ disk'.temporary[e] = disk.temporary[e]
  BY <1>1, <1>3, <1>4 DEF DiskType
<1>6. FilesOK(d)'
  BY <1>2, <1>3, <1>5 DEF FilesOK, Like, Writing, None
<1>7. faults' \in 0..MaxFaults
  BY <1>1, CallCounted
<1>8. TypeInv' /\ JobsOK' /\ SessionsOK'
  <2>1. JobMoves(d)
    BY <1>1, <1>2, <1>4, <1>5, <1>6, <1>7 DEF JobMoves, JobKept, Settled
  <2> QED
    BY <1>1, <2>1, JobStep DEF OutputInv, Settled
<1>9. ShelfOK'
  BY <1>1, <1>2, <1>4, ShelfGains
<1> QED
  BY <1>8, <1>9 DEF OutputInv

LEMMA RenameTemporaryKeeps ==
  ASSUME OutputInv, NEW d \in Downloads, RenameTemporary(d)
  PROVE  OutputInv'
<1>1. /\ job[d].pc = "linking" /\ job[d] \in RunType /\ TypeInv /\ FilesOK(d) /\ ShelfOf(d)
      /\ session[job[d].session].at = "ready"
  BY AtStage DEF RenameTemporary, At, Pcs, Settled
<1>2. CASE Works /\ Goes(d, "dropping")
           /\ disk' = [disk EXCEPT !.shelf[1] = [by |-> d, bytes |-> disk.temporary[d]], !.temporary[d] = Absent]
  <2>1. 1 \in 1..Names
    BY <1>1, OutputAssumption DEF RunType
  <2> QED
    BY <1>2, <2>1, Commits DEF RenameTemporary
<1>3. CASE Fault /\ Throws(d, "publish") /\ disk' = disk
  BY <1>1, <1>3, LinkThrows DEF RenameTemporary
<1> QED
  BY <1>2, <1>3 DEF RenameTemporary, Calls

LEMMA LinkTemporaryKeeps ==
  ASSUME OutputInv, NEW d \in Downloads, LinkTemporary(d)
  PROVE  OutputInv'
<1> DEFINE n == job[d].index
<1>1. /\ job[d].pc = "linking" /\ job[d] \in RunType /\ TypeInv /\ FilesOK(d) /\ ShelfOf(d)
      /\ session[job[d].session].at = "ready" /\ n \in 1..Names
  BY AtStage DEF LinkTemporary, At, Pcs, Settled, RunType
<1>2. CASE disk.shelf[n] = NoFile /\ Works /\ Goes(d, "dropping")
           /\ disk' = [disk EXCEPT !.shelf[n] = [by |-> d, bytes |-> disk.temporary[d]]]
  <2>1. disk.temporary[d] = Length
    BY <1>1 DEF FilesOK
  <2>2. disk' = [disk EXCEPT !.shelf[n] = [by |-> d, bytes |-> disk.temporary[d]], !.temporary[d] = Length]
    BY <1>1, <1>2, <2>1 DEF TypeInv, DiskType
  <2> HIDE DEF n
  <2> QED
    BY <1>1, <1>2, <2>2, Commits DEF LinkTemporary
<1>3. CASE Throws(d, "publish") /\ disk' = disk /\ (Works \/ Fault)
  BY <1>1, <1>3, LinkThrows DEF LinkTemporary
<1>4. CASE disk.shelf[n] # NoFile /\ job' = [job EXCEPT ![d].index = n + 1] /\ disk' = disk /\ Works
  <2>1. \A m \in 1..n : disk.shelf[m] # NoFile
    <3>1. \A m \in 1..n : m = n \/ m \in 1..n - 1
      BY <1>1
    <3> QED
      BY <1>1, <1>4, <3>1 DEF ShelfOf
  <2>2. n + 1 \in 1..Names
    BY <1>1, <2>1, FreeName
  <2>3. /\ JobKept(d) /\ job'[d].pc = "linking" /\ job'[d].kind = job[d].kind
        /\ job'[d].sink = job[d].sink /\ job'[d].result = job[d].result /\ job'[d].index = n + 1
    <3> DEFINE run == [job[d] EXCEPT !.index = n + 1]
    <3>1. run \in RunType /\ run.session = job[d].session
      BY <1>1, <2>2 DEF RunType
    <3>2. /\ run.pc = "linking" /\ run.kind = job[d].kind /\ run.sink = job[d].sink
          /\ run.result = job[d].result /\ run.index = n + 1
      BY <1>1 DEF RunType
    <3>3. job' = [job EXCEPT ![d] = run]
      BY <1>4 DEF TypeInv
    <3> HIDE DEF run, n
    <3> QED
      BY <1>1, <3>1, <3>2, <3>3, JobSet
  <2>4. DiskKept(d) /\ disk'.record[d] = disk.record[d] /\ disk'.temporary[d] = disk.temporary[d]
    BY <1>1, <1>4, DiskSame
  <2>5. faults' \in 0..MaxFaults /\ session' = session
    BY <1>1, <1>4, CallCounted DEF LinkTemporary
  <2>6. FilesOK(d)'
    BY <1>1, <2>3, <2>4 DEF FilesOK, Writing, None
  <2>7. ShelfMoves(d)
    <3>1. ~Published(d) /\ ~Published(d)' /\ Holds(d) = {}
      BY <1>1, <2>3 DEF FilesOK, ShelfOf, Published, None
    <3>2. 1..job'[d].index - 1 = 1..n
      BY <1>1, <2>3
    <3> QED
      BY <1>1, <2>1, <2>3, <2>4, <3>1, <3>2 DEF ShelfMoves, DiskKept, Late
  <2> QED
    BY <1>1, <2>3, <2>4, <2>5, <2>6, <2>7, StageStep DEF Settled
<1> QED
  BY <1>2, <1>3, <1>4 DEF LinkTemporary, Calls, Works

-----------------------------------------------------------------------------
LEMMA StageKeeps ==
  ASSUME OutputInv, NEW d \in Downloads, RunStep(d) \/ ReaderStep(d)
  PROVE  OutputInv'
BY JournalAwaitedKeeps, OpenRecordKeeps, WriteRecordKeeps, CreateTemporaryKeeps, UndoRecordKeeps,
   WriteChunkKeeps, ReturnReaderKeeps, SyncTemporaryKeeps, RenameTemporaryKeeps, LinkTemporaryKeeps,
   DropTemporaryKeeps, ForgetRecordKeeps, JoinReaderKeeps, DiscardTemporaryKeeps, DiscardRecordKeeps,
   ReaderOpensKeeps, NextChunkKeeps
DEF RunStep, ReaderStep

LEMMA CancelKeeps ==
  ASSUME OutputInv, NEW d \in Downloads, Cancel(d)
  PROVE  OutputInv'
<1>1. /\ job[d].pc \notin Settled /\ job[d] \in RunType /\ TypeInv /\ PlaceOK(d) /\ FilesOK(d) /\ ShelfOf(d)
      /\ disk' = disk /\ session' = session /\ faults' \in 0..MaxFaults
  BY DEF Cancel, OutputInv, TypeInv, JobsOK, ShelfOK
<1>2. JobKept(d) /\ job'[d].pc = job[d].pc /\ Like(d, job[d])
  <2> DEFINE run == [job[d] EXCEPT !.aborted = TRUE]
  <2>1. run \in RunType /\ run.session = job[d].session
    BY <1>1 DEF RunType
  <2>2. /\ run.pc = job[d].pc /\ run.kind = job[d].kind /\ run.sink = job[d].sink
        /\ run.result = job[d].result /\ run.index = job[d].index
    BY <1>1 DEF RunType
  <2>3. job' = [job EXCEPT ![d] = run]
    BY DEF Cancel
  <2> HIDE DEF run
  <2> QED
    BY <1>1, <2>1, <2>2, <2>3, JobSet DEF Like
<1>3. DiskKept(d)
  BY <1>1, DiskSame
<1>4. FilesOK(d)'
  BY <1>1, <1>2 DEF FilesOK, Like
<1>5. ShelfMoves(d)
  BY <1>1, <1>2 DEF ShelfMoves, ShelfOf, Published, Like
<1>6. /\ job[d].pc # "waiting" => session[job[d].session].at = "ready"
      /\ job[d].pc = "waiting" => disk.record[d] = None
  BY <1>1 DEF PlaceOK, FilesOK
<1> QED
  BY <1>1, <1>2, <1>3, <1>4, <1>5, <1>6, StageStep DEF Settled

LEMMA RunKeeps ==
  ASSUME OutputInv, NEW d \in Downloads, NEW s \in Sessions, Run(d, s)
  PROVE  OutputInv'
<1> DEFINE run == [job[d] EXCEPT !.pc = "waiting", !.session = s]
<1>1. /\ job[d].pc = "idle" /\ job[d] \in RunType /\ TypeInv /\ PlaceOK(d) /\ FilesOK(d) /\ ShelfOf(d)
      /\ disk' = disk /\ session' = session /\ faults' = faults /\ s \in 0..MaxSessions
      /\ session[s].worker /\ ~session[s].closed
  BY OutputAssumption DEF Run, OutputInv, TypeInv, JobsOK, ShelfOK, Sessions
<1>2. /\ run \in RunType /\ run.pc = "waiting" /\ run.session = s /\ run.kind = job[d].kind
      /\ run.sink = job[d].sink /\ run.result = job[d].result /\ run.index = job[d].index
  BY <1>1 DEF RunType, Pcs
<1>3. job' = [job EXCEPT ![d] = run]
  BY <1>1 DEF Run, TypeInv
<1> HIDE DEF run
<1>4. job' \in [Downloads -> RunType] /\ job'[d] = run /\ \A e \in Downloads \ {d} : job'[e] = job[e]
  BY <1>1, <1>2, <1>3 DEF TypeInv
<1>5. TypeInv'
  BY <1>1, <1>4 DEF TypeInv
<1>6. job[d].session = 0 /\ disk.record[d] = None
  BY <1>1 DEF PlaceOK, FilesOK
<1>7. JobsOK'
  <2> SUFFICES ASSUME NEW e \in Downloads PROVE PlaceOK(e)' /\ FilesOK(e)'
    BY DEF JobsOK
  <2>1. PlaceOK(e) /\ FilesOK(e)
    BY DEF OutputInv, JobsOK
  <2>2. CASE e # d
    BY <1>1, <1>4, <2>1, <2>2 DEF PlaceOK, FilesOK
  <2>3. CASE e = d
    <3>1. PlaceOK(d)'
      BY <1>1, <1>2, <1>4, <1>6, OutputAssumption DEF PlaceOK, Settled, Sessions
    <3>2. FilesOK(d)'
      BY <1>1, <1>2, <1>4, <1>6 DEF FilesOK, Writing
    <3> QED
      BY <2>3, <3>1, <3>2
  <2> QED
    BY <2>2, <2>3
<1>8. \A t \in Sessions : /\ Records(t)' = Records(t)
                          /\ t # s => JobsOf(t)' = JobsOf(t)
  <2>1. \A t \in Sessions : t # 0
    BY OutputAssumption DEF Sessions
  <2> QED
    BY <1>1, <1>2, <1>4, <1>6, <2>1 DEF Records, JobsOf
<1>9. SessionsOK'
  <2>1. Quiet
    BY <1>1, <1>8 DEF Quiet, Alive
  <2> SUFFICES ASSUME NEW t \in Sessions PROVE LifeOK(t)' /\ SweepOK(t)'
    BY DEF SessionsOK
  <2>2. ASSUME session[t].at \in {"leaving", "left"}
        PROVE  Records(t)' = {} /\ \A e \in JobsOf(t)' : job'[e].pc \in Settled
    <3>1. session[t].closed /\ Records(t) = {} /\ \A e \in JobsOf(t) : job[e].pc \in Settled
      BY <2>2 DEF OutputInv, SessionsOK, LifeOK
    <3>2. t # s
      BY <1>1, <3>1
    <3>3. d \notin JobsOf(t)'
      BY <1>2, <1>4, <3>2 DEF JobsOf
    <3> QED
      BY <1>4, <1>8, <3>1, <3>2, <3>3 DEF JobsOf
  <2> QED
    BY <1>1, <2>1, <2>2, SessionKept DEF OutputInv
<1>10. ShelfOK'
  <2>1. ShelfMoves(d)
    BY <1>1, <1>2, <1>4 DEF ShelfMoves, ShelfOf, Published, FilesOK, Late
  <2> QED
    BY <1>1, <1>4, <2>1, ShelfKept DEF OutputInv
<1> QED
  BY <1>5, <1>7, <1>9, <1>10 DEF OutputInv

LEMMA FileAppearsKeeps ==
  ASSUME OutputInv, NEW n \in 1..Names, FileAppears(n)
  PROVE  OutputInv'
<1>1. /\ job' = job /\ session' = session /\ faults' = faults /\ disk \in DiskType
      /\ disk.shelf[n] = NoFile /\ Cardinality(disk.foreign) < MaxForeign
      /\ disk' = [disk EXCEPT !.shelf[n].by = Foreign, !.foreign = @ \cup {n}]
      /\ ForeignOK /\ TypeInv /\ JobsOK /\ SessionsOK
  BY DEF FileAppears, OutputInv, TypeInv, ShelfOK
<1>2. disk' \in DiskType /\ disk'.record = disk.record /\ disk'.temporary = disk.temporary
      /\ disk'.folder = disk.folder /\ disk'.foreign = disk.foreign \cup {n}
      /\ disk'.shelf[n].by = Foreign /\ \A m \in (1..Names) \ {n} : disk'.shelf[m] = disk.shelf[m]
  <2> DEFINE file == [disk.shelf[n] EXCEPT !.by = Foreign]
             shelf == [disk.shelf EXCEPT ![n] = file]
             foreign == disk.foreign \cup {n}
  <2>1. file \in File /\ file.by = Foreign
    BY <1>1 DEF DiskType, File
  <2>2. disk' = [disk EXCEPT !.shelf = shelf, !.foreign = foreign] /\ foreign \in SUBSET (1..Names)
    BY <1>1 DEF DiskType
  <2> HIDE DEF file
  <2>3. /\ shelf \in [1..Names -> File] /\ shelf[n] = file
        /\ \A m \in (1..Names) \ {n} : shelf[m] = disk.shelf[m]
    BY <1>1, <2>1 DEF DiskType
  <2> HIDE DEF shelf, foreign
  <2>4. /\ disk' \in DiskType /\ disk'.record = disk.record /\ disk'.temporary = disk.temporary
        /\ disk'.folder = disk.folder /\ disk'.foreign = foreign /\ disk'.shelf = shelf
    BY <1>1, <2>2, <2>3 DEF DiskType
  <2> QED
    BY <2>1, <2>3, <2>4 DEF foreign
<1>3. TypeInv'
  BY <1>1, <1>2 DEF TypeInv
<1>4. JobsOK' /\ SessionsOK'
  <2>1. \A s \in Sessions : Records(s)' = Records(s) /\ JobsOf(s)' = JobsOf(s)
    BY <1>1, <1>2 DEF Records, JobsOf
  <2>2. JobsOK'
    BY <1>1, <1>2 DEF JobsOK, PlaceOK, FilesOK
  <2>3. Quiet
    BY <1>1, <1>2, <2>1 DEF Quiet, Alive
  <2> SUFFICES ASSUME NEW s \in Sessions PROVE LifeOK(s)' /\ SweepOK(s)'
    BY <2>2 DEF SessionsOK
  <2>4. session[s].at \in {"leaving", "left"} =>
          Records(s)' = {} /\ \A d \in JobsOf(s)' : job'[d].pc \in Settled
    BY <1>1, <2>1 DEF SessionsOK, LifeOK
  <2> QED
    BY <1>1, <1>2, <2>3, <2>4, SessionKept
<1>5. disk.shelf[n].by = None /\ Foreign # None /\ (\A d \in Downloads : d # None /\ d # Foreign)
  BY <1>1, OutsiderAssumption DEF NoFile, None, Foreign
<1>6. \A x : Replaced(x) => Replaced(x)'
  <2> SUFFICES ASSUME NEW x, NEW e \in Downloads \ {x}, job[e].kind = "confirmed", disk.shelf[1].by = e
               PROVE  Replaced(x)'
    BY DEF Replaced
  <2>1. 1 \in 1..Names /\ n # 1
    BY <1>5, OutputAssumption
  <2> QED
    BY <1>1, <1>2, <2>1 DEF Replaced
<1>7. \A d \in Downloads : ShelfOf(d)'
  <2> SUFFICES ASSUME NEW d \in Downloads PROVE ShelfOf(d)'
    OBVIOUS
  <2>1. ShelfOf(d) /\ job[d] \in RunType
    BY DEF OutputInv, ShelfOK, TypeInv
  <2>2. Holds(d)' = Holds(d) /\ \A m \in Holds(d) : m # n
    BY <1>2, <1>5 DEF Holds
  <2>3. \A m \in Holds(d) : disk'.shelf[m] = disk.shelf[m]
    BY <1>2, <2>2 DEF Holds
  <2>4. \A m \in 1..job[d].index - 1 : disk.shelf[m] # NoFile => disk'.shelf[m] # NoFile
    <3>1. 1..job[d].index - 1 \subseteq 1..Names
      BY <2>1, OutputAssumption DEF RunType
    <3>2. disk'.shelf[n] # NoFile
      BY <1>2, <1>5 DEF NoFile
    <3> QED
      BY <1>2, <3>1, <3>2
  <2>5. Published(d)' <=> Published(d)
    BY <1>1 DEF Published
  <2> QED
    BY <1>1, <1>6, <2>1, <2>2, <2>3, <2>4, <2>5 DEF ShelfOf
<1>8. ForeignOK'
  <2>1. Cardinality(disk'.foreign) <= MaxForeign
    <3>1. IsFiniteSet(1..Names)
      BY OutputAssumption, FS_Interval
    <3>2. disk.foreign \in SUBSET (1..Names)
      BY <1>1 DEF DiskType
    <3>3. IsFiniteSet(disk.foreign)
      BY <3>1, <3>2, FS_Subset
    <3>4. Cardinality(disk.foreign) \in Nat
      BY <3>3, FS_CardinalityType
    <3>5. Cardinality(disk.foreign \cup {n}) <= Cardinality(disk.foreign) + 1
      BY <3>3, <3>4, FS_AddElement
    <3>6. Cardinality(disk.foreign \cup {n}) \in Nat
      BY <3>3, FS_AddElement, FS_CardinalityType
    <3> QED
      BY <1>1, <1>2, <3>4, <3>5, <3>6, OutputAssumption
  <2>2. \A m \in disk.foreign : m \in 1..Names /\ m # n
    BY <1>1, <1>5, <1>6, OutputAssumption DEF ForeignOK, DiskType, Replaced
  <2> QED
    BY <1>1, <1>2, <1>5, <1>6, <2>1, <2>2 DEF ForeignOK
<1> QED
  BY <1>3, <1>4, <1>7, <1>8 DEF OutputInv, ShelfOK

-----------------------------------------------------------------------------
(* Steps of a session *)

\* A step of a living utility process that changes its runs' stages at most by ending.
LEMMA SessionChanges ==
  ASSUME OutputInv, NEW s \in Sessions, job' = job, faults' \in 0..MaxFaults,
         NEW r \in SessionType, session' = [session EXCEPT ![s] = r],
         session[s].at # "off", r.at # "off", r.parent = session[s].parent, session[s].worker,
         disk' \in DiskType, disk'.shelf = disk.shelf, disk'.foreign = disk.foreign,
         \A t \in Sessions \ {s} : disk'.folder[t] = disk.folder[t] \/ session[t].at = "gone",
         \A d \in Downloads :
           \/ disk'.record[d] = disk.record[d] /\ disk'.temporary[d] = disk.temporary[d]
           \/ /\ job[d].pc \in Settled /\ disk'.temporary[d] = Absent
              /\ disk'.record[d] \in {disk.record[d], None},
         \A d \in Downloads : disk'.record[d] # None => disk'.folder[job[d].session] = disk.folder[job[d].session],
         \/ r.worker /\ (session[s].at = "ready" => r.at = "ready")
         \/ \A d \in JobsOf(s) : job[d].pc \in Settled,
         LifeOK(s)', SweepOK(s)'
  PROVE  OutputInv'
<1>1. /\ session \in [Sessions -> SessionType] /\ session'[s] = r
      /\ \A t \in Sessions \ {s} : session'[t] = session[t]
      /\ TypeInv /\ JobsOK /\ SessionsOK /\ ShelfOK
  BY DEF OutputInv, TypeInv
<1>2. TypeInv'
  BY <1>1 DEF TypeInv
<1>3. JobsOK'
  <2> SUFFICES ASSUME NEW d \in Downloads PROVE PlaceOK(d)' /\ FilesOK(d)'
    BY DEF JobsOK
  <2>1. PlaceOK(d) /\ FilesOK(d) /\ job[d].session \in 0..MaxSessions
    BY <1>1 DEF JobsOK, TypeInv, RunType
  <2>2. FilesOK(d)'
    <3>1. CASE disk'.record[d] = disk.record[d] /\ disk'.temporary[d] = disk.temporary[d]
      BY <2>1, <3>1 DEF FilesOK
    <3>2. CASE /\ job[d].pc \in Settled /\ disk'.temporary[d] = Absent
               /\ disk'.record[d] \in {disk.record[d], None}
      BY <2>1, <3>2 DEF FilesOK, Settled, Writing
    <3> QED
      BY <3>1, <3>2
  <2>3. PlaceOK(d)'
    <3>1. job[d].pc \notin Settled => job[d].session \in Sessions
      BY <2>1, OutputAssumption DEF PlaceOK, Settled, Sessions
    <3>2. CASE job[d].session = s
      <4>1. d \in JobsOf(s)
        BY <3>2 DEF JobsOf
      <4>2. disk'.record[d] # None => disk.record[d] # None
        OBVIOUS
      <4>3. job[d].pc \notin Settled => r.worker /\ (session[s].at = "ready" => r.at = "ready")
        BY <4>1
      <4> QED
        BY <1>1, <2>1, <3>2, <4>2, <4>3 DEF PlaceOK
    <3>3. CASE job[d].session # s
      <4>1. job[d].pc \notin Settled => session'[job[d].session] = session[job[d].session]
        BY <1>1, <3>1, <3>3
      <4>2. disk'.record[d] # None => disk.record[d] # None
        OBVIOUS
      <4> QED
        BY <2>1, <4>1, <4>2 DEF PlaceOK
    <3> QED
      BY <3>2, <3>3
  <2> QED
    BY <2>2, <2>3
<1>4. \A t \in Sessions : JobsOf(t)' = JobsOf(t) /\ Records(t)' \subseteq Records(t)
  BY DEF JobsOf, Records
<1>5. Quiet
  <2>1. \A t \in Sessions : session[t].at # "off" => session'[t].at # "off"
    BY <1>1
  <2>2. ASSUME NEW t \in Sessions, ~Alive(t) PROVE ~Alive(t)'
    <3>1. t # s
      BY <2>2 DEF Alive
    <3>2. session'[t] = session[t]
      BY <1>1, <3>1
    <3> QED
      BY <2>2, <3>2 DEF Alive
  <2>3. \A d \in Downloads : disk.temporary[d] = Absent => disk'.temporary[d] = Absent
    OBVIOUS
  <2> QED
    BY <1>4, <2>1, <2>2, <2>3 DEF Quiet, JobsOf
<1>6. SessionsOK'
  <2> SUFFICES ASSUME NEW t \in Sessions, t # s PROVE LifeOK(t)' /\ SweepOK(t)'
    BY DEF SessionsOK
  <2>1. session[t].at \in {"leaving", "left"} =>
          Records(t)' = {} /\ \A d \in JobsOf(t)' : job'[d].pc \in Settled
    BY <1>1, <1>4 DEF SessionsOK, LifeOK
  <2>2. session[t].at \in Early \cup {"off", "owner", "records", "ready"} =>
          disk'.folder[t] = disk.folder[t]
    BY DEF Early, Visiting, Sweeping, Dropping
  <2> QED
    BY <1>1, <1>5, <2>1, <2>2, SessionKept
<1>7. ShelfOK'
  BY <1>1, ShelfKept
<1> QED
  BY <1>2, <1>3, <1>6, <1>7 DEF OutputInv

\* A sweep's step, as far as the folders it is to visit go.
LEMMA Kin ==
  ASSUME OutputInv, NEW s \in Sessions, NEW r \in SessionType, session' = [session EXCEPT ![s] = r],
         r.todo \subseteq session[s].todo, r.dead \subseteq session[s].dead
  PROVE  /\ session'[s] = r /\ SweepOK(s)
         /\ \A t \in Sessions \ {s} : session'[t] = session[t] /\ (Alive(t)' <=> Alive(t))
         /\ s \notin r.todo \cup r.dead /\ r.todo \cup r.dead \subseteq Sessions
         /\ \A t \in r.todo \cup r.dead : session'[t].at # "off"
         /\ \A t \in r.dead : ~Alive(t)'
<1>1. /\ session \in [Sessions -> SessionType] /\ SweepOK(s)
      /\ session[s].todo \subseteq Sessions /\ session[s].dead \subseteq Sessions
  BY DEF OutputInv, TypeInv, SessionsOK, SessionType
<1>2. session'[s] = r /\ \A t \in Sessions \ {s} : session'[t] = session[t]
  BY <1>1
<1>3. \A t \in Sessions \ {s} : Alive(t)' <=> Alive(t)
  BY <1>2 DEF Alive
<1>4. /\ s \notin r.todo \cup r.dead
      /\ \A t \in r.todo \cup r.dead : session[t].at # "off"
      /\ \A t \in r.dead : ~Alive(t)
  BY <1>1 DEF SweepOK
<1> QED
  BY <1>1, <1>2, <1>3, <1>4

\* A step of a sweep leaves the session's own folder unmade and its process alive.
LEMMA SweepStep ==
  ASSUME OutputInv, NEW s \in Sessions, job' = job, Works \/ Fault,
         NEW r \in SessionType, session' = [session EXCEPT ![s] = r], session[s].worker,
         session[s].at \in Early, r.at \in Early \cup {"broken"},
         r.parent = session[s].parent, r.worker,
         disk' \in DiskType, disk'.shelf = disk.shelf, disk'.foreign = disk.foreign,
         \A t \in Sessions : disk'.folder[t] = disk.folder[t] \/ session[t].at = "gone",
         \A d \in Downloads :
           \/ disk'.record[d] = disk.record[d] /\ disk'.temporary[d] = disk.temporary[d]
           \/ /\ job[d].pc \in Settled /\ disk'.temporary[d] = Absent
              /\ disk'.record[d] \in {disk.record[d], None},
         \A d \in Downloads : disk'.record[d] # None => disk'.folder[job[d].session] = disk.folder[job[d].session],
         SweepOK(s)'
  PROVE  OutputInv'
<1>1. /\ session'[s] = r /\ LifeOK(s) /\ TypeInv
      /\ \A t \in Sessions \ {s} : session'[t] = session[t]
  BY DEF OutputInv, TypeInv, SessionsOK
<1>2. session[s].at \notin {"off", "gone", "ready"} /\ r.at \notin {"off", "gone", "owner", "records", "ready", "leaving", "left"}
  BY DEF Early, Visiting, Sweeping, Dropping
<1>3. LifeOK(s)'
  <2>1. disk'.folder[s] = {} /\ \A t \in 1..s - 1 : session[t].at # "off"
    BY <1>1, <1>2 DEF LifeOK
  <2>2. \A t \in 1..s - 1 : t \in Sessions \ {s}
    BY OutputAssumption DEF Sessions
  <2> QED
    BY <1>1, <1>2, <2>1, <2>2 DEF LifeOK
<1>4. faults' \in 0..MaxFaults
  BY <1>1, OutputAssumption DEF TypeInv, Works, Fault
<1> QED
  BY <1>2, <1>3, <1>4, SessionChanges

-----------------------------------------------------------------------------
(* The sweep *)

LEMMA SweepLooks ==
  ASSUME OutputInv, NEW s \in Sessions, job' = job, Works \/ Fault, disk' = disk,
         NEW r \in SessionType, session' = [session EXCEPT ![s] = r], session[s].worker,
         session[s].at \in Early, r.at \in Early \cup {"broken"},
         r.parent = session[s].parent, r.worker, SweepOK(s)'
  PROVE  OutputInv'
<1>1. disk \in DiskType
  BY DEF OutputInv, TypeInv
<1> QED
  BY <1>1, SweepStep

LEMMA LookedAt ==
  ASSUME job' = job, disk' = disk, NEW t
  PROVE  JobsOf(t)' = JobsOf(t) /\ Records(t)' = Records(t)
BY DEF JobsOf, Records

LEMMA Swept ==
  ASSUME OutputInv, NEW s \in Sessions, NEW r \in SessionType, session' = [session EXCEPT ![s] = r],
         r.todo \subseteq session[s].todo, r.dead \subseteq session[s].dead, StageOK(r)'
  PROVE  SweepOK(s)'
<1>1. session'[s] = r
  BY DEF OutputInv, TypeInv
<1>2. StageOK(session[s])'
  BY <1>1 DEF StageOK, JobsOf, Records, Alive
<1> QED
  BY ZenonT(60), <1>1, <1>2, Kin DEF SweepOK

LEMMA Skipped ==
  ASSUME OutputInv, NEW s \in Sessions, NEW t, job' = job, Works \/ Fault, disk' = disk,
         session[s].worker, session[s].at \in Early, Skips(s, t)
  PROVE  OutputInv'
<1>1. session \in [Sessions -> SessionType] /\ session[s] \in SessionType
  BY DEF OutputInv, TypeInv
<1>2. PICK r \in SessionType :
        /\ session' = [session EXCEPT ![s] = r] /\ r.todo = session[s].todo \ {t}
        /\ r.dead = session[s].dead /\ r.at = "visiting" /\ r.failed
        /\ r.parent = session[s].parent /\ r.worker = session[s].worker
  <2> DEFINE r == [session[s] EXCEPT !.todo = @ \ {t}, !.failed = TRUE, !.at = "visiting"]
  <2>1. /\ r \in SessionType /\ r.todo = session[s].todo \ {t} /\ r.dead = session[s].dead
        /\ r.at = "visiting" /\ r.failed /\ r.parent = session[s].parent /\ r.worker = session[s].worker
    BY <1>1 DEF SessionType, Stages, Early
  <2>2. session' = [session EXCEPT ![s] = r]
    BY <1>1 DEF Skips
  <2> HIDE DEF r
  <2> QED
    BY <2>1, <2>2
<1>3. StageOK(r)'
  BY <1>2 DEF StageOK, Visiting, Sweeping, Dropping
<1>4. SweepOK(s)'
  BY <1>2, <1>3, Swept
<1> QED
  BY <1>2, <1>4, SweepLooks DEF Early

LEMMA Broken ==
  ASSUME OutputInv, NEW s \in Sessions, job' = job, Works \/ Fault, disk' = disk,
         session[s].worker, session[s].at \in Early, Moves(s, "broken")
  PROVE  OutputInv'
<1>1. session \in [Sessions -> SessionType] /\ session[s] \in SessionType
  BY DEF OutputInv, TypeInv
<1>2. PICK r \in SessionType :
        /\ session' = [session EXCEPT ![s] = r] /\ r.todo = session[s].todo /\ r.dead = session[s].dead
        /\ r.at = "broken" /\ r.parent = session[s].parent /\ r.worker = session[s].worker
  <2> DEFINE r == [session[s] EXCEPT !.at = "broken"]
  <2>1. /\ r \in SessionType /\ r.todo = session[s].todo /\ r.dead = session[s].dead
        /\ r.at = "broken" /\ r.parent = session[s].parent /\ r.worker = session[s].worker
    BY <1>1 DEF SessionType, Stages
  <2>2. session' = [session EXCEPT ![s] = r]
    BY <1>1 DEF Moves
  <2> HIDE DEF r
  <2> QED
    BY <2>1, <2>2
<1>3. StageOK(r)'
  BY <1>2 DEF StageOK, Visiting, Sweeping, Dropping, Early
<1>4. SweepOK(s)'
  BY <1>2, <1>3, Swept
<1> QED
  BY <1>2, <1>4, SweepLooks

LEMMA ListSessionsKeeps ==
  ASSUME OutputInv, NEW s \in Sessions, ListSessions(s)
  PROVE  OutputInv'
<1> DEFINE todo == {t \in Sessions : disk.folder[t] # {}}
           dead == {t \in 1..s - 1 : ~Alive(t)}
           r == [session[s] EXCEPT !.at = "visiting", !.todo = todo, !.dead = dead]
<1>1. /\ session \in [Sessions -> SessionType] /\ session[s] \in SessionType
      /\ session[s].at = "listing" /\ session[s].worker /\ job' = job
      /\ SessionsOK /\ JobsOK
  BY DEF OutputInv, TypeInv, ListSessions, Stands
<1>2. CASE Works /\ disk' = disk /\ session' = [session EXCEPT ![s].at = "visiting", ![s].todo = todo, ![s].dead = dead]
  <2>1. 1..s - 1 \subseteq Sessions \ {s}
    BY OutputAssumption DEF Sessions
  <2>2. /\ r \in SessionType /\ r.todo = todo /\ r.dead = dead
        /\ r.at = "visiting" /\ r.parent = session[s].parent /\ r.worker = session[s].worker
    BY <1>1, <2>1 DEF SessionType, Stages, Early
  <2>3. session' = [session EXCEPT ![s] = r]
    BY <1>1, <1>2
  <2>4. LifeOK(s) /\ \A t \in Sessions : LifeOK(t)
    BY <1>1 DEF SessionsOK
  <2>5. s \notin todo \cup dead /\ \A t \in todo \cup dead : session[t].at # "off"
    BY <1>1, <2>1, <2>4 DEF LifeOK, Early
  <2>6. \A t \in dead \ todo : Records(t) = {}
    <3>1. \A t \in dead \ todo : disk.folder[t] # Full
      BY <2>1 DEF Full
    <3> QED
      BY <1>1, <3>1 DEF JobsOK, PlaceOK, Records
  <2>7. \A t \in dead : ~Alive(t)
    OBVIOUS
  <2>8. todo \subseteq Sessions /\ dead \subseteq Sessions
    BY <2>1
  <2> HIDE DEF r, todo, dead
  <2>9. session'[s] = r /\ \A t \in Sessions \ {s} : session'[t] = session[t]
    BY <1>1, <2>3
  <2>10. \A t \in todo \cup dead : session'[t].at # "off"
    BY <2>5, <2>8, <2>9
  <2>11. \A t \in dead : ~Alive(t)'
    BY <2>5, <2>7, <2>8, <2>9 DEF Alive
  <2>12. \A t \in dead \ todo : Records(t)' = {}
    BY <1>1, <1>2, <2>6 DEF Records
  <2>13. SweepOK(s)'
    BY <2>2, <2>5, <2>9, <2>10, <2>11, <2>12 DEF SweepOK, StageOK, Visiting, Sweeping, Dropping
  <2> QED
    BY <1>1, <1>2, <2>2, <2>3, <2>13, SweepLooks DEF Early
<1>3. CASE Fault /\ disk' = disk /\ Moves(s, "broken")
  BY <1>1, <1>3, Broken DEF Early
<1> QED
  BY <1>2, <1>3 DEF ListSessions, Calls

LEMMA ReadOwnerKeeps ==
  ASSUME OutputInv, NEW s \in Sessions, NEW t \in Sessions, ReadOwner(s, t)
  PROVE  OutputInv'
<1>1. /\ session \in [Sessions -> SessionType] /\ session[s] \in SessionType /\ t \in session[s].todo
      /\ session[s].at = "visiting" /\ session[s].worker /\ job' = job /\ SweepOK(s)
      /\ t \in 0..MaxSessions
  BY OutputAssumption DEF OutputInv, TypeInv, ReadOwner, Stands, SessionsOK, Sessions
<1>2. CASE (Works \/ Fault) /\ disk' = disk /\ Skips(s, t)
  BY <1>1, <1>2, Skipped DEF Early
\* A session that is alive was not dead when the sweep began.
<1>3. CASE Works /\ disk' = disk /\ Alive(t) /\ session' = [session EXCEPT ![s].todo = @ \ {t}]
  <2>1. PICK r \in SessionType :
          /\ session' = [session EXCEPT ![s] = r]
          /\ r.todo = session[s].todo \ {t} /\ r.at = "visiting" /\ r.failed = session[s].failed
          /\ r.dead = session[s].dead /\ r.parent = session[s].parent /\ r.worker = session[s].worker
    <3> DEFINE r == [session[s] EXCEPT !.todo = @ \ {t}]
    <3>1. /\ r \in SessionType
          /\ r.todo = session[s].todo \ {t} /\ r.at = "visiting" /\ r.failed = session[s].failed
          /\ r.dead = session[s].dead /\ r.parent = session[s].parent /\ r.worker = session[s].worker
      BY <1>1 DEF SessionType, Stages, Early, Visiting, Sweeping, Dropping
    <3>2. session' = [session EXCEPT ![s] = r]
      BY <1>1, <1>3
    <3> HIDE DEF r
    <3> QED
      BY <3>1, <3>2
  <2>2. t \notin session[s].dead
    BY <1>1, <1>3 DEF SweepOK
  <2>3. ~r.failed => \A u \in r.dead \ r.todo : Records(u)' = {}
    <3>1. ~r.failed => \A u \in r.dead \ r.todo : Records(u) = {}
      BY <1>1, <2>1, <2>2 DEF SweepOK, StageOK, Early
    <3> QED
      BY <1>1, <1>3, <3>1, LookedAt
  <2>4. StageOK(r)'
    BY <2>1, <2>3 DEF StageOK, Visiting, Sweeping, Dropping
  <2>5. SweepOK(s)'
    BY <2>1, <2>4, Swept
  <2> QED
    BY <1>1, <1>3, <2>1, <2>5, SweepLooks DEF Early
<1>4. CASE Works /\ disk' = disk /\ ~Alive(t) /\ Inspects(s, t)
  <2>1. PICK r \in SessionType :
          /\ session' = [session EXCEPT ![s] = r]
          /\ r.todo = session[s].todo /\ r.at = "inspecting" /\ r.failed = session[s].failed /\ r.visit = t
          /\ r.dead = session[s].dead /\ r.parent = session[s].parent /\ r.worker = session[s].worker
    <3> DEFINE r == [session[s] EXCEPT !.visit = t, !.at = "inspecting"]
    <3>1. /\ r \in SessionType
          /\ r.todo = session[s].todo /\ r.at = "inspecting" /\ r.failed = session[s].failed /\ r.visit = t
          /\ r.dead = session[s].dead /\ r.parent = session[s].parent /\ r.worker = session[s].worker
      BY <1>1 DEF SessionType, Stages, Early, Visiting, Sweeping, Dropping
    <3>2. session' = [session EXCEPT ![s] = r]
      BY <1>1, <1>4 DEF Inspects
    <3> HIDE DEF r
    <3> QED
      BY <3>1, <3>2
  <2>2. t # s /\ ~Alive(t)'
    <3>1. t # s
      BY <1>1 DEF SweepOK
    <3>2. session'[t] = session[t]
      BY <1>1, <2>1, <3>1
    <3> QED
      BY <1>4, <3>1, <3>2 DEF Alive
  <2>3. ~r.failed => \A u \in r.dead \ r.todo : Records(u)' = {}
    <3>1. ~r.failed => \A u \in r.dead \ r.todo : Records(u) = {}
      BY <1>1, <2>1 DEF SweepOK, StageOK, Early
    <3> QED
      BY <1>1, <1>4, <3>1, LookedAt
  <2>4. StageOK(r)'
    BY <1>1, <2>1, <2>2, <2>3 DEF StageOK, Sweeping, Dropping
  <2>5. SweepOK(s)'
    BY <2>1, <2>4, Swept
  <2> QED
    BY <1>1, <1>4, <2>1, <2>5, SweepLooks DEF Early, Visiting
<1> QED
  BY <1>2, <1>3, <1>4 DEF ReadOwner, Calls

-----------------------------------------------------------------------------
\* A folder that is visited belongs to a session whose processes and runs are gone.
LEMMA Visited ==
  ASSUME OutputInv, NEW s \in Sessions, session[s].at \in Visiting, NEW v, v = session[s].visit
  PROVE  /\ session \in [Sessions -> SessionType] /\ session[s] \in SessionType
         /\ v \in Sessions \ {s} /\ v \in session[s].todo /\ session[v].at = "gone" /\ ~Alive(v)
         /\ \A d \in JobsOf(v) : job[d].pc \in Settled
         /\ SweepOK(s) /\ TypeInv /\ JobsOK /\ session[s].at \in Early
<1>1. /\ session \in [Sessions -> SessionType] /\ session[s] \in SessionType
      /\ SweepOK(s) /\ TypeInv /\ JobsOK /\ SessionsOK
  BY DEF OutputInv, TypeInv, SessionsOK
<1>2. v \in Sessions \ {s} /\ v \in session[s].todo /\ session[v].at # "off" /\ ~Alive(v)
  BY <1>1 DEF SweepOK, StageOK, SessionType
<1>3. session[v].at = "gone"
  BY <1>1, <1>2 DEF SessionsOK, LifeOK, Alive
<1>4. \A d \in JobsOf(v) : job[d].pc \in Settled
  BY <1>1, <1>2 DEF JobsOK, PlaceOK, JobsOf, Alive
<1> QED
  BY <1>1, <1>2, <1>3, <1>4 DEF Early

\* What was known of the other folders still holds, for no record comes to a dead session.
LEMMA StillGone ==
  ASSUME OutputInv, NEW s \in Sessions, session[s].at \in Visiting, NEW v, v = session[s].visit,
         job' = job, \A d \in Downloads : disk'.record[d] \in {disk.record[d], None},
         NEW r \in SessionType, session' = [session EXCEPT ![s] = r],
         r.todo = session[s].todo, r.dead = session[s].dead, r.failed = session[s].failed
  PROVE  /\ ~Alive(v)' /\ JobsOf(v)' = JobsOf(v) /\ Records(v)' \subseteq Records(v)
         /\ v \in r.todo /\ (~r.failed => \A u \in r.dead \ r.todo : Records(u)' = {})
<1>1. /\ v \in Sessions \ {s} /\ v \in session[s].todo /\ ~Alive(v) /\ SweepOK(s)
      /\ session \in [Sessions -> SessionType]
  BY Visited
<1>2. session'[v] = session[v]
  BY <1>1
<1>3. ~Alive(v)'
  BY <1>1, <1>2 DEF Alive
<1>4. \A u : JobsOf(u)' = JobsOf(u) /\ Records(u)' \subseteq Records(u)
  BY DEF JobsOf, Records
<1>5. ~r.failed => \A u \in r.dead \ r.todo : Records(u) = {}
  BY <1>1 DEF SweepOK, StageOK, Early, Visiting, Sweeping, Dropping
<1> QED
  BY <1>1, <1>3, <1>4, <1>5

LEMMA ListRecordsKeeps ==
  ASSUME OutputInv, NEW s \in Sessions, ListRecords(s)
  PROVE  OutputInv'
<1>1. PICK v : /\ v = session[s].visit /\ session[s].at = "inspecting" /\ session[s].worker /\ job' = job
               /\ session \in [Sessions -> SessionType] /\ session[s] \in SessionType
               /\ v \in Sessions \ {s} /\ v \in session[s].todo /\ session[v].at = "gone" /\ ~Alive(v)
               /\ \A d \in JobsOf(v) : job[d].pc \in Settled
               /\ SweepOK(s) /\ TypeInv /\ JobsOK /\ session[s].at \in Early
  BY Visited DEF ListRecords, Stands, Visiting, Sweeping, Dropping
<1>2. CASE Fault /\ disk' = disk /\ Skips(s, v)
  BY <1>1, <1>2, Skipped
<1>3. CASE Works /\ disk' = disk
           /\ session' = [session EXCEPT ![s].at = "sweeping", ![s].clean = TRUE, ![s].records = Records(v)]
  <2>0. Records(v) \in SUBSET Downloads
    BY DEF Records
  <2>1. PICK r \in SessionType :
          /\ session' = [session EXCEPT ![s] = r]
          /\ r.at = "sweeping" /\ r.clean /\ r.records = Records(v)
          /\ r.todo = session[s].todo /\ r.visit = session[s].visit /\ r.failed = session[s].failed
          /\ r.dead = session[s].dead /\ r.parent = session[s].parent /\ r.worker = session[s].worker
    <3> DEFINE r == [session[s] EXCEPT !.at = "sweeping", !.clean = TRUE, !.records = Records(v)]
    <3>1. /\ r \in SessionType
            /\ r.at = "sweeping" /\ r.clean /\ r.records = Records(v)
            /\ r.todo = session[s].todo /\ r.visit = session[s].visit /\ r.failed = session[s].failed
            /\ r.dead = session[s].dead /\ r.parent = session[s].parent /\ r.worker = session[s].worker
      BY <1>1, <2>0 DEF SessionType, Stages, Early, Visiting, Sweeping, Dropping
    <3>2. session' = [session EXCEPT ![s] = r]
      BY <1>1, <1>3
    <3> HIDE DEF r
    <3> QED
      BY <3>1, <3>2
  <2>2. /\ ~Alive(v)' /\ JobsOf(v)' = JobsOf(v) /\ Records(v)' \subseteq Records(v)
        /\ v \in r.todo /\ (~r.failed => \A u \in r.dead \ r.todo : Records(u)' = {})
    <3>1. \A e \in Downloads : disk'.record[e] \in {disk.record[e], None}
      BY <1>3
    <3> QED
      BY <1>1, <2>1, <3>1, StillGone DEF Visiting, Sweeping, Dropping
  <2>3. r.records \subseteq JobsOf(v) /\ Records(v)' \subseteq r.records
    BY <2>1, <2>2 DEF Records, JobsOf
  <2>4. StageOK(r)'
    BY <1>1, <2>1, <2>2, <2>3 DEF StageOK, Sweeping, Dropping, Visiting, Early
  <2>5. SweepOK(s)'
    BY <2>1, <2>4, Swept
  <2> QED
    BY <1>1, <1>3, <2>1, <2>5, SweepLooks DEF Early, Visiting, Sweeping, Dropping
<1> QED
  BY <1>1, <1>2, <1>3 DEF ListRecords, Calls

LEMMA ReadRecordKeeps ==
  ASSUME OutputInv, NEW s \in Sessions, NEW d \in Downloads, ReadRecord(s, d)
  PROVE  OutputInv'
<1>0. d \in session[s].records
  BY DEF ReadRecord
<1>1. PICK v : /\ v = session[s].visit /\ session[s].at = "sweeping" /\ session[s].worker /\ job' = job
               /\ session \in [Sessions -> SessionType] /\ session[s] \in SessionType
               /\ v \in Sessions \ {s} /\ v \in session[s].todo /\ session[v].at = "gone" /\ ~Alive(v)
               /\ \A e \in JobsOf(v) : job[e].pc \in Settled
               /\ SweepOK(s) /\ TypeInv /\ JobsOK /\ session[s].at \in Early
  BY Visited DEF ReadRecord, Stands, Visiting, Sweeping, Dropping
<1>2. CASE (Works \/ Fault) /\ disk' = disk
           /\ session' = [session EXCEPT ![s].records = @ \ {d}, ![s].clean = FALSE]
  <2>1. PICK r \in SessionType :
          /\ session' = [session EXCEPT ![s] = r]
          /\ r.at = "sweeping" /\ ~r.clean /\ r.records = session[s].records \ {d}
          /\ r.todo = session[s].todo /\ r.visit = session[s].visit /\ r.failed = session[s].failed
          /\ r.dead = session[s].dead /\ r.parent = session[s].parent /\ r.worker = session[s].worker
    <3> DEFINE r == [session[s] EXCEPT !.records = @ \ {d}, !.clean = FALSE]
    <3>1. /\ r \in SessionType
            /\ r.at = "sweeping" /\ ~r.clean /\ r.records = session[s].records \ {d}
            /\ r.todo = session[s].todo /\ r.visit = session[s].visit /\ r.failed = session[s].failed
            /\ r.dead = session[s].dead /\ r.parent = session[s].parent /\ r.worker = session[s].worker
      BY <1>1 DEF SessionType, Stages, Early, Visiting, Sweeping, Dropping
    <3>2. session' = [session EXCEPT ![s] = r]
      BY <1>1, <1>2
    <3> HIDE DEF r
    <3> QED
      BY <3>1, <3>2
  <2>2. /\ ~Alive(v)' /\ JobsOf(v)' = JobsOf(v) /\ Records(v)' \subseteq Records(v)
        /\ v \in r.todo /\ (~r.failed => \A u \in r.dead \ r.todo : Records(u)' = {})
    <3>1. \A e \in Downloads : disk'.record[e] \in {disk.record[e], None}
      BY <1>2
    <3> QED
      BY <1>1, <2>1, <3>1, StillGone DEF Visiting, Sweeping, Dropping
  <2>3. r.records \subseteq JobsOf(v)
    BY <1>1, <2>1 DEF SweepOK, StageOK, Sweeping
  <2>4. StageOK(r)'
    BY <1>1, <2>1, <2>2, <2>3 DEF StageOK, Sweeping, Dropping, Visiting, Early
  <2>5. SweepOK(s)'
    BY <2>1, <2>4, Swept
  <2> QED
    BY <1>1, <1>2, <2>1, <2>5, SweepLooks DEF Early, Visiting, Sweeping, Dropping
<1>3. CASE Works /\ disk' = disk
           /\ session' = [session EXCEPT ![s].records = @ \ {d}, ![s].item = d, ![s].at = "removing"]
  <2>1. PICK r \in SessionType :
          /\ session' = [session EXCEPT ![s] = r]
          /\ r.at = "removing" /\ r.clean = session[s].clean /\ r.records = session[s].records \ {d} /\ r.item = d
          /\ r.todo = session[s].todo /\ r.visit = session[s].visit /\ r.failed = session[s].failed
          /\ r.dead = session[s].dead /\ r.parent = session[s].parent /\ r.worker = session[s].worker
    <3> DEFINE r == [session[s] EXCEPT !.records = @ \ {d}, !.item = d, !.at = "removing"]
    <3>1. /\ r \in SessionType
            /\ r.at = "removing" /\ r.clean = session[s].clean /\ r.records = session[s].records \ {d} /\ r.item = d
            /\ r.todo = session[s].todo /\ r.visit = session[s].visit /\ r.failed = session[s].failed
            /\ r.dead = session[s].dead /\ r.parent = session[s].parent /\ r.worker = session[s].worker
      BY <1>1 DEF SessionType, Stages, Early, Visiting, Sweeping, Dropping
    <3>2. session' = [session EXCEPT ![s] = r]
      BY <1>1, <1>3
    <3> HIDE DEF r
    <3> QED
      BY <3>1, <3>2
  <2>2. /\ ~Alive(v)' /\ JobsOf(v)' = JobsOf(v) /\ Records(v)' \subseteq Records(v)
        /\ v \in r.todo /\ (~r.failed => \A u \in r.dead \ r.todo : Records(u)' = {})
    <3>1. \A e \in Downloads : disk'.record[e] \in {disk.record[e], None}
      BY <1>3
    <3> QED
      BY <1>1, <2>1, <3>1, StillGone DEF Visiting, Sweeping, Dropping
  <2>3. /\ r.records \subseteq JobsOf(v) /\ d \in JobsOf(v)
        /\ r.clean => Records(v)' \subseteq r.records \cup {d}
    BY <1>0, <1>1, <2>1, <2>2 DEF SweepOK, StageOK, Sweeping
  <2>4. StageOK(r)'
    BY <1>1, <2>1, <2>2, <2>3 DEF StageOK, Sweeping, Dropping, Visiting, Early
  <2>5. SweepOK(s)'
    BY <2>1, <2>4, Swept
  <2> QED
    BY <1>1, <1>3, <2>1, <2>5, SweepLooks DEF Early, Visiting, Sweeping, Dropping
<1> QED
  BY <1>1, <1>2, <1>3 DEF ReadRecord, Calls

LEMMA RecordFails ==
  ASSUME OutputInv, NEW s \in Sessions, session[s].at \in {"removing", "erasing"}, session[s].worker,
         job' = job, disk' = disk, Fault, NextRecord(s, FALSE)
  PROVE  OutputInv'
<1>1. PICK v : /\ v = session[s].visit
               /\ session \in [Sessions -> SessionType] /\ session[s] \in SessionType
               /\ SweepOK(s) /\ session[s].at \in Early
  BY Visited DEF Visiting, Sweeping
<1>2. QED
  <2>1. PICK r \in SessionType :
          /\ session' = [session EXCEPT ![s] = r]
          /\ r.at = "sweeping" /\ ~r.clean /\ r.records = session[s].records
          /\ r.todo = session[s].todo /\ r.visit = session[s].visit /\ r.failed = session[s].failed
          /\ r.dead = session[s].dead /\ r.parent = session[s].parent /\ r.worker = session[s].worker
    <3> DEFINE r == [session[s] EXCEPT !.item = None, !.at = "sweeping", !.clean = @ /\ FALSE]
    <3>1. /\ r \in SessionType
            /\ r.at = "sweeping" /\ ~r.clean /\ r.records = session[s].records
            /\ r.todo = session[s].todo /\ r.visit = session[s].visit /\ r.failed = session[s].failed
            /\ r.dead = session[s].dead /\ r.parent = session[s].parent /\ r.worker = session[s].worker
      BY <1>1 DEF SessionType, Stages, Early, Visiting, Sweeping, Dropping
    <3>2. session' = [session EXCEPT ![s] = r]
      BY <1>1 DEF NextRecord
    <3> HIDE DEF r
    <3> QED
      BY <3>1, <3>2
  <2>2. /\ ~Alive(v)' /\ JobsOf(v)' = JobsOf(v) /\ Records(v)' \subseteq Records(v)
        /\ v \in r.todo /\ (~r.failed => \A u \in r.dead \ r.todo : Records(u)' = {})
    BY <1>1, <2>1, StillGone DEF Visiting, Sweeping, Dropping
  <2>3. r.records \subseteq JobsOf(v)
    BY <1>1, <2>1 DEF SweepOK, StageOK, Sweeping
  <2>4. StageOK(r)'
    BY <1>1, <2>1, <2>2, <2>3 DEF StageOK, Sweeping, Dropping, Visiting, Early
  <2>5. SweepOK(s)'
    BY <2>1, <2>4, Swept
  <2> QED
    BY <1>1, <2>1, <2>5, SweepLooks DEF Early, Visiting, Sweeping, Dropping

LEMMA RemoveTemporaryKeeps ==
  ASSUME OutputInv, NEW s \in Sessions, RemoveTemporary(s)
  PROVE  OutputInv'
<1>1. PICK v : /\ v = session[s].visit /\ session[s].at = "removing" /\ session[s].worker /\ job' = job
               /\ session \in [Sessions -> SessionType] /\ session[s] \in SessionType
               /\ v \in Sessions \ {s} /\ v \in session[s].todo /\ session[v].at = "gone" /\ ~Alive(v)
               /\ \A d \in JobsOf(v) : job[d].pc \in Settled
               /\ SweepOK(s) /\ TypeInv /\ JobsOK /\ session[s].at \in Early
  BY Visited DEF RemoveTemporary, Stands, Visiting, Sweeping, Dropping
<1>2. CASE Fault /\ disk' = disk /\ NextRecord(s, FALSE)
  BY <1>1, <1>2, RecordFails
<1>3. CASE Works /\ disk' = [disk EXCEPT !.temporary[session[s].item] = Absent] /\ Moves(s, "erasing")
  <2>1. PICK r \in SessionType :
          /\ session' = [session EXCEPT ![s] = r]
          /\ r.at = "erasing" /\ r.clean = session[s].clean /\ r.records = session[s].records /\ r.item = session[s].item
          /\ r.todo = session[s].todo /\ r.visit = session[s].visit /\ r.failed = session[s].failed
          /\ r.dead = session[s].dead /\ r.parent = session[s].parent /\ r.worker = session[s].worker
    <3> DEFINE r == [session[s] EXCEPT !.at = "erasing"]
    <3>1. /\ r \in SessionType
            /\ r.at = "erasing" /\ r.clean = session[s].clean /\ r.records = session[s].records /\ r.item = session[s].item
            /\ r.todo = session[s].todo /\ r.visit = session[s].visit /\ r.failed = session[s].failed
            /\ r.dead = session[s].dead /\ r.parent = session[s].parent /\ r.worker = session[s].worker
      BY <1>1 DEF SessionType, Stages, Early, Visiting, Sweeping, Dropping
    <3>2. session' = [session EXCEPT ![s] = r]
      BY <1>1, <1>3 DEF NextRecord, Moves
    <3> HIDE DEF r
    <3> QED
      BY <3>1, <3>2
  <2>2. session[s].item \in JobsOf(v) /\ session[s].item \in Downloads /\ job[session[s].item].pc \in Settled
    BY <1>1 DEF SweepOK, StageOK, JobsOf
  <2>3. PICK d \in JobsOf(v) : d = session[s].item /\ d \in Downloads /\ job[d].pc \in Settled
    BY <2>2
  <2>4. /\ disk' \in DiskType /\ disk'.folder = disk.folder /\ disk'.shelf = disk.shelf
        /\ disk'.foreign = disk.foreign /\ disk'.temporary[d] = Absent /\ disk'.record[d] = disk.record[d]
        /\ \A e \in Downloads \ {d} : disk'.record[e] = disk.record[e] /\ disk'.temporary[e] = disk.temporary[e]
    <3>1. DiskKept(d) /\ disk'.temporary[d] = Absent /\ disk'.record[d] = disk.record[d]
      BY <1>1, <1>3, <2>3, TemporarySet
    <3> QED
      BY <3>1 DEF DiskKept
  <2>5. \A e \in Downloads : \/ disk'.record[e] = disk.record[e] /\ disk'.temporary[e] = disk.temporary[e]
                             \/ /\ job[e].pc \in Settled /\ disk'.temporary[e] = Absent
                                /\ disk'.record[e] \in {disk.record[e], None}
    BY <2>3, <2>4
  <2>6. /\ ~Alive(v)' /\ JobsOf(v)' = JobsOf(v) /\ Records(v)' \subseteq Records(v)
        /\ v \in r.todo /\ (~r.failed => \A u \in r.dead \ r.todo : Records(u)' = {})
    <3>1. \A e \in Downloads : disk'.record[e] \in {disk.record[e], None}
      BY <2>5
    <3> QED
      BY <1>1, <2>1, <3>1, StillGone DEF Visiting, Sweeping, Dropping
  <2>7. /\ r.records \subseteq JobsOf(v) /\ (r.clean => Records(v)' \subseteq r.records \cup {d})
    BY <1>1, <2>1, <2>3, <2>6 DEF SweepOK, StageOK, Sweeping
  <2>8. StageOK(r)'
    BY <1>1, <2>1, <2>3, <2>4, <2>6, <2>7 DEF StageOK, Sweeping, Dropping, Visiting, Early
  <2>9. SweepOK(s)'
    BY <2>1, <2>8, Swept
  <2>10. r.at \in Early \cup {"broken"} /\ r.worker
    BY <1>1, <2>1 DEF Early, Visiting, Sweeping
  <2> QED
    BY <1>1, <1>3, <2>1, <2>4, <2>5, <2>9, <2>10, SweepStep
<1> QED
  BY <1>1, <1>2, <1>3 DEF RemoveTemporary, Calls

LEMMA RemoveRecordKeeps ==
  ASSUME OutputInv, NEW s \in Sessions, RemoveRecord(s)
  PROVE  OutputInv'
<1>1. PICK v : /\ v = session[s].visit /\ session[s].at = "erasing" /\ session[s].worker /\ job' = job
               /\ session \in [Sessions -> SessionType] /\ session[s] \in SessionType
               /\ v \in Sessions \ {s} /\ v \in session[s].todo /\ session[v].at = "gone" /\ ~Alive(v)
               /\ \A d \in JobsOf(v) : job[d].pc \in Settled
               /\ SweepOK(s) /\ TypeInv /\ JobsOK /\ session[s].at \in Early
  BY Visited DEF RemoveRecord, Stands, Visiting, Sweeping, Dropping
<1>2. CASE Fault /\ disk' = disk /\ NextRecord(s, FALSE)
  BY <1>1, <1>2, RecordFails
<1>3. CASE Works /\ disk' = [disk EXCEPT !.record[session[s].item] = None] /\ NextRecord(s, TRUE)
  <2>1. PICK r \in SessionType :
          /\ session' = [session EXCEPT ![s] = r]
          /\ r.at = "sweeping" /\ r.clean = session[s].clean /\ r.records = session[s].records
          /\ r.todo = session[s].todo /\ r.visit = session[s].visit /\ r.failed = session[s].failed
          /\ r.dead = session[s].dead /\ r.parent = session[s].parent /\ r.worker = session[s].worker
    <3> DEFINE r == [session[s] EXCEPT !.item = None, !.at = "sweeping", !.clean = @ /\ TRUE]
    <3>1. /\ r \in SessionType
            /\ r.at = "sweeping" /\ r.clean = session[s].clean /\ r.records = session[s].records
            /\ r.todo = session[s].todo /\ r.visit = session[s].visit /\ r.failed = session[s].failed
            /\ r.dead = session[s].dead /\ r.parent = session[s].parent /\ r.worker = session[s].worker
      BY <1>1 DEF SessionType, Stages, Early, Visiting, Sweeping, Dropping
    <3>2. session' = [session EXCEPT ![s] = r]
      BY <1>1, <1>3 DEF NextRecord, Moves
    <3> HIDE DEF r
    <3> QED
      BY <3>1, <3>2
  <2>2. session[s].item \in JobsOf(v) /\ session[s].item \in Downloads /\ job[session[s].item].pc \in Settled
        /\ disk.temporary[session[s].item] = Absent
    BY <1>1 DEF SweepOK, StageOK, JobsOf
  <2>3. PICK d \in JobsOf(v) : d = session[s].item /\ d \in Downloads /\ job[d].pc \in Settled
                               /\ disk.temporary[d] = Absent
    BY <2>2
  <2>4. /\ disk' \in DiskType /\ disk'.folder = disk.folder /\ disk'.shelf = disk.shelf
        /\ disk'.foreign = disk.foreign /\ disk'.record[d] = None /\ disk'.temporary[d] = disk.temporary[d]
        /\ \A e \in Downloads \ {d} : disk'.record[e] = disk.record[e] /\ disk'.temporary[e] = disk.temporary[e]
    <3>1. DiskKept(d) /\ disk'.record[d] = None /\ disk'.temporary[d] = disk.temporary[d]
      BY <1>1, <1>3, <2>3, RecordSet
    <3> QED
      BY <3>1 DEF DiskKept
  <2>5. \A e \in Downloads : \/ disk'.record[e] = disk.record[e] /\ disk'.temporary[e] = disk.temporary[e]
                             \/ /\ job[e].pc \in Settled /\ disk'.temporary[e] = Absent
                                /\ disk'.record[e] \in {disk.record[e], None}
    BY <2>3, <2>4
  <2>6. /\ ~Alive(v)' /\ JobsOf(v)' = JobsOf(v) /\ Records(v)' \subseteq Records(v)
        /\ v \in r.todo /\ (~r.failed => \A u \in r.dead \ r.todo : Records(u)' = {})
    <3>1. \A e \in Downloads : disk'.record[e] \in {disk.record[e], None}
      BY <2>5
    <3> QED
      BY <1>1, <2>1, <3>1, StillGone DEF Visiting, Sweeping, Dropping
  <2>7. /\ r.records \subseteq JobsOf(v) /\ (r.clean => Records(v)' \subseteq r.records)
    <3>1. d \notin Records(v)'
      BY <2>4 DEF Records
    <3> QED
      BY <1>1, <2>1, <2>3, <2>6, <3>1 DEF SweepOK, StageOK, Sweeping
  <2>8. StageOK(r)'
    BY <1>1, <2>1, <2>3, <2>4, <2>6, <2>7 DEF StageOK, Sweeping, Dropping, Visiting, Early
  <2>9. SweepOK(s)'
    BY <2>1, <2>8, Swept
  <2>10. r.at \in Early \cup {"broken"} /\ r.worker
    BY <1>1, <2>1 DEF Early, Visiting, Sweeping
  <2> QED
    BY <1>1, <1>3, <2>1, <2>4, <2>5, <2>9, <2>10, SweepStep
<1> QED
  BY <1>1, <1>2, <1>3 DEF RemoveRecord, Calls

LEMMA SweepEndsKeeps ==
  ASSUME OutputInv, NEW s \in Sessions, SweepEnds(s)
  PROVE  OutputInv'
<1>1. PICK v : /\ v = session[s].visit /\ session[s].at = "sweeping" /\ session[s].worker /\ job' = job
               /\ session \in [Sessions -> SessionType] /\ session[s] \in SessionType
               /\ v \in Sessions \ {s} /\ v \in session[s].todo /\ session[v].at = "gone" /\ ~Alive(v)
               /\ \A d \in JobsOf(v) : job[d].pc \in Settled
               /\ SweepOK(s) /\ TypeInv /\ JobsOK /\ session[s].at \in Early
  BY Visited DEF SweepEnds, Stands, Visiting, Sweeping, Dropping
<1>2. CASE Works /\ disk' = disk /\ Skips(s, v)
  BY <1>1, <1>2, Skipped
<1>3. CASE Works /\ disk' = disk /\ session[s].clean /\ session[s].records = {} /\ Moves(s, "emptying")
  <2>1. PICK r \in SessionType :
          /\ session' = [session EXCEPT ![s] = r]
          /\ r.at = "emptying"
          /\ r.todo = session[s].todo /\ r.visit = session[s].visit /\ r.failed = session[s].failed
          /\ r.dead = session[s].dead /\ r.parent = session[s].parent /\ r.worker = session[s].worker
    <3> DEFINE r == [session[s] EXCEPT !.at = "emptying"]
    <3>1. /\ r \in SessionType
            /\ r.at = "emptying"
            /\ r.todo = session[s].todo /\ r.visit = session[s].visit /\ r.failed = session[s].failed
            /\ r.dead = session[s].dead /\ r.parent = session[s].parent /\ r.worker = session[s].worker
      BY <1>1 DEF SessionType, Stages, Early, Visiting, Sweeping, Dropping
    <3>2. session' = [session EXCEPT ![s] = r]
      BY <1>1, <1>3 DEF Moves
    <3> HIDE DEF r
    <3> QED
      BY <3>1, <3>2
  <2>2. /\ ~Alive(v)' /\ JobsOf(v)' = JobsOf(v) /\ Records(v)' \subseteq Records(v)
        /\ v \in r.todo /\ (~r.failed => \A u \in r.dead \ r.todo : Records(u)' = {})
    <3>1. \A e \in Downloads : disk'.record[e] \in {disk.record[e], None}
      BY <1>3
    <3> QED
      BY <1>1, <2>1, <3>1, StillGone DEF Visiting, Sweeping, Dropping
  <2>3. Records(v)' = {}
    BY <1>1, <1>3, <2>2 DEF SweepOK, StageOK
  <2>4. StageOK(r)'
    BY <1>1, <2>1, <2>2, <2>3 DEF StageOK, Sweeping, Dropping, Visiting, Early
  <2>5. SweepOK(s)'
    BY <2>1, <2>4, Swept
  <2> QED
    BY <1>1, <1>3, <2>1, <2>5, SweepLooks DEF Early, Visiting, Sweeping, Dropping
<1> QED
  BY <1>1, <1>2, <1>3 DEF SweepEnds, Works

-----------------------------------------------------------------------------
LEMMA FolderSet ==
  ASSUME TypeInv, NEW v \in Sessions, NEW parts \in SUBSET Full,
         disk' = [disk EXCEPT !.folder[v] = parts]
  PROVE  /\ disk' \in DiskType /\ disk'.folder[v] = parts
         /\ \A t \in Sessions \ {v} : disk'.folder[t] = disk.folder[t]
         /\ disk'.record = disk.record /\ disk'.temporary = disk.temporary
         /\ disk'.shelf = disk.shelf /\ disk'.foreign = disk.foreign
BY DEF TypeInv, DiskType

\* The parts of a folder go when no record is left of its session.
LEMMA FolderShrinks ==
  ASSUME OutputInv, NEW s \in Sessions, session[s].at \in Dropping, session[s].worker,
         NEW v, v = session[s].visit, job' = job, Works,
         NEW parts \in SUBSET Full, disk' = [disk EXCEPT !.folder[v] = parts],
         NEW r \in SessionType, session' = [session EXCEPT ![s] = r],
         r.todo \subseteq session[s].todo, r.dead = session[s].dead, r.visit = v,
         r.failed = session[s].failed, r.parent = session[s].parent, r.worker,
         \/ r.at \in Dropping /\ r.todo = session[s].todo
         \/ r.at = "visiting" /\ r.todo = session[s].todo \ {v}
  PROVE  OutputInv'
<1>1. /\ session \in [Sessions -> SessionType] /\ v \in Sessions \ {s} /\ v \in session[s].todo
      /\ session[v].at = "gone" /\ SweepOK(s) /\ TypeInv /\ JobsOK /\ session[s].at \in Early
  BY Visited DEF Visiting
<1>2. /\ disk' \in DiskType /\ disk'.record = disk.record /\ disk'.temporary = disk.temporary
      /\ disk'.shelf = disk.shelf /\ disk'.foreign = disk.foreign
      /\ \A t \in Sessions \ {v} : disk'.folder[t] = disk.folder[t]
  BY <1>1, FolderSet
<1>3. Records(v) = {} /\ \A u : Records(u)' = Records(u)
  BY <1>1, <1>2 DEF SweepOK, StageOK, Records
<1>4. \A d \in Downloads : disk'.record[d] # None => disk'.folder[job[d].session] = disk.folder[job[d].session]
  <2> SUFFICES ASSUME NEW d \in Downloads, disk.record[d] # None
               PROVE  disk'.folder[job[d].session] = disk.folder[job[d].session]
    BY <1>2
  <2>1. job[d].session \in Sessions
    BY <1>1 DEF JobsOK, PlaceOK
  <2>2. job[d].session # v
    BY <1>3 DEF Records
  <2> QED
    BY <1>2, <2>1, <2>2
<1>5. ~r.failed => \A u \in r.dead \ r.todo : Records(u)' = {}
  <2>1. ~r.failed => \A u \in session[s].dead \ session[s].todo : Records(u) = {}
    BY <1>1 DEF SweepOK, StageOK, Early, Visiting, Sweeping, Dropping
  <2> QED
    BY <1>3, <2>1
<1>6. ~Alive(v)'
  <2>1. session'[v] = session[v] /\ ~Alive(v)
    BY <1>1, Visited DEF Visiting
  <2> QED
    BY <2>1 DEF Alive
<1>7. StageOK(r)'
  BY <1>1, <1>3, <1>5, <1>6 DEF StageOK, Visiting, Sweeping, Dropping, Early
<1>8. SweepOK(s)'
  BY <1>7, Swept
<1>9. r.at \in Early
  BY DEF Early, Visiting
<1> QED
  BY <1>1, <1>2, <1>4, <1>8, <1>9, SweepStep

LEMMA RemoveRecordsKeeps ==
  ASSUME OutputInv, NEW s \in Sessions, RemoveRecords(s)
  PROVE  OutputInv'
<1>1. PICK v : /\ v = session[s].visit /\ session[s].at = "emptying" /\ session[s].worker /\ job' = job
               /\ session \in [Sessions -> SessionType] /\ session[s] \in SessionType
               /\ v \in Sessions \ {s} /\ v \in session[s].todo /\ session[v].at = "gone" /\ ~Alive(v)
               /\ \A d \in JobsOf(v) : job[d].pc \in Settled
               /\ SweepOK(s) /\ TypeInv /\ JobsOK /\ session[s].at \in Early
  BY Visited DEF RemoveRecords, Stands, Visiting, Sweeping, Dropping
<1>2. CASE Fault /\ disk' = disk /\ Skips(s, v)
  BY <1>1, <1>2, Skipped
<1>3. CASE Works /\ disk' = [disk EXCEPT !.folder[v] = @ \ {"records"}] /\ Moves(s, "disowning")
  <2>0. disk.folder[v] \subseteq Full /\ disk' = [disk EXCEPT !.folder[v] = disk.folder[v] \ {"records"}]
    BY <1>1, <1>3 DEF TypeInv, DiskType
  <2>1. PICK r \in SessionType :
          /\ session' = [session EXCEPT ![s] = r]
          /\ r.at = "disowning"
          /\ r.todo = session[s].todo /\ r.visit = session[s].visit /\ r.failed = session[s].failed
          /\ r.dead = session[s].dead /\ r.parent = session[s].parent /\ r.worker = session[s].worker
    <3> DEFINE r == [session[s] EXCEPT !.at = "disowning"]
    <3>1. /\ r \in SessionType
            /\ r.at = "disowning"
            /\ r.todo = session[s].todo /\ r.visit = session[s].visit /\ r.failed = session[s].failed
            /\ r.dead = session[s].dead /\ r.parent = session[s].parent /\ r.worker = session[s].worker
      BY <1>1 DEF SessionType, Stages, Early, Visiting, Sweeping, Dropping
    <3>2. session' = [session EXCEPT ![s] = r]
      BY <1>1, <1>3 DEF Moves
    <3> HIDE DEF r
    <3> QED
      BY <3>1, <3>2
  <2>2. PICK parts \in SUBSET Full : disk' = [disk EXCEPT !.folder[v] = parts]
    BY <2>0
  <2> QED
    <3>1. /\ session[s].at \in Dropping /\ r.todo \subseteq session[s].todo /\ r.visit = v
          /\ r.parent = session[s].parent /\ r.worker
          /\ \/ r.at \in Dropping /\ r.todo = session[s].todo
             \/ r.at = "visiting" /\ r.todo = session[s].todo \ {v}
      BY <1>1, <2>1 DEF Dropping
    <3> QED
      BY <1>1, <1>3, <2>1, <2>2, <3>1, FolderShrinks
<1> QED
  BY <1>1, <1>2, <1>3 DEF RemoveRecords, Calls

LEMMA RemoveOwnerKeeps ==
  ASSUME OutputInv, NEW s \in Sessions, RemoveOwner(s)
  PROVE  OutputInv'
<1>1. PICK v : /\ v = session[s].visit /\ session[s].at = "disowning" /\ session[s].worker /\ job' = job
               /\ session \in [Sessions -> SessionType] /\ session[s] \in SessionType
               /\ v \in Sessions \ {s} /\ v \in session[s].todo /\ session[v].at = "gone" /\ ~Alive(v)
               /\ \A d \in JobsOf(v) : job[d].pc \in Settled
               /\ SweepOK(s) /\ TypeInv /\ JobsOK /\ session[s].at \in Early
  BY Visited DEF RemoveOwner, Stands, Visiting, Sweeping, Dropping
<1>2. CASE Fault /\ disk' = disk /\ Skips(s, v)
  BY <1>1, <1>2, Skipped
<1>3. CASE Works /\ disk' = [disk EXCEPT !.folder[v] = @ \ {"owner"}] /\ Moves(s, "unfolding")
  <2>0. disk.folder[v] \subseteq Full /\ disk' = [disk EXCEPT !.folder[v] = disk.folder[v] \ {"owner"}]
    BY <1>1, <1>3 DEF TypeInv, DiskType
  <2>1. PICK r \in SessionType :
          /\ session' = [session EXCEPT ![s] = r]
          /\ r.at = "unfolding"
          /\ r.todo = session[s].todo /\ r.visit = session[s].visit /\ r.failed = session[s].failed
          /\ r.dead = session[s].dead /\ r.parent = session[s].parent /\ r.worker = session[s].worker
    <3> DEFINE r == [session[s] EXCEPT !.at = "unfolding"]
    <3>1. /\ r \in SessionType
            /\ r.at = "unfolding"
            /\ r.todo = session[s].todo /\ r.visit = session[s].visit /\ r.failed = session[s].failed
            /\ r.dead = session[s].dead /\ r.parent = session[s].parent /\ r.worker = session[s].worker
      BY <1>1 DEF SessionType, Stages, Early, Visiting, Sweeping, Dropping
    <3>2. session' = [session EXCEPT ![s] = r]
      BY <1>1, <1>3 DEF Moves
    <3> HIDE DEF r
    <3> QED
      BY <3>1, <3>2
  <2>2. PICK parts \in SUBSET Full : disk' = [disk EXCEPT !.folder[v] = parts]
    BY <2>0
  <2> QED
    <3>1. /\ session[s].at \in Dropping /\ r.todo \subseteq session[s].todo /\ r.visit = v
          /\ r.parent = session[s].parent /\ r.worker
          /\ \/ r.at \in Dropping /\ r.todo = session[s].todo
             \/ r.at = "visiting" /\ r.todo = session[s].todo \ {v}
      BY <1>1, <2>1 DEF Dropping
    <3> QED
      BY <1>1, <1>3, <2>1, <2>2, <3>1, FolderShrinks
<1> QED
  BY <1>1, <1>2, <1>3 DEF RemoveOwner, Calls

LEMMA RemoveFolderKeeps ==
  ASSUME OutputInv, NEW s \in Sessions, RemoveFolder(s)
  PROVE  OutputInv'
<1>1. PICK v : /\ v = session[s].visit /\ session[s].at = "unfolding" /\ session[s].worker /\ job' = job
               /\ session \in [Sessions -> SessionType] /\ session[s] \in SessionType
               /\ v \in Sessions \ {s} /\ v \in session[s].todo /\ session[v].at = "gone" /\ ~Alive(v)
               /\ \A d \in JobsOf(v) : job[d].pc \in Settled
               /\ SweepOK(s) /\ TypeInv /\ JobsOK /\ session[s].at \in Early
  BY Visited DEF RemoveFolder, Stands, Visiting, Sweeping, Dropping
<1>2. CASE Fault /\ disk' = disk /\ Skips(s, v)
  BY <1>1, <1>2, Skipped
<1>3. CASE Works /\ disk' = [disk EXCEPT !.folder[v] = {}] /\ disk.folder[v] = {} /\ Skips(s, v)
  <2>1. disk' = disk
    BY <1>1, <1>3 DEF TypeInv, DiskType
  <2> QED
    BY <1>1, <1>3, <2>1, Skipped
<1>4. CASE /\ Works /\ disk' = [disk EXCEPT !.folder[v] = {}]
           /\ session' = [session EXCEPT ![s].todo = @ \ {v}, ![s].at = "visiting"]
  <2>1. PICK r \in SessionType :
          /\ session' = [session EXCEPT ![s] = r]
          /\ r.at = "visiting" /\ r.todo = session[s].todo \ {v} /\ r.visit = session[s].visit /\ r.failed = session[s].failed
          /\ r.dead = session[s].dead /\ r.parent = session[s].parent /\ r.worker = session[s].worker
    <3> DEFINE r == [session[s] EXCEPT !.todo = @ \ {v}, !.at = "visiting"]
    <3>1. /\ r \in SessionType
            /\ r.at = "visiting" /\ r.todo = session[s].todo \ {v} /\ r.visit = session[s].visit /\ r.failed = session[s].failed
            /\ r.dead = session[s].dead /\ r.parent = session[s].parent /\ r.worker = session[s].worker
      BY <1>1 DEF SessionType, Stages, Early, Visiting, Sweeping, Dropping
    <3>2. session' = [session EXCEPT ![s] = r]
      BY <1>1, <1>4
    <3> HIDE DEF r
    <3> QED
      BY <3>1, <3>2
  <2>2. PICK parts \in SUBSET Full : disk' = [disk EXCEPT !.folder[v] = parts]
    BY <1>4
  <2> QED
    <3>1. /\ session[s].at \in Dropping /\ r.todo \subseteq session[s].todo /\ r.visit = v
          /\ r.parent = session[s].parent /\ r.worker
          /\ \/ r.at \in Dropping /\ r.todo = session[s].todo
             \/ r.at = "visiting" /\ r.todo = session[s].todo \ {v}
      BY <1>1, <2>1 DEF Dropping
    <3> QED
      BY ZenonT(60), <1>1, <1>4, <2>1, <2>2, <3>1, FolderShrinks
<1> QED
  BY <1>1, <1>2, <1>3, <1>4 DEF RemoveFolder, Calls

-----------------------------------------------------------------------------
(* The session's own folder *)

LEMMA OwnFolder ==
  ASSUME OutputInv, NEW s \in Sessions, session[s].worker, session[s].at \in {"visiting", "owner", "records"},
         job' = job, Works \/ Fault, NEW parts \in SUBSET Full, disk' = [disk EXCEPT !.folder[s] = parts],
         NEW r \in SessionType, session' = [session EXCEPT ![s] = r],
         r.parent = session[s].parent, r.worker, r.todo = session[s].todo, r.dead \subseteq session[s].dead,
         r.at \in {"owner", "records", "ready"} => r.todo = {} /\ (r.failed \/ ~session[s].failed \/ r.dead = {}),
         \/ r.at = "owner" /\ parts = {"folder"}
         \/ r.at = "records" /\ parts = {"folder", "owner"}
         \/ r.at = "ready" /\ parts = Full
         \/ r.at = "broken"
  PROVE  OutputInv'
<1>1. TypeInv /\ JobsOK /\ LifeOK(s) /\ SweepOK(s) /\ session \in [Sessions -> SessionType]
  BY DEF OutputInv, TypeInv, SessionsOK
<1>2. /\ disk' \in DiskType /\ disk'.folder[s] = parts
      /\ \A t \in Sessions \ {s} : disk'.folder[t] = disk.folder[t]
      /\ disk'.record = disk.record /\ disk'.temporary = disk.temporary
      /\ disk'.shelf = disk.shelf /\ disk'.foreign = disk.foreign
  BY <1>1, FolderSet
<1>3. \A d \in Downloads : disk'.record[d] # None => disk'.folder[job[d].session] = disk.folder[job[d].session]
  <2>1. disk.folder[s] # Full
    BY <1>1 DEF LifeOK, Early, Full
  <2> QED
    BY <1>1, <1>2, <2>1 DEF JobsOK, PlaceOK
<1>4. \A u : Records(u)' = Records(u)
  BY <1>2 DEF Records
<1>5. ~session[s].failed => \A u \in session[s].dead \ session[s].todo : Records(u) = {}
  BY <1>1 DEF SweepOK, StageOK, Early
<1>6. StageOK(r)'
  BY <1>4, <1>5 DEF StageOK, Early, Visiting, Sweeping, Dropping
<1>7. SweepOK(s)'
  BY <1>6, Swept
<1>8. session'[s] = r /\ \A t \in Sessions \ {s} : session'[t] = session[t]
  BY <1>1
<1>9. LifeOK(s)'
  <2>1. \A t \in 1..s - 1 : t \in Sessions \ {s} /\ session[t].at # "off"
    BY <1>1, OutputAssumption DEF LifeOK, Sessions
  <2> QED
    BY <1>2, <1>8, <2>1 DEF LifeOK, Early, Visiting, Sweeping, Dropping
<1>10. faults' \in 0..MaxFaults
  BY <1>1, OutputAssumption DEF TypeInv, Works, Fault
<1> QED
  BY <1>2, <1>3, <1>7, <1>9, <1>10, SessionChanges

LEMMA Breaks ==
  ASSUME OutputInv, NEW s \in Sessions, session[s].worker, session[s].at \in {"visiting", "owner", "records"},
         job' = job, Fault, disk' = disk, Moves(s, "broken")
  PROVE  OutputInv'
<1>1. session \in [Sessions -> SessionType] /\ session[s] \in SessionType /\ disk \in DiskType
  BY DEF OutputInv, TypeInv
<1>2. QED
  <2>1. PICK r \in SessionType :
          /\ session' = [session EXCEPT ![s] = r]
          /\ r.at = "broken"
          /\ r.todo = session[s].todo /\ r.failed = session[s].failed
          /\ r.dead = session[s].dead /\ r.parent = session[s].parent /\ r.worker = session[s].worker
    <3> DEFINE r == [session[s] EXCEPT !.at = "broken"]
    <3>1. /\ r \in SessionType
            /\ r.at = "broken"
            /\ r.todo = session[s].todo /\ r.failed = session[s].failed
            /\ r.dead = session[s].dead /\ r.parent = session[s].parent /\ r.worker = session[s].worker
      BY <1>1 DEF SessionType, Stages, Early, Visiting, Sweeping, Dropping
    <3>2. session' = [session EXCEPT ![s] = r]
      BY <1>1 DEF Moves
    <3> HIDE DEF r
    <3> QED
      BY <3>1, <3>2
  <2>2. PICK parts \in SUBSET Full : disk' = [disk EXCEPT !.folder[s] = parts]
    <3>1. disk.folder[s] \in SUBSET Full /\ disk' = [disk EXCEPT !.folder[s] = disk.folder[s]]
      BY <1>1 DEF DiskType
    <3> QED
      BY <3>1
  <2> QED
    BY <2>1, <2>2, OwnFolder

LEMMA MakeFolderKeeps ==
  ASSUME OutputInv, NEW s \in Sessions, MakeFolder(s)
  PROVE  OutputInv'
<1>1. /\ session[s].at = "visiting" /\ session[s].worker /\ job' = job /\ TypeInv
      /\ session \in [Sessions -> SessionType] /\ session[s] \in SessionType /\ SweepOK(s) /\ LifeOK(s)
      /\ 0 \in 0..MaxSessions
  BY OutputAssumption DEF MakeFolder, Stands, OutputInv, TypeInv, SessionsOK
<1>2. CASE Fault /\ disk' = disk /\ Moves(s, "broken")
  BY <1>1, <1>2, Breaks
<1>3. CASE /\ Works /\ disk' = [disk EXCEPT !.folder[s] = {"folder"}]
           /\ session' = [session EXCEPT ![s].at = "owner", ![s].visit = 0, ![s].clean = TRUE]
  <2>1. PICK r \in SessionType :
          /\ session' = [session EXCEPT ![s] = r]
          /\ r.at = "owner"
          /\ r.todo = session[s].todo /\ r.failed = session[s].failed
          /\ r.dead = session[s].dead /\ r.parent = session[s].parent /\ r.worker = session[s].worker
    <3> DEFINE r == [session[s] EXCEPT !.at = "owner", !.visit = 0, !.clean = TRUE]
    <3>1. /\ r \in SessionType
            /\ r.at = "owner"
            /\ r.todo = session[s].todo /\ r.failed = session[s].failed
            /\ r.dead = session[s].dead /\ r.parent = session[s].parent /\ r.worker = session[s].worker
      BY <1>1 DEF SessionType, Stages, Early, Visiting, Sweeping, Dropping
    <3>2. session' = [session EXCEPT ![s] = r]
      BY <1>1, <1>3 DEF Moves
    <3> HIDE DEF r
    <3> QED
      BY <3>1, <3>2
  <2>2. PICK parts \in SUBSET Full : /\ disk' = [disk EXCEPT !.folder[s] = parts]
                                     /\ parts = {"folder"}
    BY <1>1, <1>3 DEF LifeOK, TypeInv, DiskType, Full
  <2>3. session[s].todo = {}
    BY <1>1 DEF MakeFolder, SweepOK, StageOK
  <2> QED
    BY <1>1, <1>3, <2>1, <2>2, <2>3, OwnFolder
<1> QED
  BY <1>2, <1>3 DEF MakeFolder, Calls

LEMMA WriteOwnerKeeps ==
  ASSUME OutputInv, NEW s \in Sessions, WriteOwner(s)
  PROVE  OutputInv'
<1>1. /\ session[s].at = "owner" /\ session[s].worker /\ job' = job /\ TypeInv
      /\ session \in [Sessions -> SessionType] /\ session[s] \in SessionType /\ SweepOK(s) /\ LifeOK(s)
  BY DEF WriteOwner, Stands, OutputInv, TypeInv, SessionsOK
<1>2. CASE Fault /\ disk' = disk /\ Moves(s, "broken")
  BY <1>1, <1>2, Breaks
<1>3. CASE /\ Works /\ disk' = [disk EXCEPT !.folder[s] = @ \cup {"owner"}]
           /\ Moves(s, "records")
  <2>1. PICK r \in SessionType :
          /\ session' = [session EXCEPT ![s] = r]
          /\ r.at = "records"
          /\ r.todo = session[s].todo /\ r.failed = session[s].failed
          /\ r.dead = session[s].dead /\ r.parent = session[s].parent /\ r.worker = session[s].worker
    <3> DEFINE r == [session[s] EXCEPT !.at = "records"]
    <3>1. /\ r \in SessionType
            /\ r.at = "records"
            /\ r.todo = session[s].todo /\ r.failed = session[s].failed
            /\ r.dead = session[s].dead /\ r.parent = session[s].parent /\ r.worker = session[s].worker
      BY <1>1, OutputAssumption DEF SessionType, Stages, Early, Visiting, Sweeping, Dropping
    <3>2. session' = [session EXCEPT ![s] = r]
      BY <1>1, <1>3 DEF Moves
    <3> HIDE DEF r
    <3> QED
      BY <3>1, <3>2
  <2>2. PICK parts \in SUBSET Full : /\ disk' = [disk EXCEPT !.folder[s] = parts]
                                     /\ parts = {"folder", "owner"}
    BY ZenonT(60), <1>1, <1>3 DEF LifeOK, TypeInv, DiskType, Full
  <2>3. session[s].todo = {}
    BY <1>1 DEF WriteOwner, SweepOK, StageOK
  <2> QED
    BY <1>1, <1>3, <2>1, <2>2, <2>3, OwnFolder
<1> QED
  BY <1>2, <1>3 DEF WriteOwner, Calls

LEMMA MakeRecordsKeeps ==
  ASSUME OutputInv, NEW s \in Sessions, MakeRecords(s)
  PROVE  OutputInv'
<1>1. /\ session[s].at = "records" /\ session[s].worker /\ job' = job /\ TypeInv
      /\ session \in [Sessions -> SessionType] /\ session[s] \in SessionType /\ SweepOK(s) /\ LifeOK(s)
  BY DEF MakeRecords, Stands, OutputInv, TypeInv, SessionsOK
<1>2. CASE Fault /\ disk' = disk /\ Moves(s, "broken")
  BY <1>1, <1>2, Breaks
<1>3. CASE /\ Works /\ disk' = [disk EXCEPT !.folder[s] = @ \cup {"records"}]
           /\ session' = [session EXCEPT ![s].at = "ready", ![s].dead = {}, ![s].failed = FALSE]
  <2>1. PICK r \in SessionType :
          /\ session' = [session EXCEPT ![s] = r]
          /\ r.at = "ready" /\ r.dead = {} /\ r.todo = session[s].todo
          /\ r.parent = session[s].parent /\ r.worker = session[s].worker
    <3> DEFINE r == [session[s] EXCEPT !.at = "ready", !.dead = {}, !.failed = FALSE]
    <3>1. /\ r \in SessionType
            /\ r.at = "ready" /\ r.dead = {} /\ r.todo = session[s].todo
            /\ r.parent = session[s].parent /\ r.worker = session[s].worker
      BY <1>1, OutputAssumption DEF SessionType, Stages, Early, Visiting, Sweeping, Dropping
    <3>2. session' = [session EXCEPT ![s] = r]
      BY <1>1, <1>3 DEF Moves
    <3> HIDE DEF r
    <3> QED
      BY <3>1, <3>2
  <2>2. PICK parts \in SUBSET Full : /\ disk' = [disk EXCEPT !.folder[s] = parts]
                                     /\ parts = Full
    BY ZenonT(60), <1>1, <1>3 DEF LifeOK, TypeInv, DiskType, Full
  <2>3. session[s].todo = {}
    BY <1>1 DEF MakeRecords, SweepOK, StageOK
  <2> QED
    BY <1>1, <1>3, <2>1, <2>2, <2>3, OwnFolder
<1> QED
  BY <1>2, <1>3 DEF MakeRecords, Calls

-----------------------------------------------------------------------------
(* The end of a session *)

LEMMA Leaves ==
  ASSUME OutputInv, NEW s \in Sessions, session[s].worker, session[s].closed,
         \A d \in JobsOf(s) : job[d].pc \in Settled,
         job' = job, Works \/ Fault, NEW parts \in SUBSET Full, disk' = [disk EXCEPT !.folder[s] = parts],
         NEW r \in SessionType, session' = [session EXCEPT ![s] = r], r.parent = session[s].parent,
         r.todo \subseteq session[s].todo, r.dead \subseteq session[s].dead,
         Records(s) = {} \/ parts = disk.folder[s],
         \/ r.at = "gone" /\ ~r.worker
         \/ r.at \in {"leaving", "left"} /\ r.worker /\ r.closed /\ Records(s) = {}
  PROVE  OutputInv'
<1>1. TypeInv /\ JobsOK /\ LifeOK(s) /\ session \in [Sessions -> SessionType] /\ session[s].at # "off"
  BY DEF OutputInv, TypeInv, SessionsOK, LifeOK
<1>2. /\ disk' \in DiskType /\ disk'.folder[s] = parts
      /\ \A t \in Sessions \ {s} : disk'.folder[t] = disk.folder[t]
      /\ disk'.record = disk.record /\ disk'.temporary = disk.temporary
      /\ disk'.shelf = disk.shelf /\ disk'.foreign = disk.foreign
  BY <1>1, FolderSet
<1>3. \A d \in Downloads : disk'.record[d] # None => disk'.folder[job[d].session] = disk.folder[job[d].session]
  <2> SUFFICES ASSUME NEW d \in Downloads, disk.record[d] # None
               PROVE  disk'.folder[job[d].session] = disk.folder[job[d].session]
    BY <1>2
  <2>1. job[d].session \in Sessions
    BY <1>1 DEF JobsOK, PlaceOK
  <2>2. CASE job[d].session = s
    <3>1. Records(s) # {}
      BY <2>2 DEF Records
    <3> QED
      BY <1>2, <2>2, <3>1
  <2> QED
    BY <1>2, <2>1, <2>2
<1>4. StageOK(r)'
  BY DEF StageOK, Early, Visiting, Sweeping, Dropping
<1>5. SweepOK(s)'
  BY <1>4, Swept
<1>6. session'[s] = r /\ \A t \in Sessions \ {s} : session'[t] = session[t]
  BY <1>1
<1>7. LifeOK(s)'
  <2>1. \A t \in 1..s - 1 : t \in Sessions \ {s} /\ session[t].at # "off"
    BY <1>1, OutputAssumption DEF LifeOK, Sessions
  <2>2. JobsOf(s)' = JobsOf(s) /\ Records(s)' = Records(s)
    BY <1>2 DEF JobsOf, Records
  <2> QED
    BY <1>6, <2>1, <2>2 DEF LifeOK, Early, Visiting, Sweeping, Dropping
<1>8. faults' \in 0..MaxFaults
  BY <1>1, OutputAssumption DEF TypeInv, Works, Fault
<1>9. r.at # "off"
  OBVIOUS
<1> QED
  BY <1>1, <1>2, <1>3, <1>5, <1>7, <1>8, <1>9, SessionChanges

LEMMA Exiting ==
  ASSUME TypeInv, NEW s \in Sessions, Exits(s)
  PROVE  \E r \in SessionType :
           /\ session' = [session EXCEPT ![s] = r] /\ r.at = "gone" /\ ~r.worker /\ r.parent = session[s].parent
           /\ r.todo = {} /\ r.dead = {}
<1> DEFINE r == [NoSession EXCEPT !.parent = session[s].parent, !.at = "gone"]
<1>1. session[s].parent \in BOOLEAN /\ 0 \in 0..MaxSessions
  BY OutputAssumption DEF TypeInv, SessionType
<1>2. r \in SessionType /\ r.at = "gone" /\ ~r.worker /\ r.parent = session[s].parent /\ r.todo = {} /\ r.dead = {}
  BY <1>1 DEF NoSession, SessionType, Stages
<1>3. session' = [session EXCEPT ![s] = r]
  BY DEF Exits
<1> HIDE DEF r
<1> QED
  BY <1>2, <1>3

LEMMA FolderStays ==
  ASSUME TypeInv, NEW s \in Sessions, disk' = disk
  PROVE  disk.folder[s] \in SUBSET Full /\ disk' = [disk EXCEPT !.folder[s] = disk.folder[s]]
BY DEF TypeInv, DiskType

LEMMA Exited ==
  ASSUME OutputInv, NEW s \in Sessions, session[s].worker, session[s].closed,
         \A d \in JobsOf(s) : job[d].pc \in Settled,
         job' = job, Works \/ Fault, disk' = disk, Exits(s)
  PROVE  OutputInv'
<1>1. TypeInv
  BY DEF OutputInv
<1>2. PICK parts \in SUBSET Full : parts = disk.folder[s] /\ disk' = [disk EXCEPT !.folder[s] = parts]
  BY <1>1, FolderStays
<1>3. PICK r \in SessionType :
        /\ session' = [session EXCEPT ![s] = r] /\ r.at = "gone" /\ ~r.worker /\ r.parent = session[s].parent
        /\ r.todo = {} /\ r.dead = {}
  BY <1>1, Exiting
<1> QED
  BY <1>2, <1>3, Leaves

LEMMA CloseRecordsKeeps ==
  ASSUME OutputInv, NEW s \in Sessions, CloseRecords(s)
  PROVE  OutputInv'
<1>1. /\ session[s].worker /\ session[s].closed /\ \A d \in JobsOf(s) : job[d].pc \in Settled
      /\ job' = job /\ TypeInv /\ session \in [Sessions -> SessionType] /\ session[s] \in SessionType
      /\ disk \in DiskType
  BY DEF CloseRecords, Stands, OutputInv, TypeInv, SessionsOK, LifeOK
<1>2. CASE (Works \/ Fault) /\ disk' = disk /\ Exits(s)
  BY <1>1, <1>2, Exited
<1>3. CASE Works /\ disk' = [disk EXCEPT !.folder[s] = @ \ {"records"}] /\ Records(s) = {} /\ Moves(s, "leaving")
  <2>1. PICK r \in SessionType :
          /\ session' = [session EXCEPT ![s] = r]
          /\ r.at = "leaving" /\ r.todo = session[s].todo /\ r.closed = session[s].closed
          /\ r.dead = session[s].dead /\ r.parent = session[s].parent /\ r.worker = session[s].worker
    <3> DEFINE r == [session[s] EXCEPT !.at = "leaving"]
    <3>1. /\ r \in SessionType
            /\ r.at = "leaving" /\ r.todo = session[s].todo /\ r.closed = session[s].closed
            /\ r.dead = session[s].dead /\ r.parent = session[s].parent /\ r.worker = session[s].worker
      BY <1>1 DEF SessionType, Stages, Early, Visiting, Sweeping, Dropping
    <3>2. session' = [session EXCEPT ![s] = r]
      BY <1>1, <1>3 DEF Moves
    <3> HIDE DEF r
    <3> QED
      BY <3>1, <3>2
  <2>2. PICK parts \in SUBSET Full : disk' = [disk EXCEPT !.folder[s] = parts]
    <3>1. /\ disk.folder[s] \ {"records"} \in SUBSET Full
          /\ disk' = [disk EXCEPT !.folder[s] = disk.folder[s] \ {"records"}]
      BY <1>1, <1>3 DEF DiskType
    <3> QED
      BY <3>1
  <2> QED
    BY <1>1, <1>3, <2>1, <2>2, Leaves
<1> QED
  BY <1>1, <1>2, <1>3 DEF CloseRecords, Calls, Works

LEMMA CloseOwnerKeeps ==
  ASSUME OutputInv, NEW s \in Sessions, CloseOwner(s)
  PROVE  OutputInv'
<1>1. /\ session[s].worker /\ session[s].closed /\ \A d \in JobsOf(s) : job[d].pc \in Settled
      /\ job' = job /\ TypeInv /\ session \in [Sessions -> SessionType] /\ session[s] \in SessionType
      /\ disk \in DiskType /\ Records(s) = {}
  BY DEF CloseOwner, Stands, OutputInv, TypeInv, SessionsOK, LifeOK
<1>2. CASE (Works \/ Fault) /\ disk' = disk /\ Exits(s)
  BY <1>1, <1>2, Exited
<1>3. CASE Works /\ disk' = [disk EXCEPT !.folder[s] = @ \ {"owner"}] /\ Records(s) = {} /\ Moves(s, "left")
  <2>1. PICK r \in SessionType :
          /\ session' = [session EXCEPT ![s] = r]
          /\ r.at = "left" /\ r.todo = session[s].todo /\ r.closed = session[s].closed
          /\ r.dead = session[s].dead /\ r.parent = session[s].parent /\ r.worker = session[s].worker
    <3> DEFINE r == [session[s] EXCEPT !.at = "left"]
    <3>1. /\ r \in SessionType
            /\ r.at = "left" /\ r.todo = session[s].todo /\ r.closed = session[s].closed
            /\ r.dead = session[s].dead /\ r.parent = session[s].parent /\ r.worker = session[s].worker
      BY <1>1 DEF SessionType, Stages, Early, Visiting, Sweeping, Dropping
    <3>2. session' = [session EXCEPT ![s] = r]
      BY <1>1, <1>3 DEF Moves
    <3> HIDE DEF r
    <3> QED
      BY <3>1, <3>2
  <2>2. PICK parts \in SUBSET Full : disk' = [disk EXCEPT !.folder[s] = parts]
    <3>1. /\ disk.folder[s] \ {"owner"} \in SUBSET Full
          /\ disk' = [disk EXCEPT !.folder[s] = disk.folder[s] \ {"owner"}]
      BY <1>1, <1>3 DEF DiskType
    <3> QED
      BY <3>1
  <2> QED
    BY <1>1, <1>3, <2>1, <2>2, Leaves
<1> QED
  BY <1>1, <1>2, <1>3 DEF CloseOwner, Calls, Works

LEMMA CloseFolderKeeps ==
  ASSUME OutputInv, NEW s \in Sessions, CloseFolder(s)
  PROVE  OutputInv'
<1>1. /\ session[s].worker /\ session[s].closed /\ \A d \in JobsOf(s) : job[d].pc \in Settled
      /\ job' = job /\ TypeInv /\ session \in [Sessions -> SessionType] /\ session[s] \in SessionType
      /\ disk \in DiskType /\ Records(s) = {}
  BY DEF CloseFolder, Stands, OutputInv, TypeInv, SessionsOK, LifeOK
<1>2. CASE (Works \/ Fault) /\ disk' = disk /\ Exits(s)
  BY <1>1, <1>2, Exited
<1>3. CASE Works /\ disk' = [disk EXCEPT !.folder[s] = {}] /\ Records(s) = {} /\ Exits(s)
  <2>1. PICK r \in SessionType :
          /\ session' = [session EXCEPT ![s] = r] /\ r.at = "gone" /\ ~r.worker /\ r.parent = session[s].parent
          /\ r.todo = {} /\ r.dead = {}
    BY <1>1, <1>3, Exiting
  <2>2. PICK parts \in SUBSET Full : disk' = [disk EXCEPT !.folder[s] = parts]
    BY <1>3
  <2> QED
    BY <1>1, <1>3, <2>1, <2>2, Leaves
<1> QED
  BY <1>1, <1>2, <1>3 DEF CloseFolder, Calls, Works

-----------------------------------------------------------------------------
(* The processes begin and end *)

\* The other sessions, while the disk and what is settled of the runs stay.
LEMMA OthersKept ==
  ASSUME OutputInv, NEW s \in Sessions, disk' = disk, session'[s].at # "off",
         \A t \in Sessions \ {s} : session'[t] = session[t],
         Alive(s)' => Alive(s) \/ session[s].at = "off",
         \A d \in Downloads : /\ job'[d].session = job[d].session
                              /\ job[d].pc \in Settled => job'[d].pc \in Settled
  PROVE  \A t \in Sessions \ {s} : LifeOK(t)' /\ SweepOK(t)'
<1>1. \A t \in Sessions : JobsOf(t)' = JobsOf(t) /\ Records(t)' = Records(t)
  BY DEF JobsOf, Records
<1>2. Quiet
  <2>1. \A t \in Sessions : session[t].at # "off" => session'[t].at # "off"
    OBVIOUS
  <2>2. ASSUME NEW t \in Sessions, session[t].at # "off", ~Alive(t) PROVE ~Alive(t)'
    <3>1. CASE t = s
      BY <2>2, <3>1
    <3>2. CASE t # s
      BY <2>2, <3>2 DEF Alive
    <3> QED
      BY <3>1, <3>2
  <2> QED
    BY <1>1, <2>1, <2>2 DEF Quiet
<1> SUFFICES ASSUME NEW t \in Sessions \ {s} PROVE LifeOK(t)' /\ SweepOK(t)'
  OBVIOUS
<1>3. session[t].at \in {"leaving", "left"} =>
        Records(t)' = {} /\ \A d \in JobsOf(t)' : job'[d].pc \in Settled
  BY <1>1 DEF OutputInv, SessionsOK, LifeOK, JobsOf
<1> QED
  BY <1>2, <1>3, SessionKept DEF OutputInv

LEMMA StartKeeps ==
  ASSUME OutputInv, NEW s \in Sessions, Start(s)
  PROVE  OutputInv'
<1>1. /\ session[s].at = "off" /\ (\A t \in 1..s - 1 : session[t].at # "off")
      /\ job' = job /\ disk' = disk /\ faults' = faults /\ TypeInv /\ JobsOK /\ ShelfOK
      /\ session \in [Sessions -> SessionType] /\ session[s] \in SessionType /\ SweepOK(s) /\ LifeOK(s)
  BY DEF Start, OutputInv, TypeInv, SessionsOK
<1>2. PICK r \in SessionType :
          /\ session' = [session EXCEPT ![s] = r]
          /\ r.at = "listing" /\ r.parent /\ r.worker
          /\ r.todo = session[s].todo /\ r.dead = session[s].dead
  <2> DEFINE r == [session[s] EXCEPT !.parent = TRUE, !.worker = TRUE, !.at = "listing"]
  <2>1. /\ r \in SessionType
            /\ r.at = "listing" /\ r.parent /\ r.worker
            /\ r.todo = session[s].todo /\ r.dead = session[s].dead
      BY <1>1 DEF SessionType, Stages, Early, Visiting, Sweeping, Dropping
  <2>2. session' = [session EXCEPT ![s] = r]
      BY <1>1 DEF Start
  <2> HIDE DEF r
  <2> QED
      BY <2>1, <2>2
<1>3. session'[s] = r /\ \A t \in Sessions \ {s} : session'[t] = session[t]
  BY <1>1, <1>2
<1>4. TypeInv'
  BY <1>1, <1>2 DEF TypeInv
<1>5. JobsOK'
  <2> SUFFICES ASSUME NEW d \in Downloads PROVE PlaceOK(d)' /\ FilesOK(d)'
    BY DEF JobsOK
  <2>1. PlaceOK(d) /\ FilesOK(d) /\ job[d].session \in 0..MaxSessions
    BY <1>1 DEF JobsOK, TypeInv, RunType
  <2>2. job[d].pc \notin Settled => job[d].session \in Sessions \ {s}
    BY <1>1, <2>1, OutputAssumption DEF PlaceOK, Settled, Sessions, LifeOK
  <2>3. job[d].pc \notin Settled => session'[job[d].session] = session[job[d].session]
    BY <1>3, <2>2
  <2>4. PlaceOK(d)'
    BY <1>1, <2>1, <2>3 DEF PlaceOK
  <2>5. FilesOK(d)'
    BY <1>1, <2>1 DEF FilesOK
  <2> QED
    BY <2>4, <2>5
<1>6. SessionsOK'
  <2>1. \A t \in Sessions \ {s} : LifeOK(t)' /\ SweepOK(t)'
    BY <1>1, <1>2, <1>3, OthersKept
  <2>2. LifeOK(s)'
    <3>1. \A t \in 1..s - 1 : t \in Sessions \ {s}
      BY OutputAssumption DEF Sessions
    <3> QED
      BY <1>1, <1>2, <1>3, <3>1 DEF LifeOK, Early, Visiting, Sweeping, Dropping
  <2>3. StageOK(r)'
    BY <1>2 DEF StageOK, Early, Visiting, Sweeping, Dropping
  <2>4. SweepOK(s)'
    BY <1>2, <2>3, Swept
  <2> QED
    BY <2>1, <2>2, <2>4 DEF SessionsOK
<1>7. ShelfOK'
  BY <1>1, ShelfKept
<1> QED
  BY <1>4, <1>5, <1>6, <1>7 DEF OutputInv

\* The main process ends, or asks the other to: the session stays at its stage.
LEMMA ParentMoves ==
  ASSUME OutputInv, NEW s \in Sessions, disk' = disk, faults' \in 0..MaxFaults,
         session[s].at # "off", NEW r \in SessionType, session' = [session EXCEPT ![s] = r],
         r.at = session[s].at, r.worker = session[s].worker, r.parent => session[s].parent,
         session[s].closed => r.closed, r.todo = session[s].todo, r.dead = session[s].dead,
         r.visit = session[s].visit, r.records = session[s].records, r.item = session[s].item,
         r.clean = session[s].clean, r.failed = session[s].failed,
         job' \in [Downloads -> RunType],
         \A d \in Downloads : job'[d].session = job[d].session /\ job'[d].pc = job[d].pc /\ Like(d, job[d])
  PROVE  OutputInv'
<1>1. /\ TypeInv /\ JobsOK /\ ShelfOK /\ session \in [Sessions -> SessionType]
      /\ SweepOK(s) /\ LifeOK(s)
  BY DEF OutputInv, TypeInv, SessionsOK
<1>2. session'[s] = r /\ \A t \in Sessions \ {s} : session'[t] = session[t]
  BY <1>1
<1>3. TypeInv'
  BY <1>1 DEF TypeInv
<1>4. JobsOK'
  <2> SUFFICES ASSUME NEW d \in Downloads PROVE PlaceOK(d)' /\ FilesOK(d)'
    BY DEF JobsOK
  <2>1. PlaceOK(d) /\ FilesOK(d) /\ job[d].session \in 0..MaxSessions
    BY <1>1 DEF JobsOK, TypeInv, RunType
  <2>2. job[d].pc \notin Settled => job[d].session \in Sessions
    BY <2>1, OutputAssumption DEF PlaceOK, Settled, Sessions
  <2>3. job[d].pc \notin Settled => /\ session'[job[d].session].worker <=> session[job[d].session].worker
                                    /\ session'[job[d].session].at = session[job[d].session].at
    BY <1>2, <2>2
  <2>4. PlaceOK(d)'
    BY <2>1, <2>3 DEF PlaceOK
  <2>5. FilesOK(d)'
    BY <2>1 DEF FilesOK, Like
  <2> QED
    BY <2>4, <2>5
<1>5. SessionsOK'
  <2>1. Alive(s)' => Alive(s)
    BY <1>2 DEF Alive
  <2>2. \A t \in Sessions \ {s} : LifeOK(t)' /\ SweepOK(t)'
    BY <1>2, <2>1, OthersKept
  <2>3. \A t : JobsOf(t)' = JobsOf(t) /\ Records(t)' = Records(t)
    BY DEF JobsOf, Records
  <2>4. LifeOK(s)'
    <3>1. \A t \in 1..s - 1 : t \in Sessions \ {s}
      BY OutputAssumption DEF Sessions
    <3>2. session[s].at \in {"leaving", "left"} => \A d \in JobsOf(s)' : job'[d].pc \in Settled
      BY <1>1, <2>3 DEF LifeOK, JobsOf
    <3> QED
      BY <1>1, <1>2, <2>3, <3>1, <3>2 DEF LifeOK
  <2>5. StageOK(r)'
    <3>1. r.at \in Visiting => ~Alive(r.visit)'
      <4> SUFFICES ASSUME r.at \in Visiting PROVE ~Alive(r.visit)'
        OBVIOUS
      <4>1. PICK v \in Sessions \ {s} : v = r.visit /\ ~Alive(v)
        BY Visited
      <4> QED
        BY <1>2, <4>1 DEF Alive
    <3>2. StageOK(session[s])
      BY <1>1 DEF SweepOK
    <3> QED
      BY <2>3, <3>1, <3>2 DEF StageOK, Visiting
  <2>6. SweepOK(s)'
    BY <2>5, Swept
  <2> QED
    BY <2>2, <2>4, <2>6 DEF SessionsOK
<1>6. ShelfOK'
  <2>1. \A d \in Downloads : ShelfMoves(d)
    BY <1>1 DEF ShelfOK, ShelfMoves, ShelfOf, Published, Like
  <2> QED
    BY <1>1, <2>1, ShelfKept
<1> QED
  BY <1>3, <1>4, <1>5, <1>6 DEF OutputInv

LEMMA ParentEndsKeeps ==
  ASSUME OutputInv, NEW s \in Sessions, ParentEnds(s)
  PROVE  OutputInv'
<1>1. /\ session[s].parent /\ job' = job /\ disk' = disk /\ TypeInv /\ JobsOK /\ (Works \/ Fault)
      /\ session \in [Sessions -> SessionType] /\ session[s] \in SessionType /\ LifeOK(s)
  BY DEF ParentEnds, OutputInv, TypeInv, SessionsOK
<1>2. PICK r \in SessionType :
          /\ session' = [session EXCEPT ![s] = r]
          /\ r.at = session[s].at /\ r.worker = session[s].worker
          /\ r.todo = session[s].todo /\ r.dead = session[s].dead /\ r.visit = session[s].visit
          /\ r.records = session[s].records /\ r.item = session[s].item
          /\ r.clean = session[s].clean /\ r.failed = session[s].failed
          /\ ~r.parent /\ r.closed = session[s].closed
  <2> DEFINE r == [session[s] EXCEPT !.parent = FALSE]
  <2>1. /\ r \in SessionType
            /\ r.at = session[s].at /\ r.worker = session[s].worker
            /\ r.todo = session[s].todo /\ r.dead = session[s].dead /\ r.visit = session[s].visit
            /\ r.records = session[s].records /\ r.item = session[s].item
            /\ r.clean = session[s].clean /\ r.failed = session[s].failed
            /\ ~r.parent /\ r.closed = session[s].closed
      BY <1>1 DEF SessionType, Stages, Early, Visiting, Sweeping, Dropping
  <2>2. session' = [session EXCEPT ![s] = r]
      BY <1>1 DEF ParentEnds
  <2> HIDE DEF r
  <2> QED
      BY <2>1, <2>2
<1>3. session[s].at # "off"
  BY <1>1 DEF LifeOK
<1>4. faults' \in 0..MaxFaults
  BY <1>1, OutputAssumption DEF TypeInv, Works, Fault
<1>5. job' \in [Downloads -> RunType] /\ \A d \in Downloads : Like(d, job[d])
  BY <1>1 DEF TypeInv, Like
<1> QED
  BY <1>1, <1>2, <1>3, <1>4, <1>5, ParentMoves

LEMMA CloseKeeps ==
  ASSUME OutputInv, NEW s \in Sessions, Close(s)
  PROVE  OutputInv'
<1>1. /\ session[s].parent /\ disk' = disk /\ faults' = faults /\ TypeInv /\ JobsOK
      /\ session \in [Sessions -> SessionType] /\ session[s] \in SessionType /\ LifeOK(s)
  BY DEF Close, OutputInv, TypeInv, SessionsOK
<1>2. PICK r \in SessionType :
          /\ session' = [session EXCEPT ![s] = r]
          /\ r.at = session[s].at /\ r.worker = session[s].worker
          /\ r.todo = session[s].todo /\ r.dead = session[s].dead /\ r.visit = session[s].visit
          /\ r.records = session[s].records /\ r.item = session[s].item
          /\ r.clean = session[s].clean /\ r.failed = session[s].failed
          /\ r.parent = session[s].parent /\ r.closed
  <2> DEFINE r == [session[s] EXCEPT !.closed = TRUE]
  <2>1. /\ r \in SessionType
            /\ r.at = session[s].at /\ r.worker = session[s].worker
            /\ r.todo = session[s].todo /\ r.dead = session[s].dead /\ r.visit = session[s].visit
            /\ r.records = session[s].records /\ r.item = session[s].item
            /\ r.clean = session[s].clean /\ r.failed = session[s].failed
            /\ r.parent = session[s].parent /\ r.closed
      BY <1>1 DEF SessionType, Stages, Early, Visiting, Sweeping, Dropping
  <2>2. session' = [session EXCEPT ![s] = r]
      BY <1>1 DEF Close
  <2> HIDE DEF r
  <2> QED
      BY <2>1, <2>2
<1>3. session[s].at # "off"
  BY <1>1 DEF LifeOK
<1>4. ASSUME NEW d \in Downloads
      PROVE  /\ job'[d] \in RunType /\ job'[d].session = job[d].session /\ job'[d].pc = job[d].pc
             /\ Like(d, job[d])
  <2>1. job[d] \in RunType
    BY <1>1 DEF TypeInv
  <2>2. job'[d] = job[d] \/ job'[d] = [job[d] EXCEPT !.aborted = TRUE]
    BY DEF Close
  <2> QED
    BY <2>1, <2>2 DEF RunType, Like
<1>5. job' \in [Downloads -> RunType]
  <2>1. job' = [d \in Downloads |-> job'[d]]
    BY DEF Close
  <2> QED
    BY <1>4, <2>1
<1> QED
  BY <1>1, <1>2, <1>3, <1>4, <1>5, ParentMoves DEF TypeInv

LEMMA WorkerDiesKeeps ==
  ASSUME OutputInv, NEW s \in Sessions, WorkerDies(s)
  PROVE  OutputInv'
<1>1. /\ session[s].worker /\ disk' = disk /\ TypeInv /\ JobsOK /\ ShelfOK /\ (Works \/ Fault)
      /\ session \in [Sessions -> SessionType] /\ session[s] \in SessionType /\ LifeOK(s) /\ SweepOK(s)
  BY DEF WorkerDies, OutputInv, TypeInv, SessionsOK
<1>2. PICK r \in SessionType :
        /\ session' = [session EXCEPT ![s] = r] /\ r.at = "gone" /\ ~r.worker /\ r.parent = session[s].parent
        /\ r.todo = {} /\ r.dead = {}
  BY <1>1, Exiting DEF WorkerDies
<1>3. session'[s] = r /\ \A t \in Sessions \ {s} : session'[t] = session[t]
  BY <1>1, <1>2
<1>4. ASSUME NEW d \in Downloads
      PROVE  \/ job'[d] = job[d] /\ (d \in JobsOf(s) => job[d].pc \in Settled)
             \/ /\ job[d].pc \notin Settled /\ job'[d] \in RunType /\ d \in JobsOf(s)
                /\ job'[d].pc = "lost" /\ job'[d].session = s /\ job'[d].result = None
                /\ ~job'[d].sink /\ job'[d].index = 1 /\ job'[d].kind = job[d].kind
  <2>1. job[d] \in RunType /\ 1 \in 1..Names
    BY <1>1, OutputAssumption DEF TypeInv, RunType
  <2>2. CASE d \in JobsOf(s) /\ job[d].pc \notin Settled
    <3>1. job'[d] = Ended(d, "lost", None)
      BY <2>2 DEF WorkerDies
    <3>2. /\ Ended(d, "lost", None) \in RunType /\ Ended(d, "lost", None).pc = "lost"
          /\ Ended(d, "lost", None).session = job[d].session /\ Ended(d, "lost", None).result = None
          /\ ~Ended(d, "lost", None).sink /\ Ended(d, "lost", None).index = 1
          /\ Ended(d, "lost", None).kind = job[d].kind
      BY <2>1 DEF Ended, NoRun, RunType, Pcs
    <3> QED
      BY <2>2, <3>1, <3>2 DEF JobsOf
  <2>3. CASE ~(d \in JobsOf(s) /\ job[d].pc \notin Settled)
    BY <2>3 DEF WorkerDies
  <2> QED
    BY <2>2, <2>3
<1>5. TypeInv'
  <2>1. job' = [d \in Downloads |-> job'[d]]
    BY DEF WorkerDies
  <2>2. \A d \in Downloads : job'[d] \in RunType
    BY <1>1, <1>4 DEF TypeInv
  <2>3. job' \in [Downloads -> RunType]
    BY <2>1, <2>2
  <2>4. faults' \in 0..MaxFaults
    BY <1>1, OutputAssumption DEF TypeInv, Works, Fault
  <2> QED
    BY <1>1, <1>2, <2>3, <2>4 DEF TypeInv
<1>6. JobsOK'
  <2> SUFFICES ASSUME NEW d \in Downloads PROVE PlaceOK(d)' /\ FilesOK(d)'
    BY DEF JobsOK
  <2>1. PlaceOK(d) /\ FilesOK(d) /\ job[d].session \in 0..MaxSessions
    BY <1>1 DEF JobsOK, TypeInv, RunType
  <2>2. CASE job'[d] = job[d] /\ (d \in JobsOf(s) => job[d].pc \in Settled)
    <3>1. job[d].pc \notin Settled => job[d].session \in Sessions \ {s}
      BY <2>1, <2>2, OutputAssumption DEF PlaceOK, Settled, Sessions, JobsOf
    <3>2. job[d].pc \notin Settled => session'[job[d].session] = session[job[d].session]
      BY <1>3, <3>1
    <3>3. PlaceOK(d)'
      BY <1>1, <2>1, <2>2, <3>2 DEF PlaceOK
    <3>4. FilesOK(d)'
      BY <1>1, <2>1, <2>2 DEF FilesOK
    <3> QED
      BY <3>3, <3>4
  <2>3. CASE /\ job[d].pc \notin Settled /\ d \in JobsOf(s)
             /\ job'[d].pc = "lost" /\ job'[d].session = s /\ job'[d].result = None /\ ~job'[d].sink
    <3>1. job[d].session = s /\ s # 0
      BY <2>3, OutputAssumption DEF JobsOf, Sessions
    <3>2. PlaceOK(d)'
      BY <1>1, <2>1, <2>3, <3>1 DEF PlaceOK, Settled
    <3>3. FilesOK(d)'
      BY <1>1, <2>1, <2>3 DEF FilesOK, Writing
    <3> QED
      BY <3>2, <3>3
  <2> QED
    BY <1>4, <2>2, <2>3
<1>7. SessionsOK'
  <2>1. \A d \in Downloads : /\ job'[d].session = job[d].session
                             /\ job[d].pc \in Settled => job'[d].pc \in Settled
    BY <1>4 DEF JobsOf
  <2>2. \A t \in Sessions \ {s} : LifeOK(t)' /\ SweepOK(t)'
    <3>1. Alive(s)' => Alive(s)
      BY <1>1 DEF Alive
    <3> QED
      BY <1>1, <1>2, <1>3, <2>1, <3>1, OthersKept
  <2>3. LifeOK(s)'
    <3>1. \A t \in 1..s - 1 : t \in Sessions \ {s} /\ session[t].at # "off"
      BY <1>1, OutputAssumption DEF LifeOK, Sessions
    <3> QED
      BY <1>2, <1>3, <3>1 DEF LifeOK, Early, Visiting, Sweeping, Dropping
  <2>4. StageOK(r)'
    BY <1>2 DEF StageOK, Early, Visiting, Sweeping, Dropping
  <2>5. SweepOK(s)'
    BY <1>2, <2>4, Swept
  <2> QED
    BY <2>2, <2>3, <2>5 DEF SessionsOK
<1>8. ShelfOK'
  <2>1. ASSUME NEW d \in Downloads PROVE ShelfMoves(d) \/ job'[d] = job[d]
    <3>1. CASE /\ job[d].pc \notin Settled /\ job'[d].pc = "lost" /\ job'[d].result = None
               /\ job'[d].index = 1 /\ job'[d].kind = job[d].kind
      BY <1>1, <3>1 DEF ShelfMoves, Published, Settled, Late, None
    <3> QED
      BY <1>4, <3>1
  <2> QED
    BY <1>1, <2>1, ShelfKept
<1> QED
  BY <1>5, <1>6, <1>7, <1>8 DEF OutputInv

-----------------------------------------------------------------------------
-----------------------------------------------------------------------------
(* The theorems *)

(***************************************************************************)
(* The journal, the sweep and the shelf stay consistent, whichever calls   *)
(* of the file system fail and whenever a process dies.                    *)
(***************************************************************************)
THEOREM OutputInvariance == Spec => []OutputInv
<1>1. Init => OutputInv
  <2> SUFFICES ASSUME Init PROVE OutputInv
    OBVIOUS
  <2>1. Downloads = {} \/ 1 \in 1..Names
    <3>1. Downloads # {} => Cardinality(Downloads) >= 1
      <4>1. Cardinality(Downloads) \in Nat /\ (Cardinality(Downloads) = 0 => Downloads = {})
        BY OutputAssumption, FS_CardinalityType, FS_EmptySet
      <4> QED
        BY <4>1
    <3>2. Cardinality(Downloads) \in Nat
      BY OutputAssumption, FS_CardinalityType
    <3> QED
      BY <3>1, <3>2, OutputAssumption
  <2>2. \A d \in Downloads : NoRun \in RunType
    BY <2>1, OutputAssumption DEF NoRun, RunType, Pcs, Kinds
  <2>3. NoSession \in SessionType
    BY OutputAssumption DEF NoSession, SessionType, Stages
  <2>4. /\ \A d \in Downloads : job[d] = NoRun /\ disk.record[d] = None /\ disk.temporary[d] = Absent
        /\ \A s \in Sessions : session[s] = NoSession /\ disk.folder[s] = {}
        /\ \A n \in 1..Names : disk.shelf[n] = NoFile
        /\ disk.foreign = {}
    BY DEF Init
  <2>5. TypeInv
    <3>1. disk \in DiskType
      BY OutputAssumption DEF Init, DiskType, File, NoFile
    <3>2. faults \in 0..MaxFaults
      BY OutputAssumption DEF Init
    <3> QED
      BY <2>2, <2>3, <3>1, <3>2 DEF TypeInv, Init
  <2>6. JobsOK
    BY <2>4 DEF JobsOK, PlaceOK, FilesOK, NoRun, Settled, Writing
  <2>7. SessionsOK
    BY <2>4 DEF SessionsOK, LifeOK, SweepOK, StageOK, NoSession, Early, Visiting, Sweeping, Dropping
  <2>8. ShelfOK
    <3>1. \A d \in Downloads : Holds(d) = {} /\ ~Published(d)
      BY <2>4, OutsiderAssumption DEF Holds, Published, NoFile, NoRun, None
    <3>2. \A d \in Downloads : ShelfOf(d)
      BY <2>4, <3>1 DEF ShelfOf, NoRun
    <3>3. ForeignOK
      BY <2>4, OutputAssumption, FS_EmptySet DEF ForeignOK, NoFile, None, Foreign
    <3> QED
      BY <3>2, <3>3 DEF ShelfOK
  <2> QED
    BY <2>5, <2>6, <2>7, <2>8 DEF OutputInv
<1>2. OutputInv /\ [Next]_vars => OutputInv'
  <2> SUFFICES ASSUME OutputInv, [Next]_vars PROVE OutputInv'
    OBVIOUS
  <2>1. ASSUME NEW d \in Downloads, NEW s \in Sessions, Run(d, s) PROVE OutputInv'
    BY <2>1, RunKeeps
  <2>2. ASSUME NEW d \in Downloads, Cancel(d) PROVE OutputInv'
    BY <2>2, CancelKeeps
  <2>3. ASSUME NEW d \in Downloads, ReaderStep(d) \/ RunStep(d) PROVE OutputInv'
    BY <2>3, StageKeeps
  <2>4. ASSUME NEW s \in Sessions, Start(s) PROVE OutputInv'
    BY <2>4, StartKeeps
  <2>5. ASSUME NEW s \in Sessions, SessionStep(s) PROVE OutputInv'
    BY <2>5, ListSessionsKeeps, ReadOwnerKeeps, ListRecordsKeeps, ReadRecordKeeps, RemoveTemporaryKeeps,
       RemoveRecordKeeps, SweepEndsKeeps, RemoveRecordsKeeps, RemoveOwnerKeeps, RemoveFolderKeeps,
       MakeFolderKeeps, WriteOwnerKeeps, MakeRecordsKeeps, CloseRecordsKeeps, CloseOwnerKeeps, CloseFolderKeeps
    DEF SessionStep
  <2>6. ASSUME NEW s \in Sessions, Close(s) PROVE OutputInv'
    BY <2>6, CloseKeeps
  <2>7. ASSUME NEW s \in Sessions, WorkerDies(s) PROVE OutputInv'
    BY <2>7, WorkerDiesKeeps
  <2>8. ASSUME NEW s \in Sessions, ParentEnds(s) PROVE OutputInv'
    BY <2>8, ParentEndsKeeps
  <2>9. ASSUME NEW n \in 1..Names, FileAppears(n) PROVE OutputInv'
    BY <2>9, FileAppearsKeeps
  <2>10. ASSUME UNCHANGED vars PROVE OutputInv'
    BY SMTT(40), <2>10 DEF vars, OutputInv, TypeInv, JobsOK, PlaceOK, FilesOK, SessionsOK, LifeOK, SweepOK, StageOK,
       Records, JobsOf, Alive, ShelfOK, ShelfOf, ForeignOK, Holds, Replaced, Published
  <2> QED
    BY <2>1, <2>2, <2>3, <2>4, <2>5, <2>6, <2>7, <2>8, <2>9, <2>10 DEF Next
<1> QED
  BY <1>1, <1>2, PTL DEF Spec

(***************************************************************************)
(* No crash strands a file: whatever is on the disk of a download that is  *)
(* not published has a whole record in a folder that a later start can     *)
(* read, and nothing takes the file that a live run is writing.            *)
(***************************************************************************)
THEOREM OutputTracked == Spec => []OutputIsTracked
<1>1. OutputInv => OutputIsTracked
  <2> SUFFICES ASSUME OutputInv PROVE OutputIsTracked
    OBVIOUS
  <2>1. /\ \A d \in Downloads : job[d] \in RunType /\ PlaceOK(d) /\ FilesOK(d)
        /\ \A s \in Sessions : session[s] \in SessionType /\ SweepOK(s)
        /\ disk \in DiskType /\ faults \in 0..MaxFaults
    BY DEF OutputInv, TypeInv, JobsOK, SessionsOK
  <2>2. TypeOK
    <3>1. ASSUME NEW d \in Downloads
          PROVE  /\ job[d].session \in 0..MaxSessions /\ job[d].kind \in Kinds
                 /\ job[d].index \in 1..Names /\ job[d].result \in Results \cup {None}
                 /\ job[d].why \in {None, "cancelled", "other", "publish"}
                 /\ {job[d].aborted, job[d].reader, job[d].sink, job[d].unclean} \subseteq BOOLEAN
                 /\ disk.record[d] \in {None, "torn", "whole"}
                 /\ disk.temporary[d] \in {Absent} \cup 0..Length
      BY <2>1 DEF RunType, DiskType
    <3>2. ASSUME NEW s \in Sessions
          PROVE  /\ session[s].todo \cup session[s].dead \subseteq Sessions \ {s}
                 /\ session[s].visit \in 0..MaxSessions /\ session[s].records \subseteq Downloads
                 /\ disk.folder[s] \subseteq {"folder", "owner", "records"}
      BY <2>1 DEF SessionType, DiskType, Full, SweepOK
    <3> QED
      BY <2>1, <3>1, <3>2 DEF TypeOK
  <2>3. ASSUME NEW d \in Downloads
        PROVE  /\ disk.temporary[d] # Absent =>
                    disk.record[d] = "whole" /\ disk.folder[job[d].session] = {"folder", "owner", "records"}
               /\ job[d].pc \in Writing => disk.temporary[d] # Absent
    BY <2>1 DEF PlaceOK, FilesOK, Full, None
  <2> QED
    BY <2>2, <2>3 DEF OutputIsTracked
<1> QED
  BY <1>1, OutputInvariance, PTL

(***************************************************************************)
(* A start that reports no failure has cleared what the sessions left that *)
(* were dead when it began, with any number of other starts beside it.     *)
(***************************************************************************)
THEOREM RecoveryHonest == Spec => []RecoveryIsHonest
<1>1. OutputInv => RecoveryIsHonest
  <2> SUFFICES ASSUME OutputInv, NEW s \in Sessions, session[s].at \in {"owner", "records"}, ~session[s].failed,
                      NEW d \in Downloads, job[d].session \in session[s].dead
               PROVE  disk.temporary[d] = Absent /\ disk.record[d] = None
    BY DEF RecoveryIsHonest
  <2>1. SweepOK(s) /\ FilesOK(d)
    BY DEF OutputInv, SessionsOK, JobsOK
  <2>2. Records(job[d].session) = {}
    BY <2>1 DEF SweepOK, StageOK
  <2>3. disk.record[d] = None
    BY <2>2 DEF Records
  <2> QED
    BY <2>1, <2>3 DEF FilesOK, None
<1> QED
  BY <1>1, OutputInvariance, PTL

(***************************************************************************)
(* A run says "saved" exactly when its whole file reached its destination, *)
(* once, and no file of another is replaced unless a user confirmed it.    *)
(***************************************************************************)
THEOREM ResultHonest == Spec => []ResultIsHonest
<1>1. OutputInv => ResultIsHonest
  <2> SUFFICES ASSUME OutputInv PROVE ResultIsHonest
    OBVIOUS
  <2>1. ForeignOK /\ \A d \in Downloads : ShelfOf(d) /\ FilesOK(d)
    BY DEF OutputInv, ShelfOK, JobsOK
  <2>2. ASSUME NEW d \in Downloads
        PROVE  /\ \A n \in Holds(d) : disk.shelf[n].bytes = Length
               /\ job[d].result = "saved" => Holds(d) # {} \/ Replaced(d)
               /\ job[d].result \in {"cancelled", "failed", "unclean"} => Holds(d) = {}
               /\ Cardinality(Holds(d)) <= 1
    <3>1. job[d].result \in {"cancelled", "failed", "unclean"} => ~Published(d) /\ job[d].pc # "lost"
      BY <2>1 DEF FilesOK, Published, None
    <3>2. Holds(d) = {} \/ \E n : Holds(d) = {n}
      BY <2>1 DEF ShelfOf
    <3>3. Cardinality(Holds(d)) <= 1
      <4>1. CASE Holds(d) = {}
        BY <4>1, FS_EmptySet
      <4>2. CASE \E n : Holds(d) = {n}
        BY <4>2, FS_Singleton
      <4> QED
        BY <3>2, <4>1, <4>2
    <3> QED
      BY <2>1, <3>1, <3>3 DEF ShelfOf, Published
  <2>3. \A n \in disk.foreign : disk.shelf[n].by = Foreign \/ (n = 1 /\ Replaced(Foreign))
    BY <2>1 DEF ForeignOK
  <2> QED
    BY <2>2, <2>3 DEF ResultIsHonest, Holds, Replaced
<1> QED
  BY <1>1, OutputInvariance, PTL

=============================================================================
