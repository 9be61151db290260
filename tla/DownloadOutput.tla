-------------------------- MODULE DownloadOutput --------------------------
(***************************************************************************)
(* The files of a download: executeDownload() of printer-control, the      *)
(* file sink with its journal, and the executor of the utility process,    *)
(* with the crashes its journal is written for.                            *)
(*                                                                         *)
(* A session is one run of the application: its main process (the parent)  *)
(* starts one utility process (the worker), which opens a folder of        *)
(* records in the journal and first sweeps the folders whose two processes *)
(* are gone.  A step is what happens up to an await; a call to the file    *)
(* system may fail, and either process may die, at any of them.            *)
(*                                                                         *)
(* A download writes a temporary file beside its destination and publishes *)
(* it by a link or a rename.  The bytes are the number of chunks.  Process *)
(* numbers that are used again make a dead owner look alive, which only    *)
(* puts its sweep off, and are left out.                                   *)
(***************************************************************************)
EXTENDS Integers, FiniteSets

CONSTANTS
  Downloads,     \* identities of runs
  MaxSessions,   \* bound: runs of the application
  Names,         \* bound: the numbered names of the one file name asked for
  Length,        \* chunks of the file
  MaxFaults,     \* bound: crashes and failing calls
  MaxForeign     \* bound: files that appear at a destination by another hand

\* There is a free name for every run, as there always is in the code.
ASSUME OutputAssumption ==
  /\ {MaxSessions, Names, Length, MaxFaults, MaxForeign} \subseteq Nat
  /\ IsFiniteSet(Downloads) /\ Names >= Cardinality(Downloads) + MaxForeign

VARIABLES
  job,      \* the runs
  session,  \* the sessions and their sweep
  disk,     \* what survives a crash
  faults    \* faults so far

vars == <<job, session, disk, faults>>

Sessions == 1..MaxSessions
None == "none"
Foreign == "foreign"

ASSUME OutsiderAssumption == {None, Foreign} \cap Downloads = {}

Kinds == {"directory", "fresh", "confirmed"}
Results == {"saved", "cancelled", "failed", "unclean"}

NoRun == [pc |-> "idle", session |-> 0, kind |-> "directory", aborted |-> FALSE,
          reader |-> FALSE, sink |-> FALSE, index |-> 1, why |-> None, unclean |-> FALSE,
          result |-> None]
NoSession == [parent |-> FALSE, worker |-> FALSE, at |-> "off", closed |-> FALSE, todo |-> {},
              visit |-> 0, records |-> {}, item |-> None, clean |-> TRUE, failed |-> FALSE,
              dead |-> {}]
NoFile == [by |-> None, bytes |-> 0]
Absent == -1      \* no temporary file; otherwise its length

Init ==
  /\ job = [d \in Downloads |-> NoRun]
  /\ session = [s \in Sessions |-> NoSession]
  /\ disk = [record |-> [d \in Downloads |-> None], temporary |-> [d \in Downloads |-> Absent],
             folder |-> [s \in Sessions |-> {}], shelf |-> [n \in 1..Names |-> NoFile],
             foreign |-> {}]
  /\ faults = 0

Fault == faults < MaxFaults /\ faults' = faults + 1
Works == UNCHANGED faults

\* A call to the file system: it changes the disk and its caller goes on, or it fails.
Calls(onDisk, goesOn, fails) ==
  \/ Works /\ disk' = onDisk /\ goesOn
  \/ Fault /\ UNCHANGED disk /\ fails

\* The folder of a session has its three parts: itself, owner.json and records/.
Records(s) == {d \in Downloads : job[d].session = s /\ disk.record[d] # None}

-----------------------------------------------------------------------------
(* executeDownload() *)

Settled == {"idle", "done", "lost"}

\* What is left of a run that has ended.
Ended(d, pc, result) ==
  [NoRun EXCEPT !.pc = pc, !.session = job[d].session, !.kind = job[d].kind, !.result = result]
Finishes(d, result) == job' = [job EXCEPT ![d] = Ended(d, "done", result)]

At(d, pc) == job[d].pc = pc /\ session[job[d].session].worker
Goes(d, pc) == job' = [job EXCEPT ![d].pc = pc]
Throws(d, why) == job' = [job EXCEPT ![d].pc = "joining", ![d].why = why]

\* checkCancelled() before the next stage.
Unless(run, pc) == IF run.aborted THEN [run EXCEPT !.pc = "joining", !.why = "cancelled"]
                   ELSE [run EXCEPT !.pc = pc]
GoesUnlessAborted(d, pc) == job' = [job EXCEPT ![d] = Unless(@, pc)]

\* run(): accepted while the executor is open and its journal is being opened or is.
Run(d, s) ==
  /\ job[d].pc = "idle"
  /\ session[s].worker /\ ~session[s].closed
  /\ job' = [job EXCEPT ![d].pc = "waiting", ![d].session = s]
  /\ UNCHANGED <<session, disk, faults>>

\* cancel()
Cancel(d) ==
  /\ job[d].pc \notin Settled /\ ~job[d].aborted
  /\ job' = [job EXCEPT ![d].aborted = TRUE]
  /\ UNCHANGED <<session, disk, faults>>

\* Mutant: a journal that cannot be opened is waited for.
JournalAwaited_OnlyReady(d) ==
  /\ At(d, "waiting") /\ session[job[d].session].at = "ready"
  /\ GoesUnlessAborted(d, "opening")
  /\ UNCHANGED <<session, disk, faults>>

\* The journal is open, or could not be opened.
JournalAwaited(d) ==
  /\ At(d, "waiting") /\ session[job[d].session].at \in {"ready", "broken"}
  /\ IF session[job[d].session].at = "broken"
     THEN Finishes(d, "failed")
     ELSE GoesUnlessAborted(d, "opening")
  /\ UNCHANGED <<session, disk, faults>>

\* The reader opens, or is refused; a file that is not the selected one is an error too.
ReaderOpens(d) ==
  /\ At(d, "opening")
  /\ \/ Throws(d, "other")
     \/ job' = [job EXCEPT ![d] = Unless([@ EXCEPT !.reader = TRUE], "recording")]
     \/ job' = [job EXCEPT ![d].reader = TRUE, ![d].pc = "joining", ![d].why = "other"]
  /\ UNCHANGED <<session, disk, faults>>

\* createDownloadFileSink(): the record is opened, written and synchronised before the
\* temporary file exists.
OpenRecord(d) ==
  /\ At(d, "recording")
  /\ Calls([disk EXCEPT !.record[d] = "torn"], Goes(d, "describing"), Throws(d, "other"))
  /\ UNCHANGED session

WriteRecord(d) ==
  /\ At(d, "describing")
  /\ Calls([disk EXCEPT !.record[d] = "whole"], Goes(d, "creating"), Goes(d, "undoing"))
  /\ UNCHANGED session

CreateTemporary(d) ==
  /\ At(d, "creating")
  /\ Calls([disk EXCEPT !.temporary[d] = 0],
           job' = [job EXCEPT ![d] = Unless([@ EXCEPT !.sink = TRUE], "reading")],
           Goes(d, "undoing"))
  /\ UNCHANGED session

\* A rejected creation takes its record back, if it can.
UndoRecord(d) ==
  /\ At(d, "undoing")
  /\ Calls([disk EXCEPT !.record[d] = None], Throws(d, "other"), Throws(d, "other"))
  /\ UNCHANGED session

\* Mutant: the declared length is not compared.
NextChunk_AnyLength(d) ==
  /\ At(d, "reading")
  /\ \/ Throws(d, "other")
     \/ disk.temporary[d] < Length /\ GoesUnlessAborted(d, "writing")
     \/ GoesUnlessAborted(d, "returning")
  /\ UNCHANGED <<session, disk, faults>>

\* next() of the reader: a chunk, the end, an end before the declared length, or an error.
NextChunk(d) ==
  /\ At(d, "reading")
  /\ \/ Throws(d, "other")
     \/ disk.temporary[d] < Length /\ GoesUnlessAborted(d, "writing")
     \/ disk.temporary[d] = Length /\ GoesUnlessAborted(d, "returning")
  /\ UNCHANGED <<session, disk, faults>>

WriteChunk(d) ==
  /\ At(d, "writing")
  /\ Calls([disk EXCEPT !.temporary[d] = @ + 1], GoesUnlessAborted(d, "reading"), Throws(d, "other"))
  /\ UNCHANGED session

\* The reader releases what it holds before anything is published.
ReturnReader(d) ==
  /\ At(d, "returning")
  /\ \/ Throws(d, "other")
     \/ job' = [job EXCEPT ![d] = Unless([@ EXCEPT !.reader = FALSE], "syncing")]
  /\ UNCHANGED <<session, disk, faults>>

\* publish(): synchronises and closes the temporary file, and looks at the kind of the
\* destination, which came with the request,
SyncTemporary(d) ==
  /\ At(d, "syncing")
  /\ Calls(disk, \E kind \in Kinds : job' = [job EXCEPT ![d].pc = "linking", ![d].kind = kind],
           Throws(d, "publish"))
  /\ UNCHANGED session

\* renames it onto a confirmed file,
RenameTemporary(d) ==
  /\ At(d, "linking") /\ job[d].kind = "confirmed"
  /\ Calls([disk EXCEPT !.shelf[1] = [by |-> d, bytes |-> disk.temporary[d]], !.temporary[d] = Absent],
           Goes(d, "dropping"), Throws(d, "publish"))
  /\ UNCHANGED session

\* or links it to the first free name, the only one if the file was chosen.
LinkTemporary(d) ==
  /\ At(d, "linking") /\ job[d].kind # "confirmed"
  /\ LET n == job[d].index
     IN  IF disk.shelf[n] = NoFile
         THEN Calls([disk EXCEPT !.shelf[n] = [by |-> d, bytes |-> disk.temporary[d]]],
                    Goes(d, "dropping"), Throws(d, "publish"))
         ELSE /\ IF job[d].kind = "fresh" THEN Throws(d, "publish")
                 ELSE job' = [job EXCEPT ![d].index = n + 1]
              /\ UNCHANGED <<disk, faults>>
  /\ UNCHANGED session

\* Past the commit point a failing cleanup leaves the file saved.
DropTemporary(d) ==
  /\ At(d, "dropping")
  /\ Calls([disk EXCEPT !.temporary[d] = Absent], Goes(d, "forgetting"), Finishes(d, "saved"))
  /\ UNCHANGED session

ForgetRecord(d) ==
  /\ At(d, "forgetting")
  /\ Calls([disk EXCEPT !.record[d] = None], Finishes(d, "saved"), Finishes(d, "saved"))
  /\ UNCHANGED session

\* The result of a run that did not save.
Ends(d, unclean) ==
  Finishes(d, IF unclean THEN "unclean"
              ELSE IF job[d].why = "cancelled" \/ (job[d].aborted /\ job[d].why # "publish")
              THEN "cancelled" ELSE "failed")

\* The catch clause returns the reader, then discards the output.
JoinReader(d) ==
  /\ At(d, "joining")
  /\ \E unclean \in {FALSE, job[d].reader} :
       IF job[d].sink
       THEN job' = [job EXCEPT ![d].pc = "discarding", ![d].reader = FALSE, ![d].unclean = unclean]
       ELSE Ends(d, unclean)
  /\ UNCHANGED <<session, disk, faults>>

\* discard(): closes and removes the temporary file, then the record.
DiscardTemporary(d) ==
  /\ At(d, "discarding")
  /\ Calls([disk EXCEPT !.temporary[d] = Absent], Goes(d, "erasing"), Ends(d, TRUE))
  /\ UNCHANGED session

DiscardRecord(d) ==
  /\ At(d, "erasing")
  /\ Calls([disk EXCEPT !.record[d] = None], Ends(d, job[d].unclean), Ends(d, TRUE))
  /\ UNCHANGED session

RunStep(d) ==
  \/ JournalAwaited(d)
  \/ OpenRecord(d) \/ WriteRecord(d) \/ CreateTemporary(d) \/ UndoRecord(d)
  \/ WriteChunk(d) \/ ReturnReader(d)
  \/ SyncTemporary(d) \/ RenameTemporary(d) \/ LinkTemporary(d)
  \/ DropTemporary(d) \/ ForgetRecord(d)
  \/ JoinReader(d) \/ DiscardTemporary(d) \/ DiscardRecord(d)

ReaderStep(d) == ReaderOpens(d) \/ NextChunk(d)

-----------------------------------------------------------------------------
(* openDownloadJournal() and recoverInterruptedDownloads() *)

Stands(s, at) == session[s].worker /\ session[s].at = at
Moves(s, at) == session' = [session EXCEPT ![s].at = at]
Alive(t) == session[t].parent \/ session[t].worker

\* The application starts its utility process; several may share the journal.
Start(s) ==
  /\ session[s].at = "off" /\ \A t \in 1..s - 1 : session[t].at # "off"
  /\ session' = [session EXCEPT ![s].parent = TRUE, ![s].worker = TRUE, ![s].at = "listing"]
  /\ UNCHANGED <<job, disk, faults>>

ListSessions(s) ==
  /\ Stands(s, "listing")
  /\ Calls(disk, session' = [session EXCEPT
                    ![s].at = "visiting",
                    ![s].todo = {t \in Sessions : disk.folder[t] # {}},
                    ![s].dead = {t \in 1..s - 1 : ~Alive(t)}],
           Moves(s, "broken"))
  /\ UNCHANGED job

\* A folder that cannot be swept stays, and is counted.
Skips(s, t) == session' = [session EXCEPT ![s].todo = @ \ {t}, ![s].failed = TRUE, ![s].at = "visiting"]

Inspects(s, t) == session' = [session EXCEPT ![s].visit = t, ![s].at = "inspecting"]

\* Mutant: only the main process is asked after.
ReadOwner_ParentOnly(s, t) ==
  /\ Stands(s, "visiting") /\ t \in session[s].todo
  /\ Calls(disk, IF "owner" \notin disk.folder[t] THEN Skips(s, t)
                 ELSE IF session[t].parent THEN session' = [session EXCEPT ![s].todo = @ \ {t}]
                 ELSE Inspects(s, t),
           Skips(s, t))
  /\ UNCHANGED job

\* A folder is swept when both its owners are gone.  One without its owner.json, for a
\* crash came before it was written or after it was removed, is an error at every start.
ReadOwner(s, t) ==
  /\ Stands(s, "visiting") /\ t \in session[s].todo
  /\ Calls(disk, IF "owner" \notin disk.folder[t] THEN Skips(s, t)
                 ELSE IF Alive(t) THEN session' = [session EXCEPT ![s].todo = @ \ {t}]
                 ELSE Inspects(s, t),
           Skips(s, t))
  /\ UNCHANGED job

ListRecords(s) ==
  /\ Stands(s, "inspecting")
  /\ Calls(disk, session' = [session EXCEPT ![s].at = "sweeping", ![s].clean = TRUE,
                                            ![s].records = Records(session[s].visit)],
           Skips(s, session[s].visit))
  /\ UNCHANGED job

\* The next record: one that is torn, or that another start has removed, is a failure.
ReadRecord(s, d) ==
  /\ Stands(s, "sweeping") /\ d \in session[s].records
  /\ LET spoilt == session' = [session EXCEPT ![s].records = @ \ {d}, ![s].clean = FALSE]
     IN  Calls(disk, IF disk.record[d] # "whole" THEN spoilt
                     ELSE session' = [session EXCEPT ![s].records = @ \ {d}, ![s].item = d,
                                                     ![s].at = "removing"],
               spoilt)
  /\ UNCHANGED job

NextRecord(s, clean) ==
  session' = [session EXCEPT ![s].item = None, ![s].at = "sweeping", ![s].clean = @ /\ clean]

RemoveTemporary(s) ==
  /\ Stands(s, "removing")
  /\ Calls([disk EXCEPT !.temporary[session[s].item] = Absent],
           Moves(s, "erasing"), NextRecord(s, FALSE))
  /\ UNCHANGED job

RemoveRecord(s) ==
  /\ Stands(s, "erasing")
  /\ Calls([disk EXCEPT !.record[session[s].item] = None], NextRecord(s, TRUE), NextRecord(s, FALSE))
  /\ UNCHANGED job

\* Mutant: the failures of a folder's records are not added to the report.
SweepEnds_Uncounted(s) ==
  /\ Stands(s, "sweeping") /\ session[s].records = {}
  /\ IF session[s].clean THEN Moves(s, "emptying")
     ELSE session' = [session EXCEPT ![s].todo = @ \ {session[s].visit}, ![s].at = "visiting"]
  /\ UNCHANGED <<job, disk, faults>>

\* The folder goes part by part when nothing in it failed.
SweepEnds(s) ==
  /\ Stands(s, "sweeping") /\ session[s].records = {}
  /\ IF session[s].clean THEN Moves(s, "emptying") ELSE Skips(s, session[s].visit)
  /\ UNCHANGED <<job, disk, faults>>

\* rmdir of records/, which a clean sweep has emptied.
RemoveRecords(s) ==
  /\ Stands(s, "emptying")
  /\ Calls([disk EXCEPT !.folder[session[s].visit] = @ \ {"records"}],
           Moves(s, "disowning"), Skips(s, session[s].visit))
  /\ UNCHANGED job

RemoveOwner(s) ==
  /\ Stands(s, "disowning")
  /\ Calls([disk EXCEPT !.folder[session[s].visit] = @ \ {"owner"}],
           Moves(s, "unfolding"), Skips(s, session[s].visit))
  /\ UNCHANGED job

\* A folder that another start has removed is an error.
RemoveFolder(s) ==
  /\ Stands(s, "unfolding")
  /\ LET t == session[s].visit
     IN  Calls([disk EXCEPT !.folder[t] = {}],
               IF disk.folder[t] = {} THEN Skips(s, t)
               ELSE session' = [session EXCEPT ![s].todo = @ \ {t}, ![s].at = "visiting"],
               Skips(s, t))
  /\ UNCHANGED job

\* The session then makes its own folder.
MakeFolder(s) ==
  /\ Stands(s, "visiting") /\ session[s].todo = {}
  /\ Calls([disk EXCEPT !.folder[s] = {"folder"}],
           session' = [session EXCEPT ![s].at = "owner", ![s].visit = 0, ![s].clean = TRUE],
           Moves(s, "broken"))
  /\ UNCHANGED job

WriteOwner(s) ==
  /\ Stands(s, "owner")
  /\ Calls([disk EXCEPT !.folder[s] = @ \cup {"owner"}], Moves(s, "records"), Moves(s, "broken"))
  /\ UNCHANGED job

\* The recovery is reported with the open journal.
MakeRecords(s) ==
  /\ Stands(s, "records")
  /\ Calls([disk EXCEPT !.folder[s] = @ \cup {"records"}],
           session' = [session EXCEPT ![s].at = "ready", ![s].dead = {}, ![s].failed = FALSE],
           Moves(s, "broken"))
  /\ UNCHANGED job

-----------------------------------------------------------------------------
(* close() and the ends of the processes *)

JobsOf(s) == {d \in Downloads : job[d].session = s}

\* The main process asks its utility process to shut down, which aborts the runs,
Close(s) ==
  /\ session[s].parent /\ session[s].worker /\ ~session[s].closed
  /\ session' = [session EXCEPT ![s].closed = TRUE]
  /\ job' = [d \in Downloads |->
               IF d \in JobsOf(s) /\ job[d].pc \notin Settled
               THEN [job[d] EXCEPT !.aborted = TRUE] ELSE job[d]]
  /\ UNCHANGED <<disk, faults>>

Exits(s) == session' = [session EXCEPT ![s] = [NoSession EXCEPT !.parent = session[s].parent, !.at = "gone"]]

\* joins them, and removes its folder unless a record is left in it.
CloseRecords(s) ==
  /\ session[s].closed /\ \A d \in JobsOf(s) : job[d].pc \in Settled
  /\ IF Stands(s, "ready") /\ Records(s) = {}
     THEN Calls([disk EXCEPT !.folder[s] = @ \ {"records"}], Moves(s, "leaving"), Exits(s))
     ELSE /\ Stands(s, "broken") \/ Stands(s, "ready")
          /\ Exits(s) /\ UNCHANGED <<disk, faults>>
  /\ UNCHANGED job

CloseOwner(s) ==
  /\ Stands(s, "leaving")
  /\ Calls([disk EXCEPT !.folder[s] = @ \ {"owner"}], Moves(s, "left"), Exits(s))
  /\ UNCHANGED job

CloseFolder(s) ==
  /\ Stands(s, "left")
  /\ Calls([disk EXCEPT !.folder[s] = {}], Exits(s), Exits(s))
  /\ UNCHANGED job

\* The utility process dies, by itself or after the application.
WorkerDies(s) ==
  /\ session[s].worker
  /\ IF session[s].parent THEN Fault ELSE Works
  /\ Exits(s)
  /\ job' = [d \in Downloads |->
               IF d \in JobsOf(s) /\ job[d].pc \notin Settled
               THEN Ended(d, "lost", None) ELSE job[d]]
  /\ UNCHANGED disk

\* The application ends once its utility process has, or crashes.
ParentEnds(s) ==
  /\ session[s].parent
  /\ IF session[s].worker THEN Fault ELSE Works
  /\ session' = [session EXCEPT ![s].parent = FALSE]
  /\ UNCHANGED <<job, disk>>

\* Another program puts a file where a download would go; only a run that publishes looks.
FileAppears(n) ==
  /\ \E d \in Downloads : At(d, "linking")
  /\ Cardinality(disk.foreign) < MaxForeign /\ disk.shelf[n] = NoFile
  /\ disk' = [disk EXCEPT !.shelf[n].by = Foreign, !.foreign = @ \cup {n}]
  /\ UNCHANGED <<job, session, faults>>

SessionStep(s) ==
  \/ ListSessions(s) \/ (\E t \in Sessions : ReadOwner(s, t)) \/ ListRecords(s)
  \/ (\E d \in Downloads : ReadRecord(s, d)) \/ RemoveTemporary(s) \/ RemoveRecord(s)
  \/ SweepEnds(s) \/ RemoveRecords(s) \/ RemoveOwner(s) \/ RemoveFolder(s)
  \/ MakeFolder(s) \/ WriteOwner(s) \/ MakeRecords(s)
  \/ CloseRecords(s) \/ CloseOwner(s) \/ CloseFolder(s)

Next ==
  \/ \E d \in Downloads, s \in Sessions : Run(d, s)
  \/ \E d \in Downloads : Cancel(d) \/ ReaderStep(d) \/ RunStep(d)
  \/ \E s \in Sessions : Start(s) \/ SessionStep(s) \/ Close(s) \/ WorkerDies(s) \/ ParentEnds(s)
  \/ \E n \in 1..Names : FileAppears(n)

Spec == Init /\ [][Next]_vars

\* File-system calls return.  A reader need not answer unless it is told to stop.
Fairness ==
  /\ \A d \in Downloads : /\ WF_vars(RunStep(d))
                          /\ WF_vars(job[d].aborted /\ ReaderStep(d))
  /\ \A s \in Sessions : WF_vars(SessionStep(s))

FairSpec == Spec /\ Fairness

-----------------------------------------------------------------------------
(* Properties *)

\* Every variable keeps its type.
TypeOK ==
  /\ \A d \in Downloads :
       /\ job[d].session \in 0..MaxSessions /\ job[d].kind \in Kinds
       /\ job[d].index \in 1..Names /\ job[d].result \in Results \cup {None}
       /\ job[d].why \in {None, "cancelled", "other", "publish"}
       /\ {job[d].aborted, job[d].reader, job[d].sink, job[d].unclean} \subseteq BOOLEAN
       /\ disk.record[d] \in {None, "torn", "whole"}
       /\ disk.temporary[d] \in {Absent} \cup 0..Length
  /\ \A s \in Sessions :
       /\ session[s].todo \cup session[s].dead \subseteq Sessions \ {s}
       /\ session[s].visit \in 0..MaxSessions /\ session[s].records \subseteq Downloads
       /\ disk.folder[s] \subseteq {"folder", "owner", "records"}
  /\ faults \in 0..MaxFaults

Writing == {"reading", "writing", "returning", "syncing", "linking"}

\* At every instant a crash may come: a temporary file has a whole record, in a folder
\* whose owner a later start can read, so that no crash strands a file nobody knows of;
\* and the file a live run writes is never swept, whatever other starts do meanwhile.
OutputIsTracked ==
  /\ TypeOK
  /\ \A d \in Downloads :
       /\ disk.temporary[d] # Absent =>
            disk.record[d] = "whole" /\ disk.folder[job[d].session] = {"folder", "owner", "records"}
       /\ job[d].pc \in Writing => disk.temporary[d] # Absent

\* A file of a download is whole at its destination.  A run reports "saved" exactly when
\* its file got there, where only a confirmed replacement may follow it; a run that
\* reports anything else has put no file there, and no file of others is replaced unasked.
ResultIsHonest ==
  LET replaced(d) == \E e \in Downloads \ {d} : job[e].kind = "confirmed" /\ disk.shelf[1].by = e
      holds(d) == {n \in 1..Names : disk.shelf[n].by = d}
  IN  /\ \A d \in Downloads :
           /\ \A n \in holds(d) : disk.shelf[n].bytes = Length
           /\ job[d].result = "saved" => holds(d) # {} \/ replaced(d)
           /\ job[d].result \in {"cancelled", "failed", "unclean"} => holds(d) = {}
           /\ Cardinality(holds(d)) <= 1
      /\ \A n \in disk.foreign : disk.shelf[n].by = Foreign \/ (n = 1 /\ replaced(Foreign))

\* A start that reports no failure has left no temporary file and no record of a session
\* that was dead when it began, with crashes, failing calls and other starts in between.
RecoveryIsHonest ==
  \A s \in Sessions :
    session[s].at \in {"owner", "records"} /\ ~session[s].failed =>
      \A d \in Downloads : job[d].session \in session[s].dead =>
        disk.temporary[d] = Absent /\ disk.record[d] = None

\* A run that is told to stop ends, whatever its reader does, and so does a utility
\* process that is asked to shut down, also while its journal is opened.
StopsWhenTold ==
  /\ \A d \in Downloads : job[d].aborted ~> job[d].pc \in Settled
  /\ \A s \in Sessions : session[s].closed ~> ~session[s].worker

=============================================================================
