-------------------------- MODULE SessionPersistence --------------------------
(***************************************************************************)
(* How the state of one session gets to its session.jsonl: the queue of    *)
(* sessions/persistence-queue.ts and what SessionManager.ts asks of it.    *)
(* The manager changes the session in memory and enqueues a lazy snapshot; *)
(* a timer or a flush turns it into a write; writes of a session follow    *)
(* one another, each in steps with an await between them; metadata utilities *)
(* and other programs edit the header of the same file; a watcher reports  *)
(* changes of the file back; an idle sweep drops the messages from memory. *)
(*                                                                         *)
(* The transcript only grows and is known by its length, the nine metadata *)
(* fields of the header by one value; 0 is a transcript without messages.  *)
(* Left out: creation and deletion of a session, sessions beside this one, *)
(* and a header that is edited by a program that also rewrites messages.   *)
(***************************************************************************)
EXTENDS Naturals, Sequences, FiniteSetsExt

CONSTANTS
  MaxDoc,      \* bound: messages
  MaxMeta,     \* bound: metadata edits, whoever makes them
  MaxWrites,   \* bound: writes
  MaxFaults,   \* bound: writes that fail, crashes
  Hurried,     \* whether the metadata change while the idle sweep is at it
  None

ASSUME PersistenceAssumption ==
  /\ MaxDoc \in Nat \ {0} /\ MaxMeta \in Nat /\ MaxWrites \in Nat
  /\ MaxFaults \in Nat /\ Hurried \in BOOLEAN
  /\ None \notin Nat \cup [doc : Nat, meta : Nat, before : Nat \cup {None},
                           pc : {"temp", "rename"}]

VARIABLES
  mem,      \* the ManagedSession (see Init)
  disk,     \* session.jsonl
  queue,    \* the SessionPersistenceQueue (see Init)
  event,    \* a change of the file is on its way to the watcher
  sweep,    \* releaseIdleSessions: what it waits for
  flushes,  \* calls of flush that wait, and what was in memory at the call
  saved,    \* the longest transcript a flush has vouched for
  editors,  \* metadata edits made on the file
  edits,    \* metadata edits, on the file or in memory
  faults    \* failures so far

vars == <<mem, disk, queue, event, sweep, flushes, saved, editors, edits, faults>>

\* warm: messagesLoaded. deferred: pendingExternalMetadata. busy: a turn runs.
\* used: accessed within two minutes.
\* chain: the writes not settled yet. write: what the first of them is
\* writing. failed: the rejected promise kept for a session, by the kind of
\* what it failed to save. sig: lastWrittenHeaderSignature.
Init ==
  /\ mem = [doc |-> 1, meta |-> 0, warm |-> TRUE, deferred |-> None,
            busy |-> FALSE, used |-> FALSE]
  /\ disk = [doc |-> 1, meta |-> 0]
  /\ queue = [pending |-> FALSE, chain |-> <<>>, write |-> None, next |-> 1,
              failed |-> "none", sig |-> None]
  /\ event = FALSE /\ sweep = [pc |-> "idle", on |-> 0] /\ flushes = {}
  /\ saved = 0 /\ editors = 0 /\ edits = 0 /\ faults = 0

-----------------------------------------------------------------------------
(* The synchronous operations of the queue.                                *)

Enqueued(q) == [q EXCEPT !.pending = TRUE]

Appended(q, kind, meta) ==
  [q EXCEPT !.chain = Append(@, [id |-> q.next, kind |-> kind, meta |-> meta,
                                 forget |-> FALSE]),
            !.next = @ + 1]

\* What is pending becomes a write behind those under way.
Write(q) == IF q.pending THEN Appended([q EXCEPT !.pending = FALSE], "product", None) ELSE q

HasRoom(q, n) == q.next + n <= MaxWrites + 1

\* The rejected promise of the last write is forgotten, now or when it fails.
Cancel(q) ==
  LET n == Len(q.chain) IN
  [q EXCEPT !.pending = FALSE, !.sig = None,
            !.failed = IF n = 0 THEN "none" ELSE @,
            !.chain = [i \in 1 .. n |-> IF i = n THEN [@[i] EXCEPT !.forget = TRUE] ELSE @[i]]]

\* Seeded fault: a cold session is enqueued as it stands.
HydratedNever(m) == [m EXCEPT !.warm = TRUE]

\* A cold session gets its messages before its snapshot is enqueued.
Hydrated(m) == IF m.warm THEN m ELSE [m EXCEPT !.warm = TRUE, !.doc = disk.doc]

\* A flush waits for the last write, or is told what became of it at once.
Flush(q) ==
  LET n == Len(q.chain) IN
  /\ queue' = q
  /\ IF n > 0
     THEN /\ flushes' = flushes \cup {[on |-> q.chain[n].id, need |-> mem'.doc]}
          /\ UNCHANGED saved
     ELSE /\ saved' = IF q.failed = "none" THEN Max({saved, mem'.doc}) ELSE saved
          /\ UNCHANGED flushes

\* The first write begins before any other callback runs.
Due == queue.chain # <<>> /\ queue.write = None

-----------------------------------------------------------------------------
(* The manager.                                                            *)

Calm == Hurried \/ sweep.pc = "idle"

\* ensureMessagesLoaded: what is read takes its metadata from disk too.
Loaded(m) ==
  IF m.warm THEN [m EXCEPT !.used = TRUE]
  ELSE [m EXCEPT !.warm = TRUE, !.doc = disk.doc, !.meta = disk.meta, !.used = TRUE]

\* A message, in a turn or beside it.
Message ==
  /\ ~Due /\ Loaded(mem).doc < MaxDoc /\ HasRoom(queue, 1)
  /\ mem' = [Loaded(mem) EXCEPT !.doc = @ + 1]
  /\ \/ queue' = Enqueued(queue) /\ UNCHANGED <<flushes, saved>>
     \/ Flush(Write(Enqueued(queue)))
  /\ UNCHANGED <<disk, event, sweep, editors, edits, faults>>

\* The user renames the session, moves it on the board, sets its status or its
\* labels; most of these flush at once.
LocalEdit ==
  /\ ~Due /\ edits < MaxMeta /\ Calm /\ HasRoom(queue, 1)
  /\ edits' = edits + 1
  /\ mem' = [Hydrated(mem) EXCEPT !.meta = edits + 1]
  /\ \/ queue' = Enqueued(queue) /\ UNCHANGED <<flushes, saved>>
     \/ Flush(Write(Enqueued(queue)))
  /\ UNCHANGED <<disk, event, sweep, editors, faults>>

\* flushSession, on closing, switching and quitting.
FlushSession ==
  /\ ~Due /\ HasRoom(queue, 1) /\ UNCHANGED mem
  /\ Flush(Write(queue))
  /\ UNCHANGED <<disk, event, sweep, editors, edits, faults>>

\* Seeded fault: the pending snapshot is cancelled and not taken again.
ApplyExternalAndForget(m, meta) ==
  IF m.meta = meta THEN mem' = m /\ UNCHANGED queue
  ELSE /\ mem' = [Hydrated(m) EXCEPT !.meta = meta]
       /\ queue' = Cancel(queue)

ApplyExternal(m, meta) ==
  IF m.meta = meta THEN mem' = m /\ UNCHANGED queue
  ELSE /\ mem' = [Hydrated(m) EXCEPT !.meta = meta]
       /\ queue' = Enqueued(Cancel(queue))

\* An edit of the user's may have set a guard that has not run out.
MayBeGuarded == editors < edits

\* onSessionMetadataChange.
Watch ==
  /\ ~Due /\ event /\ Calm
  /\ event' = FALSE
  /\ IF queue.sig = disk.meta THEN UNCHANGED <<mem, queue>>
     ELSE \/ /\ mem.busy \/ MayBeGuarded
             /\ mem' = [mem EXCEPT !.deferred = disk.meta] /\ UNCHANGED queue
          \/ ~mem.busy /\ ApplyExternal(mem, disk.meta)
  /\ UNCHANGED <<disk, sweep, flushes, saved, editors, edits, faults>>

TurnBegins ==
  /\ ~Due /\ ~mem.busy
  /\ mem' = [Loaded(mem) EXCEPT !.busy = TRUE]
  /\ UNCHANGED <<disk, queue, event, sweep, flushes, saved, editors, edits, faults>>

TurnEnds ==
  /\ ~Due /\ mem.busy
  /\ LET m == [mem EXCEPT !.busy = FALSE, !.deferred = None] IN
       IF mem.deferred = None THEN mem' = m /\ UNCHANGED queue
       ELSE ApplyExternal(m, mem.deferred)
  /\ UNCHANGED <<disk, event, sweep, flushes, saved, editors, edits, faults>>

-----------------------------------------------------------------------------
(* Writes.                                                                 *)

Job == Head(queue.chain)

\* Seeded fault: an edit of the metadata passes over any failure.
RefusedNever(q) == FALSE

\* A metadata edit does not pass over a snapshot that is not saved.
Refused(q) == Head(q.chain).kind = "metadata" /\ q.failed = "product"

\* The first write has settled; its failure is kept for those who ask.
Settled(failure) ==
  [queue EXCEPT !.chain = Tail(@), !.write = None,
                !.failed = IF Job.forget /\ Len(queue.chain) = 1 THEN "none" ELSE failure]

\* Seeded fault: a failure is not told to those who wait.
ToldIfSaved(failure) ==
  LET mine == {f \in flushes : failure = "none" /\ f.on = Job.id} IN
  /\ flushes' = flushes \ mine
  /\ saved' = Max({saved} \cup {f.need : f \in mine})
  /\ UNCHANGED sweep

\* Those who wait for it go on; the sweep goes on if nobody came meanwhile.
Told(failure) ==
  LET mine == {f \in flushes : f.on = Job.id} IN
  /\ flushes' = flushes \ mine
  /\ saved' = IF failure = "none" THEN Max({saved} \cup {f.need : f \in mine}) ELSE saved
  /\ IF sweep.pc = "flushing" /\ sweep.on = Job.id
     THEN sweep' = [pc |-> IF failure = "none" /\ ~mem.busy /\ ~mem.used
                           THEN "retiring" ELSE "idle", on |-> 0]
     ELSE UNCHANGED sweep

Fails(failure) == queue' = Settled(failure) /\ Told(failure)

\* The snapshot is taken and the header on disk read; what another program
\* wrote there is kept.
Perform ==
  /\ Due
  /\ IF Refused(queue) THEN Fails("product")
     ELSE LET product == Job.kind = "product"
              other == product /\ queue.sig # None /\ disk.meta # queue.sig
              snap == IF product THEN [doc |-> mem.doc, meta |-> mem.meta]
                      ELSE [doc |-> disk.doc, meta |-> Job.meta]
          IN /\ queue' = [queue EXCEPT !.write =
                  [doc |-> snap.doc, meta |-> IF other THEN disk.meta ELSE snap.meta,
                   before |-> queue.sig, pc |-> "temp"]]
             /\ UNCHANGED <<sweep, flushes, saved>>
  /\ UNCHANGED <<mem, disk, event, editors, edits, faults>>

\* The temporary file is complete; its signature is made known.
Publish ==
  /\ ~Due /\ queue.write # None /\ queue.write.pc = "temp"
  /\ queue' = [queue EXCEPT !.write.pc = "rename",
                            !.sig = IF Job.kind = "product" THEN queue.write.meta ELSE @]
  /\ UNCHANGED <<mem, disk, event, sweep, flushes, saved, editors, edits, faults>>

TempFails ==
  /\ ~Due /\ queue.write # None /\ queue.write.pc = "temp" /\ faults < MaxFaults
  /\ faults' = faults + 1
  /\ Fails(Job.kind)
  /\ UNCHANGED <<mem, disk, event, editors, edits>>

Rename ==
  /\ ~Due /\ queue.write # None /\ queue.write.pc = "rename"
  /\ disk' = [doc |-> queue.write.doc, meta |-> queue.write.meta]
  /\ event' = TRUE
  /\ Fails("none")
  /\ UNCHANGED <<mem, editors, edits, faults>>

\* The old file stays and so does its signature.
RenameFails ==
  /\ ~Due /\ queue.write # None /\ queue.write.pc = "rename" /\ faults < MaxFaults
  /\ faults' = faults + 1
  /\ queue' = [Settled(Job.kind) EXCEPT
                 !.sig = IF Job.kind = "product" THEN queue.write.before ELSE @]
  /\ Told(Job.kind)
  /\ UNCHANGED <<mem, disk, event, editors, edits>>

\* The file is in place, but its directory may not be on disk.
SyncFails ==
  /\ ~Due /\ queue.write # None /\ queue.write.pc = "rename" /\ faults < MaxFaults
  /\ faults' = faults + 1
  /\ disk' = [doc |-> queue.write.doc, meta |-> queue.write.meta]
  /\ event' = TRUE
  /\ Fails(Job.kind)
  /\ UNCHANGED <<mem, editors, edits>>

Timer ==
  /\ ~Due /\ queue.pending /\ HasRoom(queue, 1)
  /\ queue' = Write(queue)
  /\ UNCHANGED <<mem, disk, event, sweep, flushes, saved, editors, edits, faults>>

-----------------------------------------------------------------------------
(* The others.                                                             *)

\* A utility of this program changes the metadata of the file, behind what is
\* pending and through the same line of writes.
UpdateMetadata ==
  /\ ~Due /\ edits < MaxMeta /\ HasRoom(queue, 2)
  /\ edits' = edits + 1 /\ editors' = editors + 1
  /\ queue' = Appended(Write(queue), "metadata", edits + 1)
  /\ UNCHANGED <<mem, disk, event, sweep, flushes, saved, faults>>

\* A script or another instance rewrites the header.
ExternalEdit ==
  /\ ~Due /\ edits < MaxMeta
  /\ edits' = edits + 1 /\ editors' = editors + 1
  /\ disk' = [disk EXCEPT !.meta = edits + 1]
  /\ event' = TRUE
  /\ UNCHANGED <<mem, queue, sweep, flushes, saved, faults>>

\* The idle sweep: a flush, the end of the session's runtime, then the
\* messages go, unless somebody came meanwhile.
Sweep ==
  /\ ~Due /\ sweep.pc = "idle" /\ mem.warm /\ ~mem.busy /\ HasRoom(queue, 1)
  /\ mem' = [mem EXCEPT !.used = FALSE]
  /\ LET q == Write(queue) IN
       /\ queue' = q
       /\ sweep' = IF q.chain # <<>>
                   THEN [pc |-> "flushing", on |-> q.chain[Len(q.chain)].id]
                   ELSE [pc |-> IF q.failed = "none" THEN "retiring" ELSE "idle", on |-> 0]
  /\ UNCHANGED <<disk, event, flushes, saved, editors, edits, faults>>

Evict ==
  /\ ~Due /\ sweep.pc = "retiring"
  /\ sweep' = [pc |-> "idle", on |-> 0]
  /\ mem' = IF mem.busy \/ queue.pending \/ mem.used THEN mem
            ELSE [mem EXCEPT !.doc = 0, !.warm = FALSE]
  /\ UNCHANGED <<disk, queue, event, flushes, saved, editors, edits, faults>>

\* The process dies; the next one knows the session by its header.
Crash ==
  /\ ~Due /\ faults < MaxFaults
  /\ faults' = faults + 1
  /\ mem' = [doc |-> 0, meta |-> disk.meta, warm |-> FALSE, deferred |-> None,
             busy |-> FALSE, used |-> FALSE]
  /\ queue' = [pending |-> FALSE, chain |-> <<>>, write |-> None, next |-> queue.next,
               failed |-> "none", sig |-> None]
  /\ event' = FALSE /\ sweep' = [pc |-> "idle", on |-> 0] /\ flushes' = {}
  /\ UNCHANGED <<disk, saved, editors, edits>>

Next == \/ Message \/ LocalEdit \/ FlushSession \/ Watch \/ TurnBegins \/ TurnEnds
        \/ Perform \/ Publish \/ TempFails \/ Rename \/ RenameFails \/ SyncFails
        \/ Timer \/ UpdateMetadata \/ ExternalEdit \/ Sweep \/ Evict \/ Crash

Spec == Init /\ [][Next]_vars

\* Timers fire and awaited calls return.
Fairness == /\ WF_vars(Timer) /\ WF_vars(Perform) /\ WF_vars(Publish)
            /\ WF_vars(Rename)

FairSpec == Spec /\ Fairness

-----------------------------------------------------------------------------
(* Properties.                                                             *)

\* Type invariant.
TypeOK ==
  /\ mem.doc \in 0 .. MaxDoc /\ mem.meta \in 0 .. MaxMeta
  /\ mem.deferred \in 0 .. MaxMeta \cup {None}
  /\ disk \in [doc : 0 .. MaxDoc, meta : 0 .. MaxMeta]
  /\ queue.pending \in BOOLEAN /\ queue.sig \in 0 .. MaxMeta \cup {None}
  /\ queue.failed \in {"none", "product", "metadata"}
  /\ \A i, j \in DOMAIN queue.chain : i < j => queue.chain[i].id < queue.chain[j].id
  /\ queue.write # None => queue.chain # <<>>
  /\ \A f \in flushes : \E i \in DOMAIN queue.chain : queue.chain[i].id = f.on
  /\ sweep.pc = "flushing" => \E i \in DOMAIN queue.chain : queue.chain[i].id = sweep.on
  /\ saved \in 0 .. MaxDoc /\ faults \in 0 .. MaxFaults

\* What a flush has vouched for is on disk from then on, whoever writes the
\* file after it and however the process dies
\* (persistence-queue.ts:248-266, SessionManager.ts:2266-2270).
SavedStaysSaved == disk.doc >= saved

\* Messages that are only in memory are pending, being written, or owned up to
\* by a failure the next flush reports
\* (persistence-queue.ts:111-124, 278-282).
UnsavedIsKnown ==
  mem.warm /\ mem.doc > disk.doc =>
    queue.pending \/ queue.chain # <<>> \/ queue.failed = "product"

\* Unless a write fails, memory and disk come to agree, on the metadata too
\* when only the user of this program edits it
\* (persistence-queue.ts:60-72, SessionManager.ts:1712-1714).
SnapshotsArrive ==
  []<>(\/ faults > 0 \/ queue.next > MaxWrites
       \/ /\ mem.warm => disk.doc = mem.doc
          /\ editors = 0 => disk.meta = mem.meta)

\* SessionManager.ts:4093: the sweep never evicts uncommitted work; no write
\* takes an evicted session for one without messages.
EvictionKeepsTranscript == disk.doc > 0
=============================================================================
