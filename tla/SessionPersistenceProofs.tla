----------------------- MODULE SessionPersistenceProofs -----------------------
(***************************************************************************)
(* What SessionPersistence keeps, for any numbers of messages, edits,      *)
(* writes and failures: nothing a flush vouched for leaves the disk, and   *)
(* nothing that is only in memory is forgotten. Both rest on Promised: why *)
(* a transcript of a length will be on disk, or a failure will be told.    *)
(***************************************************************************)
EXTENDS SessionPersistence, WellFoundedInduction, TLAPS

Doc == 0 .. MaxDoc
Meta == 0 .. MaxMeta
JobRec == [id : Nat, kind : {"product", "metadata"}, meta : Meta \cup {None}, forget : BOOLEAN]
WriteRec == [doc : Doc, meta : Meta, before : Meta \cup {None}, pc : {"temp", "rename"}]
QueueRec == [pending : BOOLEAN, chain : Seq(JobRec), write : WriteRec \cup {None},
             next : Nat, failed : {"none", "product", "metadata"}, sig : Meta \cup {None}]

\* The line of writes is in order.
LineOk(q) ==
  /\ q \in QueueRec
  /\ \A i \in 1 .. Len(q.chain) :
       /\ q.chain[i].id < q.next
       /\ q.chain[i].kind = "metadata" => q.chain[i].meta \in Meta
       /\ \A j \in 1 .. Len(q.chain) : i < j => q.chain[i].id < q.chain[j].id
  /\ q.write # None => Len(q.chain) > 0

\* A failure that is to be forgotten has a snapshot pending in its place.
QueueOk(q) ==
  /\ LineOk(q)
  /\ Len(q.chain) > 0 /\ q.chain[Len(q.chain)].forget => q.pending

\* A write that will take its snapshot later.
Waiting(q, i) == q.chain[i].kind = "product" /\ (i > 1 \/ q.write = None)

\* Why, with m in memory and d on disk, a transcript of length n is on disk
\* when the writes up to number k are through, or a failure is known.
Promised(q, m, d, n, k) ==
  \/ n <= d
  \/ n <= m /\ \E i \in 1 .. Len(q.chain) : Waiting(q, i) /\ q.chain[i].id <= k
  \/ q.write # None /\ q.chain[1].kind = "product" /\ n <= q.write.doc
  \/ /\ q.failed = "product"
     /\ \A i \in 1 .. Len(q.chain) : q.chain[i].id <= k => q.chain[i].kind = "metadata"

\* What a write under way is about to put on disk.
WriteTrue(q, m, d) ==
  q.write # None =>
    IF q.chain[1].kind = "product" THEN d <= q.write.doc /\ q.write.doc <= m
    ELSE q.write.doc = d /\ q.failed # "product"

\* A session whose messages are not in memory has nothing of its own to save.
ColdIsSaved ==
  /\ mem.warm => disk.doc <= mem.doc
  /\ ~mem.warm => /\ mem.doc = 0 /\ ~mem.busy /\ ~queue.pending
                  /\ \A i \in 1 .. Len(queue.chain) : queue.chain[i].kind = "metadata"

\* While the sweep waits and nobody uses the session, nothing new is to save.
SweepIsAlone ==
  sweep.pc # "idle" /\ ~mem.used =>
    /\ ~mem.busy /\ ~queue.pending
    /\ \A i \in 1 .. Len(queue.chain) : queue.chain[i].kind = "product" =>
         sweep.pc = "flushing" /\ queue.chain[i].id <= sweep.on

\* Those who wait, wait for a write in the line, and for what it will save.
WaitersAreServed ==
  /\ \A f \in flushes :
       /\ \E i \in 1 .. Len(queue.chain) : queue.chain[i].id = f.on
       /\ Promised(queue, mem.doc, disk.doc, f.need, f.on)
  /\ sweep.pc = "flushing" => \E i \in 1 .. Len(queue.chain) : queue.chain[i].id = sweep.on

MemoryIsKnown ==
  queue.pending \/ Promised(queue, mem.doc, disk.doc, mem.doc, queue.next)

MemRec == [doc : Doc, meta : Meta, warm : BOOLEAN, deferred : Meta \cup {None},
           busy : BOOLEAN, used : BOOLEAN]

StateTypes ==
  /\ mem \in MemRec /\ disk \in [doc : Doc, meta : Meta]
  /\ sweep \in [pc : {"idle", "flushing", "retiring"}, on : Nat]
  /\ edits \in Meta /\ faults \in 0 .. MaxFaults

Types == StateTypes /\ flushes \subseteq [on : Nat, need : Doc] /\ saved \in Doc

IInv ==
  /\ Types /\ QueueOk(queue) /\ WriteTrue(queue, mem.doc, disk.doc)
  /\ ColdIsSaved /\ SweepIsAlone /\ WaitersAreServed /\ MemoryIsKnown
  /\ SavedStaysSaved

\* p is q with more at its end, as far as a promise is concerned.
Extends(q, p) ==
  /\ Len(q.chain) <= Len(p.chain) /\ q.next <= p.next
  /\ \A i \in 1 .. Len(q.chain) :
       p.chain[i].id = q.chain[i].id /\ p.chain[i].kind = q.chain[i].kind
  /\ \A i \in 1 .. Len(p.chain) : i > Len(q.chain) => p.chain[i].id >= q.next
  /\ p.write = None <=> q.write = None
  /\ p.write # None => p.write.doc = q.write.doc
  /\ p.failed = q.failed \/ Len(q.chain) = 0

-----------------------------------------------------------------------------
(* The operations of the queue.                                            *)

LEMMA Constants_ ==
  /\ MaxDoc \in Nat /\ MaxMeta \in Nat /\ MaxFaults \in Nat
  /\ 0 \in Doc /\ 1 \in Doc /\ 0 \in Meta
  /\ None \notin Nat /\ None \notin WriteRec /\ None \notin Meta
  BY PersistenceAssumption DEF Doc, Meta, WriteRec

\* A set of numbers up to a bound has a greatest member.
LEMMA MaxIsMember ==
  ASSUME NEW b \in Nat, NEW S \in SUBSET (0 .. b), S # {}
  PROVE  Max(S) \in S /\ \A y \in S : Max(S) >= y
  <1> DEFINE T == {b - x : x \in S}
  <1>1. T \subseteq Nat /\ T # {}
    <2>1. \A x \in S : x \in 0 .. b /\ b - x \in Nat
      OBVIOUS
    <2>2. PICK x \in S : TRUE
      OBVIOUS
    <2>3. b - x \in T
      OBVIOUS
    <2> QED BY <2>1, <2>3
  <1>2. PICK t \in T : \A u \in T : <<u, t>> \notin OpToRel(<, Nat)
    BY <1>1, WFMin, NatLessThanWellFounded
  <1>3. \A u \in T : ~(u < t)
    BY <1>1, <1>2 DEF OpToRel
  <1>4. PICK x \in S : t = b - x
    BY <1>2
  <1>5. \A y \in S : x >= y
    <2> TAKE y \in S
    <2>1. b - y \in T
      OBVIOUS
    <2> QED BY <1>3, <1>4, <2>1
  <1> QED BY <1>5 DEF Max

LEMMA AppendedOk ==
  ASSUME NEW q, LineOk(q), NEW kind \in {"product", "metadata"}, NEW meta \in Meta \cup {None},
         kind = "metadata" => meta \in Meta
  PROVE  LET p == Appended(q, kind, meta) IN
         /\ QueueOk(p)
         /\ p.next = q.next + 1 /\ p.write = q.write /\ p.failed = q.failed
         /\ p.pending = q.pending /\ p.sig = q.sig
         /\ Len(p.chain) = Len(q.chain) + 1
         /\ p.chain[Len(q.chain) + 1].kind = kind
         /\ p.chain[Len(q.chain) + 1].id = q.next
         /\ \A i \in 1 .. Len(q.chain) : p.chain[i] = q.chain[i]
  <1> DEFINE job == [id |-> q.next, kind |-> kind, meta |-> meta, forget |-> FALSE]
             p == Appended(q, kind, meta)
  <1>1. q \in QueueRec /\ q.next \in Nat /\ q.chain \in Seq(JobRec)
    BY DEF LineOk, QueueRec
  <1>2. job \in JobRec
    BY <1>1 DEF JobRec
  <1>3. /\ Append(q.chain, job) \in Seq(JobRec)
        /\ Len(Append(q.chain, job)) = Len(q.chain) + 1
        /\ Append(q.chain, job)[Len(q.chain) + 1] = job
        /\ \A i \in 1 .. Len(q.chain) : Append(q.chain, job)[i] = q.chain[i]
    BY <1>1, <1>2
  <1>4. /\ p \in QueueRec /\ p.chain = Append(q.chain, job) /\ p.next = q.next + 1
        /\ p.write = q.write /\ p.failed = q.failed /\ p.pending = q.pending /\ p.sig = q.sig
    <2>1. p = [q EXCEPT !.chain = Append(q.chain, job), !.next = q.next + 1]
      BY DEF Appended
    <2>2. Append(q.chain, job) \in Seq(JobRec) /\ q.next + 1 \in Nat
      BY <1>1, <1>3
    <2> HIDE DEF p, job
    <2> QED BY <1>1, <2>1, <2>2 DEF QueueRec
  <1> HIDE DEF p
  <1>5. job.id = q.next /\ job.kind = kind /\ job.meta = meta /\ job.forget = FALSE
    OBVIOUS
  <1> HIDE DEF job
  <1>6. QueueOk(p)
    <2>1. ASSUME NEW i \in 1 .. Len(p.chain)
          PROVE  /\ p.chain[i].id < p.next
                 /\ p.chain[i].kind = "metadata" => p.chain[i].meta \in Meta
                 /\ \A j \in 1 .. Len(p.chain) : i < j => p.chain[i].id < p.chain[j].id
      <3>1. CASE i = Len(q.chain) + 1
        BY <1>1, <1>3, <1>4, <1>5, <3>1
      <3>2. CASE i \in 1 .. Len(q.chain)
        <4>0. q.chain[i] \in JobRec /\ p.chain[i] = q.chain[i]
          BY <1>1, <1>3, <1>4, <3>2
        <4>1. p.chain[i] = q.chain[i] /\ q.chain[i].id \in Nat /\ q.chain[i].id < q.next
          BY <3>2, <4>0 DEF LineOk, JobRec
        <4>2. ASSUME NEW j \in 1 .. Len(p.chain), i < j
              PROVE  p.chain[i].id < p.chain[j].id
          BY <1>1, <1>3, <1>4, <1>5, <3>2, <4>1, <4>2 DEF LineOk
        <4>3. p.chain[i].id < p.next
          BY <1>1, <1>4, <4>1
        <4>4. q.chain[i].kind = "metadata" => q.chain[i].meta \in Meta
          BY <3>2 DEF LineOk
        <4> QED BY <4>1, <4>2, <4>3, <4>4
      <3> QED BY <1>1, <1>3, <1>4, <3>1, <3>2
    <2>2. p.chain[Len(p.chain)].forget = FALSE /\ Len(p.chain) > 0
      BY <1>1, <1>3, <1>4, <1>5
    <2>3. q.write # None => Len(q.chain) > 0
      BY DEF LineOk
    <2>4. LineOk(p)
      BY <1>4, <2>1, <2>2 DEF LineOk
    <2> QED BY <2>2, <2>4 DEF QueueOk
  <1> QED BY <1>3, <1>4, <1>5, <1>6 DEF p

LEMMA LengthOf == ASSUME NEW q, LineOk(q) PROVE
  /\ q \in QueueRec /\ Len(q.chain) \in Nat /\ q.next \in Nat /\ q.chain \in Seq(JobRec)
  /\ \A i \in 1 .. Len(q.chain) :
       /\ q.chain[i] \in JobRec /\ q.chain[i].id \in Nat /\ q.chain[i].id < q.next
       /\ q.chain[i].kind \in {"product", "metadata"} /\ q.chain[i].forget \in BOOLEAN
  <1>1. q \in QueueRec
    BY DEF LineOk
  <1>2. q.chain \in Seq(JobRec) /\ q.next \in Nat
    BY <1>1 DEF QueueRec
  <1>3. \A i \in 1 .. Len(q.chain) : q.chain[i] \in JobRec
    BY <1>2
  <1>4. \A i \in 1 .. Len(q.chain) : q.chain[i].id < q.next
    BY DEF LineOk
  <1> QED BY <1>1, <1>2, <1>3, <1>4 DEF JobRec

LEMMA EnqueuedOk ==
  ASSUME NEW q, QueueOk(q)
  PROVE  LET p == Enqueued(q) IN
         /\ QueueOk(p) /\ p.pending /\ Extends(q, p)
         /\ p.chain = q.chain /\ p.next = q.next /\ p.write = q.write /\ p.failed = q.failed
  <1> DEFINE p == Enqueued(q)
  <1>1. q \in QueueRec
    BY LengthOf DEF QueueOk
  <1>2. /\ p \in QueueRec /\ p.pending = TRUE
        /\ p.chain = q.chain /\ p.next = q.next /\ p.write = q.write /\ p.failed = q.failed
    BY <1>1 DEF Enqueued, QueueRec
  <1> HIDE DEF p
  <1>3. QueueOk(p)
    BY <1>2 DEF QueueOk, LineOk
  <1>4. Extends(q, p)
    BY <1>2, LengthOf DEF QueueOk, Extends
  <1> QED BY <1>2, <1>3, <1>4 DEF p

\* What is pending is behind the writes under way, and nothing is pending.
LEMMA WriteOk ==
  ASSUME NEW q, QueueOk(q)
  PROVE  LET p == Write(q) IN
         /\ QueueOk(p) /\ p.pending = FALSE /\ Extends(q, p)
         /\ p.failed = q.failed /\ p.write = q.write
         /\ ~q.pending => p.chain = q.chain /\ p.next = q.next
         /\ q.pending => /\ Len(p.chain) = Len(q.chain) + 1
                         /\ Waiting(p, Len(q.chain) + 1)
                         /\ p.chain[Len(q.chain) + 1].id < p.next
  <1> DEFINE p == Write(q)
             c == [q EXCEPT !.pending = FALSE]
  <1>1. q \in QueueRec /\ q.pending \in BOOLEAN
    BY DEF QueueOk, LineOk, QueueRec
  <1>2. CASE ~q.pending
    <2>1. p = q
      BY <1>2 DEF Write
    <2> HIDE DEF p
    <2>2. Extends(q, q)
      BY LengthOf DEF QueueOk, Extends
    <2> QED BY <1>1, <1>2, <2>1, <2>2 DEF p
  <1>3. CASE q.pending
    <2>1. /\ c \in QueueRec /\ c.pending = FALSE
          /\ c.chain = q.chain /\ c.next = q.next /\ c.write = q.write /\ c.failed = q.failed
      BY <1>1 DEF QueueRec
    <2>2. p = Appended(c, "product", None)
      BY <1>3 DEF Write
    <2> HIDE DEF c, p
    <2>3. LineOk(c)
      BY <2>1 DEF QueueOk, LineOk
    <2>4. /\ QueueOk(p)
          /\ p.next = q.next + 1 /\ p.write = q.write /\ p.failed = q.failed
          /\ p.pending = FALSE /\ Len(p.chain) = Len(q.chain) + 1
          /\ p.chain[Len(q.chain) + 1].kind = "product"
          /\ p.chain[Len(q.chain) + 1].id = q.next
          /\ \A i \in 1 .. Len(q.chain) : p.chain[i] = q.chain[i]
      BY <2>1, <2>2, <2>3, AppendedOk
    <2>5. Len(q.chain) \in Nat /\ q.next \in Nat
      BY LengthOf DEF QueueOk
    <2>6. Extends(q, p)
      BY <2>4, <2>5, LengthOf, SMTT(30) DEF Extends
    <2>7. Waiting(p, Len(q.chain) + 1)
      BY <2>4, <2>5 DEF Waiting, QueueOk, LineOk
    <2> QED BY <1>3, <2>4, <2>5, <2>6, <2>7 DEF p
  <1> QED BY <1>1, <1>2, <1>3

LEMMA CancelOk ==
  ASSUME NEW q, QueueOk(q)
  PROVE  LET p == Enqueued(Cancel(q)) IN QueueOk(p) /\ p.pending /\ Extends(q, p)
  <1> DEFINE n == Len(q.chain)
             chain == [i \in 1 .. n |-> IF i = n THEN [q.chain[i] EXCEPT !.forget = TRUE]
                                        ELSE q.chain[i]]
             p == Enqueued(Cancel(q))
  <1>1. /\ q \in QueueRec /\ n \in Nat /\ q.next \in Nat
        /\ \A i \in 1 .. n : q.chain[i] \in JobRec
    BY LengthOf DEF QueueOk
  <1>2. \A i \in 1 .. n : /\ chain[i] \in JobRec /\ chain[i].id = q.chain[i].id
                          /\ chain[i].kind = q.chain[i].kind /\ chain[i].meta = q.chain[i].meta
    BY <1>1 DEF JobRec
  <1>3. chain \in Seq(JobRec) /\ Len(chain) = n
    <2>1. chain \in [1 .. n -> JobRec]
      BY <1>2
    <2> HIDE DEF chain, n
    <2> QED BY <1>1, <2>1
  <1>4. Cancel(q) = [q EXCEPT !.pending = FALSE, !.sig = None,
                              !.failed = IF n = 0 THEN "none" ELSE q.failed, !.chain = chain]
    BY DEF Cancel
  <1> HIDE DEF chain, n
  <1>5. Cancel(q) \in QueueRec
    BY <1>1, <1>3, <1>4 DEF QueueRec
  <1>6. /\ p \in QueueRec /\ p.pending = TRUE /\ p.chain = chain /\ p.next = q.next
        /\ p.write = q.write /\ (p.failed = q.failed \/ n = 0)
    BY <1>1, <1>3, <1>4, <1>5 DEF Enqueued, QueueRec
  <1> HIDE DEF p
  <1>7. LineOk(p)
    BY <1>2, <1>3, <1>6 DEF QueueOk, LineOk, n
  <1>8. Extends(q, p)
    BY <1>1, <1>2, <1>3, <1>6 DEF Extends, n
  <1> QED BY <1>6, <1>7, <1>8 DEF p, QueueOk

-----------------------------------------------------------------------------
(* Promises.                                                               *)

LEMMA ExtendsTrans ==
  ASSUME NEW q, NEW p, NEW o, LineOk(q), LineOk(p), LineOk(o), Extends(q, p), Extends(p, o),
         Len(q.chain) = Len(p.chain), q.next = p.next
  PROVE  Extends(q, o)
  BY LengthOf DEF Extends

\* A longer line, and a longer transcript in memory, keep every promise.
LEMMA PromiseKept ==
  ASSUME NEW q, NEW p, LineOk(q), LineOk(p), Extends(q, p),
         NEW m \in Nat, NEW m2 \in Nat, m <= m2, NEW d \in Nat, NEW n \in Nat,
         NEW k \in Nat, k < q.next, Len(q.chain) > 0, Promised(q, m, d, n, k)
  PROVE  Promised(p, m2, d, n, k)
  <1>0. /\ Len(q.chain) \in Nat /\ Len(p.chain) \in Nat /\ q.next \in Nat
        /\ \A i \in 1 .. Len(q.chain) : q.chain[i].id \in Nat
        /\ \A i \in 1 .. Len(p.chain) : p.chain[i].id \in Nat
    BY LengthOf
  <1>1. CASE n <= d
    BY <1>1 DEF Promised
  <1>2. CASE n <= m /\ \E i \in 1 .. Len(q.chain) : Waiting(q, i) /\ q.chain[i].id <= k
    <2>1. PICK i \in 1 .. Len(q.chain) : Waiting(q, i) /\ q.chain[i].id <= k
      BY <1>2
    <2>2. i \in 1 .. Len(p.chain) /\ Waiting(p, i) /\ p.chain[i].id <= k
      BY <1>0, <2>1 DEF Waiting, Extends
    <2> QED BY <1>2, <2>2 DEF Promised
  <1>3. CASE q.write # None /\ q.chain[1].kind = "product" /\ n <= q.write.doc
    BY <1>0, <1>3 DEF Promised, Extends
  <1>4. CASE /\ q.failed = "product"
             /\ \A i \in 1 .. Len(q.chain) : q.chain[i].id <= k => q.chain[i].kind = "metadata"
    <2>1. p.failed = "product"
      BY <1>4, LengthOf DEF Extends
    <2>2. ASSUME NEW i \in 1 .. Len(p.chain), p.chain[i].id <= k
          PROVE  p.chain[i].kind = "metadata"
      <3>1. ~(i > Len(q.chain))
        <4>1. i > Len(q.chain) => p.chain[i].id >= q.next
          BY DEF Extends
        <4> QED BY <1>0, <2>2, <4>1
      <3>2. i \in 1 .. Len(q.chain)
        BY <1>0, <3>1
      <3>3. p.chain[i].id = q.chain[i].id /\ p.chain[i].kind = q.chain[i].kind
        BY <3>2 DEF Extends
      <3> QED BY <1>4, <2>2, <3>2, <3>3
    <2> QED BY <2>1, <2>2 DEF Promised
  <1> QED BY <1>1, <1>2, <1>3, <1>4 DEF Promised

\* A snapshot that waits at the end of the line is a promise for all in memory.
LEMMA WaitingPromises ==
  ASSUME NEW q, NEW i \in 1 .. Len(q.chain), Waiting(q, i), NEW k \in Nat,
         q.chain[i].id <= k, NEW m \in Nat, NEW d
  PROVE  Promised(q, m, d, m, k)
  BY DEF Promised

\* What is promised by the end of the line is promised by its last write.
LEMMA LastPromises ==
  ASSUME NEW q, LineOk(q), NEW m, NEW d, NEW n, Len(q.chain) > 0,
         Promised(q, m, d, n, q.next)
  PROVE  Promised(q, m, d, n, q.chain[Len(q.chain)].id)
  <1>1. \A i \in 1 .. Len(q.chain) :
          q.chain[i].id <= q.next /\ q.chain[i].id <= q.chain[Len(q.chain)].id
    <2>1. \A i \in 1 .. Len(q.chain) : i = Len(q.chain) \/ i < Len(q.chain)
      BY LengthOf
    <2> QED BY <2>1, LengthOf DEF LineOk
  <1> QED BY <1>1 DEF Promised

\* When nothing is to be written and nothing has failed, all is on disk.
LEMMA NothingLeft ==
  ASSUME NEW q, LineOk(q), NEW m, NEW d, NEW n, NEW k, Len(q.chain) = 0,
         q.failed # "product", Promised(q, m, d, n, k)
  PROVE  n <= d
  BY DEF Promised, LineOk

\* A flush waits for what it needs, or is told the truth at once.
LEMMA FlushStep ==
  ASSUME NEW q, Types, SavedStaysSaved, mem'.doc \in Doc, QueueOk(q), ~q.pending,
         Promised(q, mem'.doc, disk.doc, mem'.doc, q.next),
         \A f \in flushes : /\ \E i \in 1 .. Len(q.chain) : q.chain[i].id = f.on
                            /\ Promised(q, mem'.doc, disk.doc, f.need, f.on),
         Flush(q)
  PROVE  /\ queue' = q /\ flushes' \subseteq [on : Nat, need : Doc]
         /\ saved' \in Doc /\ saved' <= disk.doc
         /\ \A f \in flushes' : /\ \E i \in 1 .. Len(q.chain) : q.chain[i].id = f.on
                                /\ Promised(q, mem'.doc, disk.doc, f.need, f.on)
  <1> DEFINE n == Len(q.chain)
  <1>0. n \in Nat /\ LineOk(q) /\ queue' = q
    BY LengthOf DEF QueueOk, Flush
  <1>1. CASE n > 0
    <2>1. flushes' = flushes \cup {[on |-> q.chain[n].id, need |-> mem'.doc]} /\ saved' = saved
      BY <1>1 DEF Flush
    <2>2. q.chain[n].id \in Nat /\ Promised(q, mem'.doc, disk.doc, mem'.doc, q.chain[n].id)
      BY <1>0, <1>1, LastPromises, LengthOf
    <2>3. ASSUME NEW f \in flushes'
          PROVE  /\ f \in [on : Nat, need : Doc]
                 /\ \E i \in 1 .. n : q.chain[i].id = f.on
                 /\ Promised(q, mem'.doc, disk.doc, f.need, f.on)
      <3>1. CASE f \in flushes
        BY <3>1 DEF Types, StateTypes, MemRec
      <3>2. CASE f = [on |-> q.chain[n].id, need |-> mem'.doc]
        <4>1. f.on = q.chain[n].id /\ f.need = mem'.doc /\ f \in [on : Nat, need : Doc]
          BY <2>2, <3>2
        <4> QED BY <1>0, <1>1, <2>2, <4>1
      <3> QED BY <2>1, <3>1, <3>2
    <2> QED BY <1>0, <2>1, <2>3 DEF Types, StateTypes, MemRec, SavedStaysSaved
  <1>2. CASE n = 0
    <2>1. flushes' = flushes
      BY <1>2 DEF Flush
    <2>2. CASE q.failed = "none"
      <3>1. saved' = Max({saved, mem'.doc})
        BY <1>2, <2>2 DEF Flush
      <3>2. mem'.doc <= disk.doc
        BY <1>0, <1>2, <2>2, NothingLeft
      <3>3. Max({saved, mem'.doc}) \in {saved, mem'.doc}
        <4>1. {saved, mem'.doc} \in SUBSET (0 .. MaxDoc) /\ {saved, mem'.doc} # {}
          BY DEF Types, StateTypes, MemRec, Doc
        <4> QED BY <4>1, MaxIsMember, Constants_
      <3> QED BY <1>0, <2>1, <3>1, <3>2, <3>3 DEF Types, StateTypes, MemRec, SavedStaysSaved
    <2>3. CASE q.failed # "none"
      BY <1>0, <1>2, <2>1, <2>3 DEF Flush, Types, StateTypes, MemRec, SavedStaysSaved
    <2> QED BY <2>2, <2>3
  <1> QED BY <1>0, <1>1, <1>2

-----------------------------------------------------------------------------
(* Steps that leave the disk alone and lengthen the line at most.          *)

\* What is common to them: messages are added or read from disk, never dropped.
LEMMA LineStep ==
  ASSUME IInv, QueueOk(queue'), Extends(queue, queue'), disk'.doc = disk.doc,
         mem'.doc \in Doc, mem.doc <= mem'.doc
  PROVE  /\ WriteTrue(queue', mem'.doc, disk'.doc)
         /\ \A f \in flushes : /\ \E i \in 1 .. Len(queue'.chain) : queue'.chain[i].id = f.on
                               /\ Promised(queue', mem'.doc, disk'.doc, f.need, f.on)
         /\ \A k : (\E i \in 1 .. Len(queue.chain) : queue.chain[i].id = k)
              => \E i \in 1 .. Len(queue'.chain) : queue'.chain[i].id = k
  <1>0. /\ mem.doc \in Nat /\ mem'.doc \in Nat /\ disk.doc \in Nat
        /\ LineOk(queue) /\ LineOk(queue')
        /\ Len(queue.chain) \in Nat /\ Len(queue'.chain) \in Nat
    BY Constants_, LengthOf DEF IInv, Types, StateTypes, MemRec, Doc, QueueOk
  <1>1. WriteTrue(queue', mem'.doc, disk'.doc)
    <2> SUFFICES ASSUME queue'.write # None
                 PROVE  IF queue'.chain[1].kind = "product"
                        THEN disk.doc <= queue'.write.doc /\ queue'.write.doc <= mem'.doc
                        ELSE queue'.write.doc = disk.doc /\ queue'.failed # "product"
      BY DEF WriteTrue
    <2>1. queue.write # None /\ Len(queue.chain) > 0
      BY DEF Extends, IInv, QueueOk, LineOk
    <2>2. /\ queue'.chain[1].kind = queue.chain[1].kind /\ queue'.write.doc = queue.write.doc
          /\ queue'.failed = queue.failed /\ queue.write \in WriteRec
      BY <1>0, <2>1 DEF Extends, IInv, QueueOk, LineOk, QueueRec
    <2>3. queue.write.doc \in Nat
      BY <2>2, Constants_ DEF WriteRec, Doc
    <2> QED BY <1>0, <2>1, <2>2, <2>3 DEF IInv, WriteTrue
  <1>2. \A k : (\E i \in 1 .. Len(queue.chain) : queue.chain[i].id = k)
          => \E i \in 1 .. Len(queue'.chain) : queue'.chain[i].id = k
    BY <1>0 DEF Extends
  <1>3. ASSUME NEW f \in flushes
        PROVE  Promised(queue', mem'.doc, disk'.doc, f.need, f.on)
    <2>1. PICK i \in 1 .. Len(queue.chain) : queue.chain[i].id = f.on
      BY DEF IInv, WaitersAreServed
    <2>2. f.on < queue.next /\ Len(queue.chain) > 0
      BY <1>0, <2>1 DEF LineOk
    <2>3. f.on \in Nat /\ f.need \in Nat
      BY Constants_ DEF IInv, Types, StateTypes, MemRec, Doc
    <2> QED BY <1>0, <2>2, <2>3, PromiseKept DEF IInv, WaitersAreServed
  <1>4. \A f \in flushes : \E i \in 1 .. Len(queue'.chain) : queue'.chain[i].id = f.on
    BY <1>2 DEF IInv, WaitersAreServed
  <1> QED BY <1>1, <1>2, <1>3, <1>4

\* The line as it was, with the memory as it was: what is in memory is as
\* known as before.
LEMMA StillKnown ==
  ASSUME IInv, QueueOk(queue'), Extends(queue, queue'), disk'.doc = disk.doc,
         mem'.doc = mem.doc, ~queue.pending, queue'.failed = queue.failed,
         queue'.chain = queue.chain, queue'.next = queue.next
  PROVE  Promised(queue', mem'.doc, disk'.doc, mem'.doc, queue'.next)
  BY DEF IInv, MemoryIsKnown, Promised, Waiting, Extends

\* Steps that lengthen the line and let nobody new wait.
LEMMA QuietStep ==
  ASSUME IInv, Types', QueueOk(queue'), Extends(queue, queue'), disk'.doc = disk.doc,
         mem.doc <= mem'.doc, UNCHANGED <<flushes, saved>>,
         ColdIsSaved', SweepIsAlone', MemoryIsKnown',
         sweep' = sweep
  PROVE  IInv'
  <1>1. mem'.doc \in Doc
    BY DEF Types, StateTypes, MemRec
  <1>2. WriteTrue(queue, mem.doc, disk.doc)' /\ WaitersAreServed'
    BY <1>1, LineStep DEF WaitersAreServed, IInv
  <1> QED BY <1>2 DEF IInv, SavedStaysSaved

\* Messages come from the disk when they are not in memory.
LEMMA LoadedIsMore ==
  ASSUME IInv
  PROVE  /\ Loaded(mem) \in MemRec
         /\ Loaded(mem).warm /\ Loaded(mem).used /\ Loaded(mem).busy = mem.busy
         /\ mem.doc <= Loaded(mem).doc /\ disk.doc <= Loaded(mem).doc
         /\ Loaded(mem).doc = IF mem.warm THEN mem.doc ELSE disk.doc
  <1>1. /\ mem \in MemRec
        /\ disk.doc \in Doc /\ disk.meta \in Meta /\ mem.doc \in Nat /\ disk.doc \in Nat
        /\ mem.warm => disk.doc <= mem.doc
        /\ ~mem.warm => mem.doc = 0
    BY Constants_ DEF IInv, Types, StateTypes, MemRec, ColdIsSaved, Doc
  <1>2. CASE mem.warm
    <2>1. Loaded(mem) = [mem EXCEPT !.used = TRUE]
      BY <1>2 DEF Loaded
    <2>2. Loaded(mem) \in MemRec
      BY <1>1, <2>1 DEF MemRec
    <2>3. /\ Loaded(mem).warm = mem.warm /\ Loaded(mem).used = TRUE
          /\ Loaded(mem).busy = mem.busy /\ Loaded(mem).doc = mem.doc
      BY <1>1, <2>1 DEF MemRec
    <2> QED BY <1>1, <1>2, <2>2, <2>3
  <1>3. CASE ~mem.warm
    <2>1. Loaded(mem) = [mem EXCEPT !.warm = TRUE, !.doc = disk.doc, !.meta = disk.meta, !.used = TRUE]
      BY <1>3 DEF Loaded
    <2>2. Loaded(mem) \in MemRec
      BY <1>1, <2>1 DEF MemRec
    <2>3. /\ Loaded(mem).warm = TRUE /\ Loaded(mem).used = TRUE
          /\ Loaded(mem).busy = mem.busy /\ Loaded(mem).doc = disk.doc
      BY <1>1, <2>1 DEF MemRec
    <2> QED BY <1>1, <1>3, <2>2, <2>3
  <1> QED BY <1>2, <1>3

LEMMA HydratedIsMore ==
  ASSUME IInv
  PROVE  /\ Hydrated(mem) \in MemRec
         /\ Hydrated(mem).warm /\ Hydrated(mem).used = mem.used /\ Hydrated(mem).busy = mem.busy
         /\ mem.doc <= Hydrated(mem).doc /\ disk.doc <= Hydrated(mem).doc
  <1>1. /\ mem \in MemRec
        /\ disk.doc \in Doc /\ disk.meta \in Meta /\ mem.doc \in Nat /\ disk.doc \in Nat
        /\ mem.warm => disk.doc <= mem.doc
        /\ ~mem.warm => mem.doc = 0
    BY Constants_ DEF IInv, Types, StateTypes, MemRec, ColdIsSaved, Doc
  <1>2. CASE mem.warm
    <2>1. Hydrated(mem) = mem
      BY <1>2 DEF Hydrated
    <2>2. Hydrated(mem) \in MemRec
      BY <1>1, <2>1 DEF MemRec
    <2>3. /\ Hydrated(mem).warm = mem.warm /\ Hydrated(mem).used = mem.used
          /\ Hydrated(mem).busy = mem.busy /\ Hydrated(mem).doc = mem.doc
      BY <1>1, <2>1 DEF MemRec
    <2> QED BY <1>1, <1>2, <2>2, <2>3
  <1>3. CASE ~mem.warm
    <2>1. Hydrated(mem) = [mem EXCEPT !.warm = TRUE, !.doc = disk.doc]
      BY <1>3 DEF Hydrated
    <2>2. Hydrated(mem) \in MemRec
      BY <1>1, <2>1 DEF MemRec
    <2>3. /\ Hydrated(mem).warm = TRUE /\ Hydrated(mem).used = mem.used
          /\ Hydrated(mem).busy = mem.busy /\ Hydrated(mem).doc = disk.doc
      BY <1>1, <2>1 DEF MemRec
    <2> QED BY <1>1, <1>3, <2>2, <2>3
  <1> QED BY <1>2, <1>3

\* A change of the session is enqueued, and perhaps flushed at once.
LEMMA ChangeStep ==
  ASSUME IInv, StateTypes', mem.doc <= mem'.doc, disk.doc <= mem'.doc, mem'.warm,
         UNCHANGED <<disk, sweep>>, sweep.pc = "idle" \/ mem'.used,
         \/ queue' = Enqueued(queue) /\ UNCHANGED <<flushes, saved>>
         \/ Flush(Write(Enqueued(queue)))
  PROVE  IInv'
  <1>0. /\ QueueOk(queue) /\ mem'.doc \in Doc /\ mem'.doc \in Nat /\ disk.doc \in Nat
        /\ queue.next \in Nat
    BY Constants_, LengthOf DEF IInv, Types, StateTypes, MemRec, Doc, QueueOk
  <1> DEFINE q == Enqueued(queue)
  <1>1. /\ QueueOk(q) /\ q.pending /\ Extends(queue, q) /\ q.next = queue.next
        /\ q.chain = queue.chain
    BY <1>0, EnqueuedOk
  <1>2. ColdIsSaved' /\ SweepIsAlone'
    BY DEF ColdIsSaved, SweepIsAlone
  <1>3. CASE queue' = q /\ UNCHANGED <<flushes, saved>>
    <2>1. MemoryIsKnown'
      BY <1>1, <1>3 DEF MemoryIsKnown
    <2>2. Types'
      BY <1>3 DEF IInv, Types
    <2> QED BY <1>1, <1>2, <1>3, <2>1, <2>2, QuietStep
  <1>4. CASE Flush(Write(q))
    <2> DEFINE p == Write(q)
    <2>1. queue' = p
      BY <1>4 DEF Flush
    <2> HIDE DEF q
    <2>2. /\ QueueOk(p) /\ p.pending = FALSE /\ Extends(q, p) /\ Len(p.chain) = Len(q.chain) + 1
          /\ Waiting(p, Len(q.chain) + 1) /\ p.chain[Len(q.chain) + 1].id < p.next
      BY <1>1, WriteOk
    <2> HIDE DEF p
    <2>3. Extends(queue, p)
      BY <1>0, <1>1, <2>2, ExtendsTrans DEF QueueOk
    <2>4. Promised(p, mem'.doc, disk.doc, mem'.doc, p.next)
      <3>1. /\ Len(q.chain) + 1 \in 1 .. Len(p.chain) /\ p.next \in Nat
            /\ p.chain[Len(q.chain) + 1].id \in Nat
        BY <1>1, <2>2, LengthOf DEF QueueOk
      <3> QED BY <1>0, <2>2, <3>1, WaitingPromises, SMTT(30)
    <2>5. /\ WriteTrue(queue, mem.doc, disk.doc)'
          /\ \A f \in flushes : /\ \E i \in 1 .. Len(p.chain) : p.chain[i].id = f.on
                                /\ Promised(p, mem'.doc, disk.doc, f.need, f.on)
          /\ \A k : (\E i \in 1 .. Len(queue.chain) : queue.chain[i].id = k)
               => \E i \in 1 .. Len(p.chain) : p.chain[i].id = k
      BY <1>0, <2>1, <2>2, <2>3, LineStep
    <2>6. /\ flushes' \subseteq [on : Nat, need : Doc] /\ saved' \in Doc /\ saved' <= disk.doc
          /\ \A f \in flushes' : /\ \E i \in 1 .. Len(p.chain) : p.chain[i].id = f.on
                                 /\ Promised(p, mem'.doc, disk.doc, f.need, f.on)
      BY <1>0, <1>4, <2>2, <2>4, <2>5, FlushStep DEF IInv, p
    <2>7. WaitersAreServed'
      BY <2>1, <2>5, <2>6 DEF WaitersAreServed, IInv
    <2>8. MemoryIsKnown' /\ SavedStaysSaved'
      BY <2>1, <2>4, <2>6 DEF MemoryIsKnown, SavedStaysSaved
    <2>9. Types'
      BY <2>6 DEF Types
    <2> QED BY <1>2, <2>1, <2>2, <2>5, <2>7, <2>8, <2>9 DEF IInv
  <1> QED BY <1>3, <1>4

-----------------------------------------------------------------------------
(* The manager.                                                            *)

LEMMA MessageStep == ASSUME IInv, Message PROVE IInv'
  <1>1. /\ mem' = [Loaded(mem) EXCEPT !.doc = @ + 1] /\ Loaded(mem).doc < MaxDoc
        /\ UNCHANGED <<disk, sweep, edits, faults>>
    BY DEF Message
  <1>2. \/ queue' = Enqueued(queue) /\ UNCHANGED <<flushes, saved>>
        \/ Flush(Write(Enqueued(queue)))
    BY DEF Message
  <1>3. /\ Loaded(mem) \in MemRec /\ Loaded(mem).doc \in Nat /\ mem.doc \in Nat /\ disk.doc \in Nat
        /\ mem.doc <= Loaded(mem).doc /\ disk.doc <= Loaded(mem).doc
        /\ Loaded(mem).warm = TRUE /\ Loaded(mem).used = TRUE
    BY LoadedIsMore, Constants_ DEF IInv, Types, StateTypes, MemRec, Doc
  <1>4. mem'.doc = Loaded(mem).doc + 1 /\ mem'.doc \in Doc
    BY <1>1, <1>3, Constants_ DEF MemRec, Doc
  <1>5. mem' \in MemRec /\ mem'.warm = TRUE /\ mem'.used = TRUE
    BY <1>1, <1>3, <1>4 DEF MemRec
  <1>6. StateTypes'
    BY <1>1, <1>5 DEF IInv, Types, StateTypes
  <1> QED BY <1>1, <1>2, <1>3, <1>4, <1>5, <1>6, ChangeStep

LEMMA LocalEditStep == ASSUME IInv, ~Hurried, LocalEdit PROVE IInv'
  <1>1. /\ mem' = [Hydrated(mem) EXCEPT !.meta = edits + 1] /\ edits < MaxMeta
        /\ edits' = edits + 1 /\ sweep.pc = "idle" /\ UNCHANGED <<disk, sweep, faults>>
    BY DEF LocalEdit, Calm
  <1>2. \/ queue' = Enqueued(queue) /\ UNCHANGED <<flushes, saved>>
        \/ Flush(Write(Enqueued(queue)))
    BY DEF LocalEdit
  <1>3. /\ Hydrated(mem) \in MemRec /\ mem.doc <= Hydrated(mem).doc
        /\ disk.doc <= Hydrated(mem).doc /\ Hydrated(mem).warm = TRUE
    BY HydratedIsMore DEF MemRec
  <1>4. edits + 1 \in Meta
    BY <1>1, Constants_ DEF IInv, Types, StateTypes, Meta
  <1>5. mem' \in MemRec /\ mem'.warm = TRUE /\ mem'.doc = Hydrated(mem).doc
    BY <1>1, <1>3, <1>4 DEF MemRec
  <1>6. StateTypes'
    BY <1>1, <1>4, <1>5 DEF IInv, Types, StateTypes
  <1> QED BY <1>1, <1>2, <1>3, <1>5, <1>6, ChangeStep

\* A snapshot leaves the debounce for the line.
LEMMA WritePromises ==
  ASSUME IInv
  PROVE  Promised(Write(queue), mem.doc, disk.doc, mem.doc, Write(queue).next)
  <1> DEFINE p == Write(queue)
  <1>0. QueueOk(queue) /\ mem.doc \in Nat
    BY Constants_ DEF IInv, Types, StateTypes, MemRec, Doc
  <1>1. CASE queue.pending
    <2>1. /\ QueueOk(p) /\ Len(p.chain) = Len(queue.chain) + 1
          /\ Waiting(p, Len(queue.chain) + 1) /\ p.chain[Len(queue.chain) + 1].id < p.next
      BY <1>0, <1>1, WriteOk
    <2> HIDE DEF p
    <2>2. /\ Len(queue.chain) + 1 \in 1 .. Len(p.chain) /\ p.next \in Nat
          /\ p.chain[Len(queue.chain) + 1].id \in Nat
      BY <1>0, <2>1, LengthOf DEF QueueOk
    <2> QED BY <1>0, <2>1, <2>2, WaitingPromises DEF p
  <1>2. CASE ~queue.pending
    BY <1>2 DEF IInv, MemoryIsKnown, Write
  <1> QED BY <1>1, <1>2

\* What pending has to do with those who use the session: a snapshot is pending
\* only of a session that is in memory, and not behind the sweep's back.
LEMMA WriteIsSeen ==
  ASSUME IInv, NEW p, p = Write(queue)
  PROVE  /\ ~mem.warm => /\ ~p.pending
                         /\ \A i \in 1 .. Len(p.chain) : p.chain[i].kind = "metadata"
         /\ sweep.pc # "idle" /\ ~mem.used =>
              /\ ~p.pending
              /\ \A i \in 1 .. Len(p.chain) : p.chain[i].kind = "product" =>
                   sweep.pc = "flushing" /\ p.chain[i].id <= sweep.on
  BY DEF IInv, ColdIsSaved, SweepIsAlone, Write

LEMMA WriteStep ==
  ASSUME IInv, StateTypes', UNCHANGED <<mem, disk, sweep>>,
         \/ queue' = Write(queue) /\ UNCHANGED <<flushes, saved>>
         \/ Flush(Write(queue))
  PROVE  IInv'
  <1> DEFINE p == Write(queue)
  <1>0. /\ QueueOk(queue) /\ mem.doc \in Nat /\ mem.doc \in Doc /\ mem.doc <= mem.doc
    BY Constants_ DEF IInv, Types, StateTypes, MemRec, Doc
  <1>1. queue' = p
    BY DEF Flush
  <1>2. QueueOk(p) /\ p.pending = FALSE /\ Extends(queue, p)
    BY <1>0, WriteOk
  <1>3. Promised(p, mem.doc, disk.doc, mem.doc, p.next)
    BY WritePromises
  <1>4. ColdIsSaved' /\ SweepIsAlone'
    BY <1>1, WriteIsSeen DEF IInv, ColdIsSaved, SweepIsAlone
  <1> HIDE DEF p
  <1>5. MemoryIsKnown'
    BY <1>1, <1>3 DEF MemoryIsKnown
  <1>6. CASE UNCHANGED <<flushes, saved>>
    <2>1. Types'
      BY <1>6 DEF IInv, Types
    <2> QED BY <1>0, <1>1, <1>2, <1>4, <1>5, <1>6, <2>1, QuietStep
  <1>7. CASE Flush(p)
    <2>1. /\ WriteTrue(queue, mem.doc, disk.doc)'
          /\ \A f \in flushes : /\ \E i \in 1 .. Len(p.chain) : p.chain[i].id = f.on
                                /\ Promised(p, mem'.doc, disk.doc, f.need, f.on)
          /\ \A k : (\E i \in 1 .. Len(queue.chain) : queue.chain[i].id = k)
               => \E i \in 1 .. Len(p.chain) : p.chain[i].id = k
      BY <1>0, <1>1, <1>2, LineStep
    <2>2. /\ flushes' \subseteq [on : Nat, need : Doc] /\ saved' \in Doc /\ saved' <= disk.doc
          /\ \A f \in flushes' : /\ \E i \in 1 .. Len(p.chain) : p.chain[i].id = f.on
                                 /\ Promised(p, mem'.doc, disk.doc, f.need, f.on)
      BY <1>0, <1>2, <1>3, <1>7, <2>1, FlushStep DEF IInv
    <2>3. WaitersAreServed' /\ SavedStaysSaved' /\ Types'
      BY <1>1, <2>1, <2>2 DEF WaitersAreServed, SavedStaysSaved, Types, IInv
    <2> QED BY <1>1, <1>2, <1>4, <1>5, <2>1, <2>3 DEF IInv
  <1> QED BY <1>6, <1>7 DEF p

LEMMA FlushSessionStep == ASSUME IInv, FlushSession PROVE IInv'
  BY WriteStep DEF FlushSession, IInv, Types, StateTypes

LEMMA TimerStep == ASSUME IInv, Timer PROVE IInv'
  BY WriteStep DEF Timer, IInv, Types, StateTypes

\* The line stays, whatever becomes of the session.
LEMMA SameLineStep ==
  ASSUME IInv, Types', UNCHANGED <<queue, flushes, saved, sweep>>, disk'.doc = disk.doc,
         mem.doc <= mem'.doc, ColdIsSaved', SweepIsAlone', MemoryIsKnown'
  PROVE  IInv'
  <1>1. QueueOk(queue) /\ Extends(queue, queue)
    BY LengthOf DEF IInv, QueueOk, Extends
  <1>2. QueueOk(queue') /\ Extends(queue, queue')
    BY <1>1
  <1> QED BY <1>2, QuietStep

\* What is pending is cancelled and taken again.
LEMMA CancelStep ==
  ASSUME IInv, Types', queue' = Enqueued(Cancel(queue)), UNCHANGED <<disk, sweep, flushes, saved>>,
         mem.doc <= mem'.doc, disk.doc <= mem'.doc, mem'.warm,
         sweep.pc = "idle" \/ mem'.used
  PROVE  IInv'
  <1>1. QueueOk(queue') /\ queue'.pending /\ Extends(queue, queue')
    BY CancelOk DEF IInv
  <1>2. ColdIsSaved' /\ SweepIsAlone' /\ MemoryIsKnown'
    BY <1>1 DEF ColdIsSaved, SweepIsAlone, MemoryIsKnown
  <1> QED BY <1>1, <1>2, QuietStep

LEMMA Basics ==
  ASSUME IInv
  PROVE  /\ mem \in MemRec /\ mem.doc \in Nat /\ mem.doc \in Doc /\ mem.meta \in Meta
         /\ disk.doc \in Nat /\ disk.doc \in Doc /\ disk.meta \in Meta
         /\ mem.deferred \in Meta \cup {None} /\ Types /\ QueueOk(queue) /\ LineOk(queue)
  BY Constants_ DEF IInv, Types, StateTypes, MemRec, Doc, QueueOk

LEMMA WatchStep == ASSUME IInv, ~Hurried, Watch PROVE IInv'
  <1>1. sweep.pc = "idle" /\ UNCHANGED <<disk, sweep, flushes, saved, edits, faults>>
    BY DEF Watch, Calm
  <1>2. CASE UNCHANGED <<mem, queue>>
    BY <1>1, <1>2, SameLineStep, Basics
       DEF IInv, Types, StateTypes, ColdIsSaved, SweepIsAlone, MemoryIsKnown
  <1>3. CASE mem' = [mem EXCEPT !.deferred = disk.meta] /\ UNCHANGED queue
    <2>1. /\ mem' \in MemRec /\ mem'.doc = mem.doc /\ mem'.warm = mem.warm
          /\ mem'.busy = mem.busy /\ mem'.used = mem.used
      BY <1>3, Basics DEF MemRec
    <2>2. Types'
      BY <1>1, <2>1 DEF IInv, Types, StateTypes
    <2>3. ColdIsSaved' /\ SweepIsAlone' /\ MemoryIsKnown'
      BY <1>1, <1>3, <2>1 DEF IInv, ColdIsSaved, SweepIsAlone, MemoryIsKnown
    <2> QED BY <1>1, <1>3, <2>1, <2>2, <2>3, SameLineStep, Basics
  <1>4. CASE ApplyExternal(mem, disk.meta) /\ mem.meta # disk.meta
    <2>1. mem' = [Hydrated(mem) EXCEPT !.meta = disk.meta] /\ queue' = Enqueued(Cancel(queue))
      BY <1>4 DEF ApplyExternal
    <2>2. /\ mem' \in MemRec /\ mem.doc <= mem'.doc /\ disk.doc <= mem'.doc /\ mem'.warm = TRUE
      BY <2>1, HydratedIsMore, Basics DEF MemRec
    <2>3. Types'
      BY <1>1, <2>2 DEF IInv, Types, StateTypes
    <2> QED BY <1>1, <2>1, <2>2, <2>3, CancelStep
  <1> QED BY <1>2, <1>3, <1>4 DEF Watch, ApplyExternal

LEMMA TurnBeginsStep == ASSUME IInv, TurnBegins PROVE IInv'
  <1>1. /\ mem' = [Loaded(mem) EXCEPT !.busy = TRUE]
        /\ UNCHANGED <<disk, queue, sweep, flushes, saved, edits, faults>>
    BY DEF TurnBegins
  <1>2. /\ mem' \in MemRec /\ mem.doc <= mem'.doc /\ disk.doc <= mem'.doc
        /\ mem'.warm = TRUE /\ mem'.used = TRUE
        /\ mem'.doc = IF mem.warm THEN mem.doc ELSE disk.doc
    BY <1>1, LoadedIsMore DEF MemRec
  <1>3. Types'
    BY <1>1, <1>2 DEF IInv, Types, StateTypes
  <1>4. ColdIsSaved' /\ SweepIsAlone'
    BY <1>1, <1>2 DEF ColdIsSaved, SweepIsAlone
  <1>5. MemoryIsKnown'
    <2>1. CASE mem.warm
      BY <1>1, <1>2, <2>1 DEF IInv, MemoryIsKnown
    <2>2. CASE ~mem.warm
      BY <1>1, <1>2, <2>2, Basics DEF MemoryIsKnown, Promised
    <2> QED BY <2>1, <2>2
  <1> QED BY <1>1, <1>2, <1>3, <1>4, <1>5, SameLineStep

LEMMA TurnEndsStep == ASSUME IInv, TurnEnds PROVE IInv'
  <1> DEFINE m == [mem EXCEPT !.busy = FALSE, !.deferred = None]
  <1>1. mem.busy /\ UNCHANGED <<disk, sweep, flushes, saved, edits, faults>>
    BY DEF TurnEnds
  <1>2. \/ mem' = m /\ UNCHANGED queue
        \/ /\ mem' = [Hydrated(m) EXCEPT !.meta = mem.deferred]
           /\ queue' = Enqueued(Cancel(queue)) /\ mem.deferred # None
    BY DEF TurnEnds, ApplyExternal
  <1>3. mem.warm /\ (sweep.pc = "idle" \/ mem.used) /\ disk.doc <= mem.doc
    BY <1>1 DEF IInv, ColdIsSaved, SweepIsAlone
  <1>4. /\ m \in MemRec /\ m.doc = mem.doc /\ m.warm = mem.warm /\ m.used = mem.used
        /\ m.busy = FALSE
    BY Basics DEF MemRec
  <1> HIDE DEF m
  <1>5. CASE mem' = m /\ UNCHANGED queue
    <2>1. Types'
      BY <1>1, <1>4, <1>5 DEF IInv, Types, StateTypes
    <2>2. ColdIsSaved' /\ SweepIsAlone'
      BY <1>1, <1>3, <1>4, <1>5 DEF ColdIsSaved, SweepIsAlone
    <2>3. MemoryIsKnown'
      BY <1>1, <1>4, <1>5 DEF IInv, MemoryIsKnown
    <2> QED BY <1>1, <1>4, <1>5, <2>1, <2>2, <2>3, SameLineStep, Basics
  <1>6. CASE /\ mem' = [Hydrated(m) EXCEPT !.meta = mem.deferred]
             /\ queue' = Enqueued(Cancel(queue)) /\ mem.deferred # None
    <2>1. Hydrated(m) = m
      BY <1>3, <1>4 DEF Hydrated
    <2>2. mem.deferred \in Meta
      BY <1>6, Basics
    <2>3. mem' \in MemRec /\ mem'.doc = mem.doc /\ mem'.warm = mem.warm /\ mem'.used = mem.used
      BY <1>4, <1>6, <2>1, <2>2 DEF MemRec
    <2>4. Types'
      BY <1>1, <2>3 DEF IInv, Types, StateTypes
    <2>5. /\ mem.doc <= mem'.doc /\ disk.doc <= mem'.doc /\ mem'.warm
          /\ sweep.pc = "idle" \/ mem'.used
      BY <1>3, <2>3, Basics
    <2> QED BY <1>1, <1>6, <2>4, <2>5, CancelStep
  <1> QED BY <1>2, <1>5, <1>6

-----------------------------------------------------------------------------
(* The others.                                                             *)

LEMMA PublishStep == ASSUME IInv, Publish PROVE IInv'
  <1>1. /\ queue.write # None /\ UNCHANGED <<mem, disk, sweep, flushes, saved, edits, faults>>
        /\ queue' = [queue EXCEPT !.write.pc = "rename",
                       !.sig = IF Job.kind = "product" THEN queue.write.meta ELSE @]
    BY DEF Publish
  <1>2. queue \in QueueRec /\ queue.write \in WriteRec
    BY <1>1, Basics DEF LineOk, QueueRec
  <1>3. queue.write.meta \in Meta \cup {None} /\ [queue.write EXCEPT !.pc = "rename"] \in WriteRec
    BY <1>2 DEF WriteRec
  <1>4. /\ queue' \in QueueRec /\ queue'.write \in WriteRec /\ queue'.write.doc = queue.write.doc
        /\ queue'.chain = queue.chain /\ queue'.next = queue.next
        /\ queue'.pending = queue.pending /\ queue'.failed = queue.failed
    BY <1>1, <1>2, <1>3 DEF QueueRec, WriteRec
  <1>5. queue'.write # None
    BY <1>4, Constants_
  <1>6. QueueOk(queue')
    BY <1>1, <1>4, Basics DEF QueueOk, LineOk
  <1>7. Extends(queue, queue')
    BY <1>1, <1>4, <1>5, Basics, LengthOf DEF Extends
  <1>8. Types' /\ ColdIsSaved' /\ SweepIsAlone'
    BY <1>1, <1>4 DEF IInv, Types, StateTypes, ColdIsSaved, SweepIsAlone
  <1>9. MemoryIsKnown'
    BY <1>1, <1>4, <1>5 DEF IInv, MemoryIsKnown, Promised, Waiting
  <1> QED BY <1>1, <1>6, <1>7, <1>8, <1>9, QuietStep, Basics

LEMMA ExternalEditStep == ASSUME IInv, ExternalEdit PROVE IInv'
  <1>1. /\ disk' = [disk EXCEPT !.meta = edits + 1] /\ edits < MaxMeta /\ edits' = edits + 1
        /\ UNCHANGED <<mem, queue, sweep, flushes, saved, faults>>
    BY DEF ExternalEdit
  <1>2. edits + 1 \in Meta
    BY <1>1, Constants_ DEF IInv, Types, StateTypes, Meta
  <1>3. disk' \in [doc : Doc, meta : Meta] /\ disk'.doc = disk.doc
    BY <1>1, <1>2 DEF IInv, Types, StateTypes
  <1>4. Types'
    BY <1>1, <1>2, <1>3 DEF IInv, Types, StateTypes
  <1>5. ColdIsSaved' /\ SweepIsAlone' /\ MemoryIsKnown'
    BY <1>1, <1>3 DEF IInv, ColdIsSaved, SweepIsAlone, MemoryIsKnown
  <1> QED BY <1>1, <1>3, <1>4, <1>5, SameLineStep, Basics

\* The metadata edit goes behind the snapshot that was pending.
LEMMA UpdateMetadataStep == ASSUME IInv, UpdateMetadata PROVE IInv'
  <1> DEFINE p == Write(queue)
             o == Appended(p, "metadata", edits + 1)
  <1>1. /\ queue' = o /\ edits < MaxMeta /\ edits' = edits + 1
        /\ UNCHANGED <<mem, disk, sweep, flushes, saved, faults>>
    BY DEF UpdateMetadata
  <1>2. edits + 1 \in Meta
    BY <1>1, Constants_ DEF IInv, Types, StateTypes, Meta
  <1>3. /\ QueueOk(p) /\ LineOk(p) /\ p.pending = FALSE /\ Extends(queue, p)
        /\ p.failed = queue.failed /\ p.write = queue.write
    BY WriteOk, Basics DEF QueueOk
  <1>4. Promised(p, mem.doc, disk.doc, mem.doc, p.next)
    BY WritePromises
  <1>5. /\ ~mem.warm => \A i \in 1 .. Len(p.chain) : p.chain[i].kind = "metadata"
        /\ sweep.pc # "idle" /\ ~mem.used =>
             \A i \in 1 .. Len(p.chain) : p.chain[i].kind = "product" =>
               sweep.pc = "flushing" /\ p.chain[i].id <= sweep.on
    BY WriteIsSeen
  <1> HIDE DEF p
  <1>6. /\ QueueOk(o) /\ o.next = p.next + 1 /\ o.write = p.write /\ o.failed = p.failed
        /\ o.pending = FALSE /\ Len(o.chain) = Len(p.chain) + 1
        /\ o.chain[Len(p.chain) + 1].kind = "metadata" /\ o.chain[Len(p.chain) + 1].id = p.next
        /\ \A i \in 1 .. Len(p.chain) : o.chain[i] = p.chain[i]
    BY <1>2, <1>3, AppendedOk
  <1> HIDE DEF o
  <1>7. Len(p.chain) \in Nat /\ p.next \in Nat /\ Len(queue.chain) \in Nat /\ queue.next \in Nat
    BY <1>3, LengthOf, Basics
  <1>8. Extends(queue, o)
    <2>1. \A i \in 1 .. Len(queue.chain) : i \in 1 .. Len(p.chain)
      BY <1>3, <1>7 DEF Extends
    <2>2. \A i \in 1 .. Len(o.chain) : i \in 1 .. Len(p.chain) \/ i = Len(p.chain) + 1
      BY <1>6, <1>7
    <2>3. ASSUME NEW i \in 1 .. Len(queue.chain)
          PROVE  o.chain[i].id = queue.chain[i].id /\ o.chain[i].kind = queue.chain[i].kind
      BY <1>3, <1>6, <2>1 DEF Extends
    <2>4. ASSUME NEW i \in 1 .. Len(o.chain), i > Len(queue.chain)
          PROVE  o.chain[i].id >= queue.next
      BY <1>3, <1>6, <1>7, <2>2, <2>4 DEF Extends
    <2>5. /\ Len(queue.chain) <= Len(o.chain) /\ queue.next <= o.next
          /\ o.write = queue.write /\ o.failed = queue.failed
      BY <1>3, <1>6, <1>7 DEF Extends
    <2> QED BY <2>3, <2>4, <2>5 DEF Extends
  <1>9. Promised(o, mem.doc, disk.doc, mem.doc, o.next)
    <2>1. \A i \in 1 .. Len(p.chain) : /\ o.chain[i].id <= o.next /\ i \in 1 .. Len(o.chain)
                                       /\ p.chain[i].id <= p.next
      BY <1>3, <1>6, <1>7, LengthOf, SMTT(30)
    <2>2. \A i \in 1 .. Len(o.chain) : i \in 1 .. Len(p.chain) \/ i = Len(p.chain) + 1
      BY <1>6, <1>7
    <2>3. p.write # None => Len(p.chain) > 0 /\ o.chain[1] = p.chain[1]
      BY <1>3, <1>6, <1>7 DEF LineOk
    <2> QED BY <1>4, <1>6, <2>1, <2>2, <2>3 DEF Promised, Waiting
  <1>10. ColdIsSaved' /\ SweepIsAlone'
    <2>1. \A i \in 1 .. Len(o.chain) : i \in 1 .. Len(p.chain) \/ i = Len(p.chain) + 1
      BY <1>6, <1>7
    <2> QED BY <1>1, <1>5, <1>6, <2>1 DEF IInv, ColdIsSaved, SweepIsAlone
  <1>11. Types' /\ MemoryIsKnown'
    BY <1>1, <1>2, <1>9 DEF IInv, Types, StateTypes, MemoryIsKnown
  <1> QED BY <1>1, <1>6, <1>8, <1>10, <1>11, QuietStep, Basics

\* The sweep waits for the last write of the line as it then is.
LEMMA SweepStep == ASSUME IInv, Sweep PROVE IInv'
  <1> DEFINE p == Write(queue)
             n == Len(p.chain)
  <1>1. /\ mem' = [mem EXCEPT !.used = FALSE] /\ mem.warm /\ ~mem.busy /\ queue' = p
        /\ sweep' = IF p.chain # <<>> THEN [pc |-> "flushing", on |-> p.chain[Len(p.chain)].id]
                    ELSE [pc |-> IF p.failed = "none" THEN "retiring" ELSE "idle", on |-> 0]
        /\ UNCHANGED <<disk, flushes, saved, edits, faults>>
    BY DEF Sweep
  <1>2. QueueOk(p) /\ LineOk(p) /\ p.pending = FALSE /\ Extends(queue, p)
    BY WriteOk, Basics DEF QueueOk
  <1>3. Promised(p, mem.doc, disk.doc, mem.doc, p.next)
    BY WritePromises
  <1> HIDE DEF p
  <1>4. /\ mem' \in MemRec /\ mem'.doc = mem.doc /\ mem'.warm = mem.warm
        /\ mem'.busy = mem.busy /\ mem'.used = FALSE
    BY <1>1, Basics DEF MemRec
  <1>5. /\ n \in Nat /\ n > 0 => p.chain[n].id \in Nat
        /\ \A i \in 1 .. n : p.chain[i].id <= p.chain[n].id
    <2>1. n \in Nat /\ \A i \in 1 .. n : p.chain[i].id \in Nat /\ (i = n \/ i < n)
      BY <1>2, LengthOf
    <2> QED BY <1>2, <2>1 DEF LineOk
  <1>6. p.chain = <<>> <=> n = 0
    BY <1>2, LengthOf
  <1>7. /\ n > 0 => sweep' = [pc |-> "flushing", on |-> p.chain[n].id]
        /\ n = 0 => sweep' \in {[pc |-> "retiring", on |-> 0], [pc |-> "idle", on |-> 0]}
    BY <1>1, <1>5, <1>6
  <1>8. sweep' \in [pc : {"idle", "flushing", "retiring"}, on : Nat]
    BY <1>5, <1>7
  <1>9. Types'
    BY <1>1, <1>4, <1>8 DEF IInv, Types, StateTypes
  <1>10. ColdIsSaved'
    BY <1>1, <1>4 DEF IInv, ColdIsSaved
  <1>11. SweepIsAlone'
    <2>1. ~mem'.busy
      BY <1>1, <1>4
    <2>2. ASSUME NEW i \in 1 .. Len(queue'.chain)
          PROVE  sweep'.pc = "flushing" /\ queue'.chain[i].id <= sweep'.on
      BY <1>1, <1>5, <1>7
    <2> QED BY <1>1, <1>2, <2>1, <2>2 DEF SweepIsAlone
  <1>12. MemoryIsKnown'
    BY <1>1, <1>3, <1>4 DEF MemoryIsKnown
  <1>13. /\ WriteTrue(queue, mem.doc, disk.doc)'
         /\ \A f \in flushes : /\ \E i \in 1 .. n : p.chain[i].id = f.on
                               /\ Promised(p, mem'.doc, disk'.doc, f.need, f.on)
    BY <1>1, <1>2, <1>4, LineStep, Basics
  <1>14. WaitersAreServed'
    <2>1. sweep'.pc = "flushing" => n > 0 /\ sweep'.on = p.chain[n].id
      BY <1>5, <1>7
    <2>2. sweep'.pc = "flushing" => \E i \in 1 .. n : p.chain[i].id = sweep'.on
      BY <1>5, <2>1
    <2> QED BY <1>1, <1>13, <2>2 DEF WaitersAreServed
  <1> QED BY <1>1, <1>2, <1>9, <1>10, <1>11, <1>12, <1>13, <1>14 DEF IInv, SavedStaysSaved

\* The messages leave memory when the line has no snapshot to take.
LEMMA EvictStep == ASSUME IInv, Evict PROVE IInv'
  <1>1. /\ sweep.pc = "retiring" /\ sweep' = [pc |-> "idle", on |-> 0]
        /\ mem' = IF mem.busy \/ queue.pending \/ mem.used THEN mem
                  ELSE [mem EXCEPT !.doc = 0, !.warm = FALSE]
        /\ UNCHANGED <<disk, queue, flushes, saved, edits, faults>>
    BY DEF Evict
  <1>2. sweep'.pc = "idle" /\ sweep' \in [pc : {"idle", "flushing", "retiring"}, on : Nat]
    BY <1>1
  <1>3. SweepIsAlone'
    BY <1>2 DEF SweepIsAlone
  <1>4. CASE mem' = mem
    BY <1>1, <1>2, <1>3, <1>4
       DEF IInv, Types, StateTypes, ColdIsSaved, WaitersAreServed, MemoryIsKnown, SavedStaysSaved
  <1>5. CASE ~(mem.busy \/ queue.pending \/ mem.used)
    <2>1. \A i \in 1 .. Len(queue.chain) : queue.chain[i].kind # "product"
      BY <1>1, <1>5 DEF IInv, SweepIsAlone
    <2>2. \A i \in 1 .. Len(queue.chain) : queue.chain[i].kind = "metadata"
      BY <2>1, LengthOf, Basics
    <2>3. /\ mem' \in MemRec /\ mem'.doc = 0 /\ mem'.warm = FALSE /\ mem'.busy = mem.busy
      BY <1>1, <1>5, Basics, Constants_ DEF MemRec
    <2>4. Types'
      BY <1>1, <1>2, <2>3 DEF IInv, Types, StateTypes
    <2>5. ColdIsSaved'
      BY <1>1, <1>5, <2>2, <2>3 DEF ColdIsSaved
    <2>6. WriteTrue(queue, mem.doc, disk.doc)'
      <3>1. queue.write # None => queue.chain[1].kind = "metadata"
        BY <2>2, Basics, LengthOf DEF LineOk
      <3> QED BY <1>1, <3>1 DEF IInv, WriteTrue
    <2>7. \A n, k : Promised(queue, mem.doc, disk.doc, n, k)
                      => Promised(queue, mem'.doc, disk.doc, n, k)
      BY <2>1 DEF Promised, Waiting
    <2>8. WaitersAreServed'
      BY <1>1, <1>2, <2>7 DEF IInv, WaitersAreServed
    <2>9. MemoryIsKnown'
      BY <1>1, <2>3, Basics DEF MemoryIsKnown, Promised
    <2> QED BY <1>1, <1>3, <2>4, <2>5, <2>6, <2>8, <2>9 DEF IInv, SavedStaysSaved
  <1> QED BY <1>1, <1>4, <1>5

LEMMA CrashStep == ASSUME IInv, Crash PROVE IInv'
  <1>1. /\ mem' = [doc |-> 0, meta |-> disk.meta, warm |-> FALSE, deferred |-> None,
                   busy |-> FALSE, used |-> FALSE]
        /\ queue' = [pending |-> FALSE, chain |-> <<>>, write |-> None, next |-> queue.next,
                     failed |-> "none", sig |-> None]
        /\ sweep' = [pc |-> "idle", on |-> 0] /\ flushes' = {}
        /\ faults < MaxFaults /\ faults' = faults + 1 /\ UNCHANGED <<disk, saved, edits>>
    BY DEF Crash
  <1>2. mem' \in MemRec
    BY <1>1, Basics, Constants_ DEF MemRec
  <1>3. faults' \in 0 .. MaxFaults
    BY <1>1, Constants_ DEF IInv, Types, StateTypes
  <1>4. Types'
    BY <1>1, <1>2, <1>3 DEF IInv, Types, StateTypes
  <1>5. queue.next \in Nat
    BY Basics, LengthOf
  <1>6. queue' \in QueueRec /\ Len(queue'.chain) = 0
    BY <1>1, <1>5 DEF QueueRec
  <1>7. QueueOk(queue')
    BY <1>1, <1>6 DEF QueueOk, LineOk
  <1>8. WriteTrue(queue, mem.doc, disk.doc)'
    BY <1>1 DEF WriteTrue
  <1>9. ColdIsSaved' /\ SweepIsAlone' /\ WaitersAreServed'
    BY <1>1, <1>6 DEF ColdIsSaved, SweepIsAlone, WaitersAreServed
  <1>10. MemoryIsKnown'
    BY <1>1, Basics DEF MemoryIsKnown, Promised
  <1> QED BY <1>1, <1>4, <1>7, <1>8, <1>9, <1>10 DEF IInv, SavedStaysSaved

-----------------------------------------------------------------------------
(* Writes.                                                                 *)

\* The first write has settled: it was refused, it failed, or it is on disk.
Outcome(failure) ==
  \/ /\ queue.write = None /\ Job.kind = "metadata" /\ queue.failed = "product"
     /\ failure = "product" /\ disk'.doc = disk.doc
  \/ /\ queue.write # None /\ failure = Job.kind
     /\ disk'.doc \in {disk.doc, queue.write.doc}
  \/ queue.write # None /\ failure = "none" /\ disk'.doc = queue.write.doc

\* What the queue is then.
Left(failure) ==
  /\ queue' \in QueueRec /\ Len(queue.chain) > 0
  /\ queue'.chain = Tail(queue.chain) /\ queue'.write = None
  /\ queue'.pending = queue.pending /\ queue'.next = queue.next
  /\ queue'.failed = IF Job.forget /\ Len(queue.chain) = 1 THEN "none" ELSE failure

LEMMA LeftLine ==
  ASSUME IInv, NEW failure, Left(failure)
  PROVE  /\ Len(queue.chain) \in Nat /\ Len(queue'.chain) = Len(queue.chain) - 1
         /\ \A i \in 1 .. Len(queue'.chain) :
              queue'.chain[i] = queue.chain[i + 1] /\ i + 1 \in 1 .. Len(queue.chain)
         /\ \A i \in 1 .. Len(queue.chain) :
              i = 1 \/ (i - 1 \in 1 .. Len(queue'.chain) /\ queue'.chain[i - 1] = queue.chain[i])
         /\ Job = queue.chain[1] /\ 1 \in 1 .. Len(queue.chain) /\ Job \in JobRec
         /\ QueueOk(queue')
  <1>1. /\ queue.chain \in Seq(JobRec) /\ Len(queue.chain) \in Nat /\ Len(queue.chain) > 0
        /\ queue.chain # <<>>
    BY Basics, LengthOf DEF Left
  <1>2. /\ Tail(queue.chain) \in Seq(JobRec) /\ Len(Tail(queue.chain)) = Len(queue.chain) - 1
        /\ \A i \in 1 .. Len(queue.chain) - 1 : Tail(queue.chain)[i] = queue.chain[i + 1]
        /\ Head(queue.chain) = queue.chain[1] /\ queue.chain[1] \in JobRec
    BY <1>1
  <1>3. \A i \in 1 .. Len(queue'.chain) :
          queue'.chain[i] = queue.chain[i + 1] /\ i + 1 \in 1 .. Len(queue.chain)
    BY <1>1, <1>2 DEF Left
  <1>4. \A i \in 1 .. Len(queue.chain) :
          i = 1 \/ (i - 1 \in 1 .. Len(queue'.chain) /\ queue'.chain[i - 1] = queue.chain[i])
    <2> SUFFICES ASSUME NEW i \in 1 .. Len(queue.chain), i # 1
                 PROVE  i - 1 \in 1 .. Len(queue'.chain) /\ queue'.chain[i - 1] = queue.chain[i]
      OBVIOUS
    <2>1. i - 1 \in 1 .. Len(queue'.chain) /\ (i - 1) + 1 = i
      BY <1>1, <1>2 DEF Left
    <2> QED BY <1>3, <2>1
  <1>5. LineOk(queue')
    <2>1. ASSUME NEW i \in 1 .. Len(queue'.chain)
          PROVE  /\ queue'.chain[i].id < queue'.next
                 /\ queue'.chain[i].kind = "metadata" => queue'.chain[i].meta \in Meta
                 /\ \A j \in 1 .. Len(queue'.chain) :
                      i < j => queue'.chain[i].id < queue'.chain[j].id
      <3>1. /\ queue.chain[i + 1].id < queue.next
            /\ queue.chain[i + 1].kind = "metadata" => queue.chain[i + 1].meta \in Meta
        BY <1>3, Basics DEF LineOk
      <3>2. ASSUME NEW j \in 1 .. Len(queue'.chain), i < j
            PROVE  queue'.chain[i].id < queue'.chain[j].id
        <4>1. i + 1 < j + 1
          BY <3>2
        <4> QED BY <1>3, <4>1, Basics DEF LineOk
      <3> QED BY <1>3, <3>1, <3>2 DEF Left
    <2> QED BY <2>1 DEF Left, LineOk
  <1>6. Len(queue'.chain) > 0 =>
          queue'.chain[Len(queue'.chain)] = queue.chain[Len(queue.chain)]
    BY <1>1, <1>2, <1>3 DEF Left
  <1>7. QueueOk(queue')
    BY <1>1, <1>5, <1>6, Basics DEF Left, QueueOk
  <1> QED BY <1>1, <1>2, <1>3, <1>4, <1>7 DEF Left, Job

\* The writes behind it keep the promises that were made.
LEMMA PromiseGoesOn ==
  ASSUME IInv, NEW failure, Left(failure), Outcome(failure), mem' = mem,
         NEW n \in Nat, NEW k \in Nat, Job.id <= k,
         ~(Job.forget /\ Len(queue.chain) = 1),
         Promised(queue, mem.doc, disk.doc, n, k)
  PROVE  Promised(queue', mem'.doc, disk'.doc, n, k)
  <1>0. queue'.failed = failure /\ queue'.write = None
    BY DEF Left
  <1>1. /\ queue.write # None => queue.write.doc \in Nat
        /\ mem.doc \in Nat /\ disk.doc \in Nat
    BY Basics, Constants_ DEF LineOk, QueueRec, WriteRec, Doc
  <1>2. /\ queue.write # None /\ Job.kind = "product" =>
             disk.doc <= queue.write.doc /\ queue.write.doc <= mem.doc
        /\ queue.write # None /\ Job.kind # "product" =>
             queue.write.doc = disk.doc /\ queue.failed # "product"
    BY LeftLine DEF IInv, WriteTrue
  <1>3. disk.doc <= disk'.doc /\ disk'.doc \in Nat
    BY <1>1, <1>2 DEF Outcome
  <1>4. CASE n <= disk.doc
    BY <1>1, <1>3, <1>4 DEF Promised
  <1>5. ASSUME NEW i \in 1 .. Len(queue.chain), i # 1, queue.chain[i].kind = "product",
               queue.chain[i].id <= k, n <= mem.doc
        PROVE  Promised(queue', mem'.doc, disk'.doc, n, k)
    <2>1. /\ i - 1 \in 1 .. Len(queue'.chain) /\ Waiting(queue', i - 1)
          /\ queue'.chain[i - 1].id <= k
      BY <1>0, <1>5, LeftLine DEF Waiting
    <2> QED BY <1>5, <2>1 DEF Promised
  <1>6. CASE n <= mem.doc /\ \E i \in 1 .. Len(queue.chain) : Waiting(queue, i) /\ queue.chain[i].id <= k
    <2>1. PICK i \in 1 .. Len(queue.chain) : Waiting(queue, i) /\ queue.chain[i].id <= k
      BY <1>6
    <2>2. i # 1
      BY <2>1, LeftLine DEF Waiting, Outcome
    <2> QED BY <1>5, <1>6, <2>1, <2>2 DEF Waiting
  <1>7. CASE queue.write # None /\ queue.chain[1].kind = "product" /\ n <= queue.write.doc
    <2>1. Job.kind = "product" /\ n <= mem.doc
      BY <1>1, <1>2, <1>7, LeftLine
    <2>2. CASE disk'.doc = queue.write.doc
      BY <1>7, <2>2 DEF Promised
    <2>3. CASE disk'.doc # queue.write.doc
      <3>1. queue'.failed = "product"
        BY <1>0, <1>7, <2>1, <2>3 DEF Outcome
      <3>2. CASE \E i \in 1 .. Len(queue'.chain) :
                   queue'.chain[i].kind = "product" /\ queue'.chain[i].id <= k
        BY <1>0, <2>1, <3>2 DEF Promised, Waiting
      <3>3. CASE \A i \in 1 .. Len(queue'.chain) :
                   queue'.chain[i].id <= k => queue'.chain[i].kind # "product"
        <4>1. \A i \in 1 .. Len(queue'.chain) : queue'.chain[i].kind \in {"product", "metadata"}
          BY LeftLine, LengthOf DEF QueueOk
        <4> QED BY <3>1, <3>3, <4>1 DEF Promised
      <3> QED BY <3>2, <3>3
    <2> QED BY <2>2, <2>3
  <1>8. CASE /\ queue.failed = "product"
             /\ \A i \in 1 .. Len(queue.chain) : queue.chain[i].id <= k => queue.chain[i].kind = "metadata"
    <2>1. Job.kind = "metadata"
      BY <1>8, LeftLine
    <2>2. queue.write = None /\ failure = "product"
      BY <1>2, <1>8, <2>1 DEF Outcome
    <2>3. \A i \in 1 .. Len(queue'.chain) :
            queue'.chain[i].id <= k => queue'.chain[i].kind = "metadata"
      <3>1. \A i \in 1 .. Len(queue'.chain) :
              queue'.chain[i] = queue.chain[i + 1] /\ i + 1 \in 1 .. Len(queue.chain)
        BY LeftLine
      <3> QED BY <1>8, <3>1
    <2> QED BY <1>0, <2>2, <2>3 DEF Promised
  <1> QED BY <1>4, <1>6, <1>7, <1>8 DEF Promised

\* Who waited for a write that is on disk has what it needs there.
LEMMA WaitersAreToldTheTruth ==
  ASSUME IInv, Left("none"), Outcome("none"), NEW n \in Nat,
         Promised(queue, mem.doc, disk.doc, n, Job.id)
  PROVE  n <= disk'.doc
  <1>1. queue.write # None /\ disk'.doc = queue.write.doc
    BY LeftLine DEF Outcome, JobRec
  <1>2. /\ queue.write.doc \in Nat /\ disk.doc \in Nat /\ disk.doc <= queue.write.doc
        /\ Job.kind # "product" => queue.failed # "product"
    BY <1>1, LeftLine, Basics, Constants_ DEF IInv, WriteTrue, LineOk, QueueRec, WriteRec, Doc
  <1>3. \A i \in 1 .. Len(queue.chain) : queue.chain[i].id <= Job.id => i = 1
    <2> SUFFICES ASSUME NEW i \in 1 .. Len(queue.chain), i # 1
                 PROVE  ~(queue.chain[i].id <= Job.id)
      OBVIOUS
    <2>1. 1 < i /\ queue.chain[1].id < queue.chain[i].id
      BY LeftLine, Basics DEF LineOk
    <2>2. queue.chain[1].id \in Nat /\ queue.chain[i].id \in Nat
      BY LeftLine, Basics, LengthOf
    <2> QED BY <2>1, <2>2, LeftLine
  <1>4. Job.id \in Nat /\ Job.id <= Job.id
    BY LeftLine DEF JobRec
  <1> QED BY <1>1, <1>2, <1>3, <1>4, LeftLine DEF Promised, Waiting

\* A write that has settled leaves the line in order and nobody deceived.
LEMMA SettleStep ==
  ASSUME IInv, NEW failure, Left(failure), Outcome(failure), Told(failure), mem' = mem,
         disk' \in [doc : Doc, meta : Meta], edits' = edits, faults' \in 0 .. MaxFaults
  PROVE  IInv'
  <1> DEFINE mine == {f \in flushes : f.on = Job.id}
  <1>1. /\ flushes' = flushes \ mine
        /\ saved' = IF failure = "none" THEN Max({saved} \cup {f.need : f \in mine}) ELSE saved
        /\ IF sweep.pc = "flushing" /\ sweep.on = Job.id
           THEN sweep' = [pc |-> IF failure = "none" /\ ~mem.busy /\ ~mem.used
                                 THEN "retiring" ELSE "idle", on |-> 0]
           ELSE sweep' = sweep
    BY DEF Told
  <1>2. /\ queue.write # None => queue.write.doc \in Nat
        /\ disk.doc <= disk'.doc /\ disk'.doc \in Nat
        /\ queue.write # None /\ Job.kind = "product" => queue.write.doc <= mem.doc
        /\ queue.write # None /\ Job.kind # "product" => queue.write.doc = disk.doc
    BY LeftLine, Basics, Constants_ DEF Outcome, IInv, WriteTrue, LineOk, QueueRec, WriteRec, Doc
  <1>3. saved' \in Doc /\ saved' <= disk'.doc
    <2>0. saved \in Doc /\ saved \in Nat /\ saved <= disk'.doc
      BY <1>2, Basics, Constants_ DEF IInv, Types, SavedStaysSaved, Doc
    <2>1. CASE failure # "none"
      BY <1>1, <2>0, <2>1
    <2>2. CASE failure = "none"
      <3> DEFINE S == {saved} \cup {f.need : f \in mine}
      <3>1. \A f \in mine : f \in flushes /\ f.on = Job.id /\ f.need \in Doc
        BY Basics DEF Types
      <3>2. \A f \in mine : f.need <= disk'.doc
        BY <2>2, <3>1, WaitersAreToldTheTruth, Constants_ DEF IInv, WaitersAreServed, Doc
      <3>3. S \in SUBSET (0 .. MaxDoc) /\ S # {} /\ \A x \in S : x <= disk'.doc /\ x \in Doc
        BY <2>0, <3>1, <3>2 DEF Doc
      <3> HIDE DEF S
      <3>4. Max(S) \in S
        BY <3>3, MaxIsMember, Constants_
      <3> QED BY <1>1, <2>2, <3>3, <3>4 DEF S
    <2> QED BY <2>1, <2>2
  <1> HIDE DEF mine
  <1>4. sweep' \in [pc : {"idle", "flushing", "retiring"}, on : Nat]
    BY <1>1, Basics DEF Types, StateTypes
  <1>5. Types'
    BY <1>1, <1>3, <1>4, Basics DEF Types, StateTypes
  <1>6. ColdIsSaved'
    <2>1. ASSUME ~mem.warm, NEW i \in 1 .. Len(queue'.chain)
          PROVE  queue'.chain[i].kind = "metadata"
      <3>1. queue'.chain[i] = queue.chain[i + 1] /\ i + 1 \in 1 .. Len(queue.chain)
        BY LeftLine
      <3> QED BY <2>1, <3>1 DEF IInv, ColdIsSaved
    <2>2. mem.warm => disk'.doc <= mem.doc
      BY <1>2, LeftLine DEF IInv, ColdIsSaved, Outcome
    <2> QED BY <2>1, <2>2 DEF IInv, ColdIsSaved, Left
  <1>7. SweepIsAlone'
    <2>1. CASE sweep.pc = "flushing" /\ sweep.on = Job.id
      <3> SUFFICES ASSUME sweep'.pc # "idle", ~mem.used
                   PROVE  /\ ~mem.busy /\ ~queue.pending
                          /\ \A i \in 1 .. Len(queue'.chain) : queue'.chain[i].kind # "product"
        BY DEF SweepIsAlone, Left
      <3>1. /\ ~mem.busy /\ ~queue.pending
            /\ \A i \in 1 .. Len(queue.chain) : queue.chain[i].kind = "product" =>
                 queue.chain[i].id <= Job.id
        BY <2>1 DEF IInv, SweepIsAlone
      <3>2. ASSUME NEW i \in 1 .. Len(queue'.chain)
            PROVE  queue'.chain[i].kind # "product"
        <4>1. i + 1 \in 1 .. Len(queue.chain) /\ queue'.chain[i] = queue.chain[i + 1] /\ 1 < i + 1
          BY LeftLine
        <4>2. queue.chain[1].id < queue.chain[i + 1].id
          BY <4>1, LeftLine, Basics DEF LineOk
        <4>3. Job.id \in Nat /\ queue.chain[i + 1].id \in Nat /\ Job = queue.chain[1]
          BY <4>1, LeftLine, Basics, LengthOf
        <4> QED BY <3>1, <4>1, <4>2, <4>3
      <3> QED BY <3>1, <3>2
    <2>2. CASE ~(sweep.pc = "flushing" /\ sweep.on = Job.id)
      <3>1. sweep' = sweep
        BY <1>1, <2>2
      <3> QED BY <3>1, LeftLine DEF IInv, SweepIsAlone, Left
    <2> QED BY <2>1, <2>2
  <1>8. WaitersAreServed'
    <2>1. ASSUME NEW f \in flushes'
          PROVE  /\ \E i \in 1 .. Len(queue'.chain) : queue'.chain[i].id = f.on
                 /\ Promised(queue', mem'.doc, disk'.doc, f.need, f.on)
      <3>1. f \in flushes /\ f.on # Job.id /\ f.on \in Nat /\ f.need \in Nat
        BY <1>1, Basics, Constants_ DEF mine, Types, Doc
      <3>2. PICK i \in 1 .. Len(queue.chain) : queue.chain[i].id = f.on
        BY <3>1 DEF IInv, WaitersAreServed
      <3>3. i # 1 /\ Len(queue.chain) # 1 /\ 1 < i
        BY <3>1, <3>2, LeftLine
      <3>4. Job.id <= f.on
        <4>1. queue.chain[1].id < queue.chain[i].id
          BY <3>3, LeftLine, Basics DEF LineOk
        <4>2. Job = queue.chain[1] /\ queue.chain[1].id \in Nat
          BY LeftLine, Basics, LengthOf
        <4> QED BY <3>1, <3>2, <4>1, <4>2
      <3>5. Promised(queue', mem'.doc, disk'.doc, f.need, f.on)
        BY <3>1, <3>3, <3>4, PromiseGoesOn DEF IInv, WaitersAreServed
      <3> QED BY <3>2, <3>3, <3>5, LeftLine
    <2>2. ASSUME sweep'.pc = "flushing"
          PROVE  \E i \in 1 .. Len(queue'.chain) : queue'.chain[i].id = sweep'.on
      <3>1. sweep' = sweep /\ sweep.on # Job.id
        BY <1>1, <2>2
      <3>2. PICK i \in 1 .. Len(queue.chain) : queue.chain[i].id = sweep.on
        BY <2>2, <3>1 DEF IInv, WaitersAreServed
      <3>3. i # 1
        BY <3>1, <3>2, LeftLine
      <3> QED BY <3>1, <3>2, <3>3, LeftLine
    <2> QED BY <2>1, <2>2 DEF WaitersAreServed
  <1>9. MemoryIsKnown'
    <2>1. CASE queue.pending
      BY <2>1 DEF MemoryIsKnown, Left
    <2>2. CASE ~queue.pending
      <3>1. ~(Job.forget /\ Len(queue.chain) = 1)
        BY <2>2, LeftLine, Basics DEF QueueOk
      <3>2. Job.id <= queue.next /\ queue.next \in Nat
        BY LeftLine, Basics, LengthOf
      <3>3. Promised(queue', mem'.doc, disk'.doc, mem.doc, queue.next)
        BY <2>2, <3>1, <3>2, PromiseGoesOn, Basics DEF IInv, MemoryIsKnown
      <3> QED BY <3>3 DEF MemoryIsKnown, Left
    <2> QED BY <2>1, <2>2
  <1>10. WriteTrue(queue, mem.doc, disk.doc)'
    BY DEF WriteTrue, Left
  <1> QED BY <1>3, <1>5, <1>6, <1>7, <1>8, <1>9, <1>10, LeftLine DEF IInv, SavedStaysSaved

LEMMA SettledLeft ==
  ASSUME IInv, queue.chain # <<>>, NEW failure \in {"none", "product", "metadata"},
         NEW sig \in Meta \cup {None},
         queue' = [Settled(failure) EXCEPT !.sig = sig]
  PROVE  Left(failure)
  <1> DEFINE f == IF Job.forget /\ Len(queue.chain) = 1 THEN "none" ELSE failure
  <1>1. queue \in QueueRec /\ queue.chain \in Seq(JobRec) /\ Len(queue.chain) > 0
    BY Basics, LengthOf
  <1>2. Tail(queue.chain) \in Seq(JobRec)
    BY <1>1
  <1>3. f \in {"none", "product", "metadata"}
    OBVIOUS
  <1>4. queue' = [queue EXCEPT !.chain = Tail(queue.chain), !.write = None, !.failed = f,
                               !.sig = sig]
    BY <1>1 DEF Settled, QueueRec
  <1> HIDE DEF f
  <1>5. /\ queue' \in QueueRec /\ queue'.chain = Tail(queue.chain) /\ queue'.write = None
        /\ queue'.pending = queue.pending /\ queue'.next = queue.next /\ queue'.failed = f
    BY <1>1, <1>2, <1>3, <1>4 DEF QueueRec
  <1> QED BY <1>1, <1>5 DEF Left, f

LEMMA SettledLeft2 ==
  ASSUME IInv, queue.chain # <<>>, NEW failure \in {"none", "product", "metadata"},
         queue' = Settled(failure)
  PROVE  Left(failure)
  <1>1. queue \in QueueRec /\ queue.sig \in Meta \cup {None}
    BY Basics DEF LineOk, QueueRec
  <1>2. queue' = [Settled(failure) EXCEPT !.sig = queue.sig]
    BY <1>1 DEF Settled, QueueRec
  <1> QED BY <1>1, <1>2, SettledLeft

\* A write begins with what is in memory, or with the transcript on disk.
LEMMA PerformStep == ASSUME IInv, Perform PROVE IInv'
  <1>1. /\ queue.chain # <<>> /\ queue.write = None
        /\ UNCHANGED <<mem, disk, edits, faults>>
    BY DEF Perform, Due
  <1>2. CASE Refused(queue)
    <2>1. queue' = Settled("product") /\ Told("product")
      BY <1>2 DEF Perform, Fails
    <2>2. Left("product")
      BY <1>1, <2>1, SettledLeft2
    <2>3. Job.kind = "metadata" /\ queue.failed = "product"
      BY <1>2 DEF Refused, Job
    <2>4. Outcome("product")
      BY <1>1, <2>3 DEF Outcome
    <2>5. disk' \in [doc : Doc, meta : Meta] /\ faults' \in 0 .. MaxFaults
      BY <1>1, Basics DEF Types, StateTypes
    <2> QED BY <1>1, <2>1, <2>2, <2>4, <2>5, SettleStep
  <1>3. CASE ~Refused(queue)
    <2> DEFINE product == Job.kind = "product"
               w == queue'.write
               other == product /\ queue.sig # None /\ disk.meta # queue.sig
               snap == IF product THEN [doc |-> mem.doc, meta |-> mem.meta]
                       ELSE [doc |-> disk.doc, meta |-> Job.meta]
               new == [doc |-> snap.doc, meta |-> IF other THEN disk.meta ELSE snap.meta,
                       before |-> queue.sig, pc |-> "temp"]
    <2>1. queue' = [queue EXCEPT !.write = new] /\ UNCHANGED <<sweep, flushes, saved>>
      BY <1>3 DEF Perform
    <2>2. /\ queue \in QueueRec /\ Len(queue.chain) \in Nat /\ Len(queue.chain) > 0
          /\ queue.chain[1] \in JobRec /\ Job = queue.chain[1] /\ 1 \in 1 .. Len(queue.chain)
          /\ Job.kind = "metadata" => Job.meta \in Meta
          /\ Job.kind \in {"product", "metadata"}
      <3>1. /\ queue \in QueueRec /\ queue.chain \in Seq(JobRec) /\ Len(queue.chain) \in Nat
        BY Basics, LengthOf
      <3>2. Len(queue.chain) > 0 /\ Job = queue.chain[1] /\ 1 \in 1 .. Len(queue.chain)
        BY <1>1, <3>1 DEF Job
      <3>3. queue.chain[1] \in JobRec
        BY <3>1, <3>2
      <3>4. Job.kind = "metadata" => Job.meta \in Meta
        BY <3>2, Basics DEF LineOk
      <3>5. Job.kind \in {"product", "metadata"}
        BY <3>2, <3>3 DEF JobRec
      <3> QED BY <3>1, <3>2, <3>3, <3>4, <3>5
    <2>3. snap.doc \in Doc /\ snap.meta \in Meta /\ queue.sig \in Meta \cup {None}
      <3>1. product => snap.doc = mem.doc /\ snap.meta = mem.meta
        OBVIOUS
      <3>2. ~product => snap.doc = disk.doc /\ snap.meta = Job.meta
        OBVIOUS
      <3>3. queue.sig \in Meta \cup {None}
        BY <2>2 DEF QueueRec
      <3> QED BY <2>2, <3>1, <3>2, <3>3, Basics
    <2>4. new.doc = snap.doc
      OBVIOUS
    <2>5. (IF other THEN disk.meta ELSE snap.meta) \in Meta
      BY <2>3, Basics
    <2> HIDE DEF snap, other
    <2>6. new \in WriteRec
      BY <2>3, <2>5 DEF WriteRec
    <2>7. /\ w = new /\ queue' \in QueueRec /\ queue'.chain = queue.chain
          /\ queue'.next = queue.next /\ queue'.pending = queue.pending
          /\ queue'.failed = queue.failed
      <3> HIDE DEF new
      <3> QED BY <2>1, <2>2, <2>6 DEF QueueRec
    <2>8. w # None /\ w.doc = IF product THEN mem.doc ELSE disk.doc
      BY <2>4, <2>6, <2>7, Constants_ DEF snap
    <2> HIDE DEF new, w
    <2>9. QueueOk(queue')
      BY <2>2, <2>7, Basics DEF QueueOk, LineOk
    <2>10. product => mem.warm /\ disk.doc <= mem.doc
      <3>1. product => queue.chain[1].kind # "metadata"
        BY <2>2
      <3> QED BY <2>2, <3>1 DEF IInv, ColdIsSaved
    <2>11. ~product => queue.failed # "product"
      BY <1>3, <2>2 DEF Refused, Job
    <2>12. WriteTrue(queue, mem.doc, disk.doc)'
      <3>1. /\ product => disk.doc <= queue'.write.doc /\ queue'.write.doc <= mem.doc
            /\ ~product => queue'.write.doc = disk.doc
        BY <2>8, <2>10, Basics DEF w
      <3> QED BY <1>1, <2>2, <2>7, <2>11, <3>1 DEF WriteTrue
    <2>13. ASSUME NEW n \in Nat, NEW k \in Nat, Promised(queue, mem.doc, disk.doc, n, k)
           PROVE  Promised(queue', mem.doc, disk.doc, n, k)
      <3>1. CASE n <= disk.doc
        BY <3>1 DEF Promised
      <3>2. ASSUME n <= mem.doc,
                   NEW i \in 1 .. Len(queue.chain), Waiting(queue, i), queue.chain[i].id <= k
            PROVE  Promised(queue', mem.doc, disk.doc, n, k)
        <4>1. CASE i = 1
          <5>1. product
            BY <2>2, <3>2, <4>1 DEF Waiting
          <5>2. queue'.write # None /\ queue'.write.doc = mem.doc
            BY <2>8, <5>1 DEF w
          <5> QED BY <2>2, <2>7, <3>2, <5>1, <5>2 DEF Promised
        <4>2. CASE i # 1
          <5>1. Waiting(queue', i)
            BY <2>7, <3>2, <4>2 DEF Waiting
          <5> QED BY <2>7, <3>2, <5>1 DEF Promised
        <4> QED BY <4>1, <4>2
      <3>3. CASE /\ queue.failed = "product"
                 /\ \A i \in 1 .. Len(queue.chain) :
                      queue.chain[i].id <= k => queue.chain[i].kind = "metadata"
        BY <2>7, <3>3 DEF Promised
      <3> QED BY <1>1, <2>13, <3>1, <3>2, <3>3 DEF Promised
    <2>14. Types' /\ ColdIsSaved' /\ SweepIsAlone' /\ SavedStaysSaved'
      BY <1>1, <2>1, <2>7 DEF IInv, Types, StateTypes, ColdIsSaved, SweepIsAlone, SavedStaysSaved
    <2>15. WaitersAreServed'
      <3>1. ASSUME NEW f \in flushes
            PROVE  /\ \E i \in 1 .. Len(queue.chain) : queue.chain[i].id = f.on
                   /\ Promised(queue', mem.doc, disk.doc, f.need, f.on)
        <4>1. f.on \in Nat /\ f.need \in Nat
          BY Basics, Constants_ DEF Types, Doc
        <4> QED BY <2>13, <4>1 DEF IInv, WaitersAreServed
      <3> QED BY <1>1, <2>1, <2>7, <3>1 DEF IInv, WaitersAreServed
    <2>16. MemoryIsKnown'
      <3>1. queue.next \in Nat /\ mem.doc \in Nat
        BY Basics, LengthOf
      <3> QED BY <1>1, <2>7, <2>13, <3>1 DEF IInv, MemoryIsKnown
    <2> QED BY <2>9, <2>12, <2>14, <2>15, <2>16 DEF IInv
  <1> QED BY <1>2, <1>3

\* What is known when a write under way settles.
LEMMA UnderWay ==
  ASSUME IInv, queue.write # None
  PROVE  /\ queue.chain # <<>> /\ Job.kind \in {"product", "metadata"}
         /\ queue.write \in WriteRec /\ disk \in [doc : Doc, meta : Meta]
         /\ [doc |-> queue.write.doc, meta |-> queue.write.meta] \in [doc : Doc, meta : Meta]
         /\ queue.write.before \in Meta \cup {None}
         /\ faults < MaxFaults => faults + 1 \in 0 .. MaxFaults
         /\ faults \in 0 .. MaxFaults
  <1>1. /\ queue \in QueueRec /\ queue.chain \in Seq(JobRec) /\ Len(queue.chain) > 0
    BY Basics, LengthOf DEF LineOk
  <1>2. queue.write \in WriteRec
    BY <1>1 DEF QueueRec
  <1>3. Job \in JobRec
    BY <1>1 DEF Job
  <1>4. Job.kind \in {"product", "metadata"}
    BY <1>3 DEF JobRec
  <1>5. disk \in [doc : Doc, meta : Meta] /\ faults \in 0 .. MaxFaults
    BY Basics DEF Types, StateTypes
  <1>6. /\ queue.write.doc \in Doc /\ queue.write.meta \in Meta
        /\ queue.write.before \in Meta \cup {None}
    BY <1>2 DEF WriteRec
  <1> QED BY <1>1, <1>2, <1>4, <1>5, <1>6, Constants_

LEMMA TempFailsStep == ASSUME IInv, TempFails PROVE IInv'
  <1>1. /\ queue.write # None /\ queue' = Settled(Job.kind) /\ Told(Job.kind)
        /\ faults < MaxFaults /\ faults' = faults + 1 /\ UNCHANGED <<mem, disk, edits>>
    BY DEF TempFails, Fails
  <1>2. Left(Job.kind)
    BY <1>1, UnderWay, SettledLeft2
  <1>3. Outcome(Job.kind)
    BY <1>1 DEF Outcome
  <1> QED BY <1>1, <1>2, <1>3, UnderWay, SettleStep

LEMMA RenameStep == ASSUME IInv, Rename PROVE IInv'
  <1>1. /\ queue.write # None /\ queue' = Settled("none") /\ Told("none")
        /\ disk' = [doc |-> queue.write.doc, meta |-> queue.write.meta]
        /\ UNCHANGED <<mem, edits, faults>>
    BY DEF Rename, Fails
  <1>2. Left("none")
    BY <1>1, UnderWay, SettledLeft2
  <1>3. Outcome("none")
    BY <1>1 DEF Outcome
  <1> QED BY <1>1, <1>2, <1>3, UnderWay, SettleStep

LEMMA RenameFailsStep == ASSUME IInv, RenameFails PROVE IInv'
  <1> DEFINE sig == IF Job.kind = "product" THEN queue.write.before ELSE queue.sig
  <1>1. /\ queue.write # None /\ Told(Job.kind)
        /\ faults < MaxFaults /\ faults' = faults + 1 /\ UNCHANGED <<mem, disk, edits>>
    BY DEF RenameFails
  <1>2. queue \in QueueRec /\ queue.sig \in Meta \cup {None}
    BY Basics DEF LineOk, QueueRec
  <1>3. queue' = [Settled(Job.kind) EXCEPT !.sig = sig]
    BY <1>2 DEF RenameFails, Settled, QueueRec
  <1>4. sig \in Meta \cup {None}
    BY <1>1, <1>2, UnderWay
  <1> HIDE DEF sig
  <1>5. Left(Job.kind)
    BY <1>1, <1>3, <1>4, UnderWay, SettledLeft
  <1>6. Outcome(Job.kind)
    BY <1>1 DEF Outcome
  <1> QED BY <1>1, <1>5, <1>6, UnderWay, SettleStep

LEMMA SyncFailsStep == ASSUME IInv, SyncFails PROVE IInv'
  <1>1. /\ queue.write # None /\ queue' = Settled(Job.kind) /\ Told(Job.kind)
        /\ disk' = [doc |-> queue.write.doc, meta |-> queue.write.meta]
        /\ faults < MaxFaults /\ faults' = faults + 1 /\ UNCHANGED <<mem, edits>>
    BY DEF SyncFails, Fails
  <1>2. Left(Job.kind)
    BY <1>1, UnderWay, SettledLeft2
  <1>3. Outcome(Job.kind)
    BY <1>1 DEF Outcome
  <1> QED BY <1>1, <1>2, <1>3, UnderWay, SettleStep

-----------------------------------------------------------------------------
(* The specification.                                                      *)

LEMMA InitIInv == Init => IInv
  <1> SUFFICES ASSUME Init PROVE IInv
    OBVIOUS
  <1>1. /\ queue = [pending |-> FALSE, chain |-> <<>>, write |-> None, next |-> 1,
                    failed |-> "none", sig |-> None]
        /\ mem = [doc |-> 1, meta |-> 0, warm |-> TRUE, deferred |-> None,
                  busy |-> FALSE, used |-> FALSE]
        /\ disk = [doc |-> 1, meta |-> 0] /\ sweep = [pc |-> "idle", on |-> 0]
        /\ flushes = {} /\ saved = 0 /\ edits = 0 /\ faults = 0
    BY DEF Init
  <1>2. queue \in QueueRec /\ Len(queue.chain) = 0
    BY <1>1 DEF QueueRec
  <1>3. QueueOk(queue)
    BY <1>1, <1>2 DEF QueueOk, LineOk
  <1>4. mem \in MemRec
    BY <1>1, Constants_ DEF MemRec
  <1>5. Types
    BY <1>1, <1>4, Constants_ DEF Types, StateTypes
  <1>6. ColdIsSaved /\ SweepIsAlone /\ WaitersAreServed /\ SavedStaysSaved
    BY <1>1 DEF ColdIsSaved, SweepIsAlone, WaitersAreServed, SavedStaysSaved
  <1>7. WriteTrue(queue, mem.doc, disk.doc) /\ MemoryIsKnown
    BY <1>1 DEF WriteTrue, MemoryIsKnown, Promised
  <1> QED BY <1>3, <1>5, <1>6, <1>7 DEF IInv

LEMMA SameStep == ASSUME IInv, UNCHANGED vars PROVE IInv'
  BY DEF vars, IInv, Types, StateTypes, ColdIsSaved, SweepIsAlone, WaitersAreServed,
         MemoryIsKnown, SavedStaysSaved

LEMMA IInvIsInductive == ASSUME ~Hurried, IInv, [Next]_vars PROVE IInv'
  BY MessageStep, LocalEditStep, FlushSessionStep, WatchStep, TurnBeginsStep, TurnEndsStep,
     PerformStep, PublishStep, TempFailsStep, RenameStep, RenameFailsStep, SyncFailsStep,
     TimerStep, UpdateMetadataStep, ExternalEditStep, SweepStep, EvictStep, CrashStep,
     SameStep DEF Next

LEMMA SpecKeepsIInv == ~Hurried => (Spec => []IInv)
  <1> SUFFICES ASSUME ~Hurried PROVE Spec => []IInv
    OBVIOUS
  <1>1. IInv /\ [Next]_vars => IInv'
    BY IInvIsInductive
  <1> QED BY <1>1, InitIInv, PTL DEF Spec

\* The type invariant: records, numbers in their ranges, a line of writes in
\* order, and everyone who waits waits for a write that is in it
\* (persistence-queue.ts:40-58).
THEOREM PersistenceTypeCorrect == ~Hurried => (Spec => []TypeOK)
  <1>1. IInv => TypeOK
    <2> SUFFICES ASSUME IInv PROVE TypeOK
      OBVIOUS
    <2>1. /\ queue \in QueueRec /\ Len(queue.chain) \in Nat
          /\ queue.chain \in Seq(JobRec)
      BY Basics, LengthOf
    <2>2. /\ queue.pending \in BOOLEAN /\ queue.sig \in Meta \cup {None}
          /\ queue.failed \in {"none", "product", "metadata"}
      BY <2>1 DEF QueueRec
    <2>3. DOMAIN queue.chain = 1 .. Len(queue.chain)
      BY <2>1
    <2>4. \A i, j \in DOMAIN queue.chain : i < j => queue.chain[i].id < queue.chain[j].id
      BY <2>3, Basics DEF LineOk
    <2>5. queue.write # None => queue.chain # <<>>
      BY UnderWay
    <2>6. /\ \A f \in flushes : \E i \in DOMAIN queue.chain : queue.chain[i].id = f.on
          /\ sweep.pc = "flushing" => \E i \in DOMAIN queue.chain : queue.chain[i].id = sweep.on
      BY <2>3 DEF IInv, WaitersAreServed
    <2> QED BY <2>2, <2>4, <2>5, <2>6, Basics DEF TypeOK, Types, StateTypes, Doc, Meta
  <1> QED BY <1>1, SpecKeepsIInv, PTL

\* What a flush has vouched for stays on disk: no later write takes an older
\* snapshot or an evicted session, no edit of the header goes over a snapshot
\* that failed (persistence-queue.ts:248-266, SessionManager.ts:2266-2270).
THEOREM SavedTranscriptsStay == ~Hurried => (Spec => []SavedStaysSaved)
  BY SpecKeepsIInv, PTL DEF IInv

\* No message is only in memory without a snapshot pending, a write in the
\* line, or a failure kept for the next flush to report
\* (persistence-queue.ts:111-124, 278-282).
THEOREM UnsavedMessagesAreKnown == ~Hurried => (Spec => []UnsavedIsKnown)
  <1>1. IInv => UnsavedIsKnown
    <2> SUFFICES ASSUME IInv, mem.doc > disk.doc, ~queue.pending, queue.chain = <<>>
                 PROVE  queue.failed = "product"
      BY DEF UnsavedIsKnown
    <2>1. Promised(queue, mem.doc, disk.doc, mem.doc, queue.next)
      BY DEF IInv, MemoryIsKnown
    <2>2. Len(queue.chain) = 0 /\ LineOk(queue)
      BY Basics
    <2>3. ~(mem.doc <= disk.doc)
      BY Basics
    <2> QED BY <2>1, <2>2, <2>3, NothingLeft
  <1> QED BY <1>1, SpecKeepsIInv, PTL
=============================================================================
