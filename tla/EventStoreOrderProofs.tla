------------------------- MODULE EventStoreOrderProofs -------------------------
(***************************************************************************)
(* What the file of the event store holds, for any number of processes,     *)
(* batches, runs and faults: the bytes of what SQLite says is there, at a    *)
(* place of its own, in the order of the commits; and that only one who had  *)
(* lost the lease, or a write cut in two, makes the store unreadable.        *)
(*                                                                           *)
(* The hard part are the append caches.  A cache may be current although     *)
(* the file is damaged, for one who writes takes the size that the file has  *)
(* afterwards; then either nothing that is committed lies beyond the cache,  *)
(* or a batch is stuck between the two storages and bars the gate            *)
(* (OrderInv).                                                               *)
(***************************************************************************)
EXTENDS EventStoreProofs

\* Debris is never repaired.
Debris(l) == \E i \in 1 .. Len(l) : l[i].kind = "debris"

\* An actor that has put a batch into the file, or has read that it is there.
Vouches(q, b) == \/ proc[q].pc = "written" /\ proc[q].batch = b
                 \/ proc[q].pc = "settling" /\ b \in proc[q].bytes

\* The batches that are committed, or may be by whoever holds the lease, without
\* a further look at the file.
Sure == {b \in Batch : \/ intent[b].state \in {"appended", "committed"}
                       \/ \E q \in Process : Fence(q) /\ Vouches(q, b)}

\* An append carries the place it has prepared and a batch nobody else carries, which
\* is not in the file before it is written, and nobody moves while it has the lease.
CarryInv ==
    \A p \in Process : proc[p].pc \in Carrying =>
        /\ intent[proc[p].batch].seq = proc[p].seq
        /\ \A q \in Process : q # p /\ proc[q].pc \in Carrying => proc[q].batch # proc[p].batch
        /\ proc[p].pc \in {"prepared", "placed", "writing"} =>
              /\ proc[p].batch \notin WholeBatches(log)
              /\ intent[proc[p].batch].state \in {"prepared", "aborted"}
        /\ Fence(p) => intent[proc[p].batch].state = IF proc[p].pc = "appended" THEN "appended" ELSE "prepared"

\* What the file holds was prepared, and what a recovery has read is in it.
FileInv ==
    /\ \A b \in WholeBatches(log) : intent[b].state # "none"
    /\ \A p \in Process : proc[p].pc = "settling" => \A b \in proc[p].bytes : WithBytes(b, log)

\* What was appended is in the file, or the file has debris of a write that was cut in
\* two and of whose beginning another has disposed.
EvidenceInv ==
    /\ \A b \in Batch : \/ intent[b].state \in {"appended", "committed"}
                        \/ \E p \in Process : proc[p].pc \in {"written", "appended"} /\ proc[p].batch = b
          => WithBytes(b, log) \/ Debris(log)
    /\ Debris(log) => late /\ Tears # {}
    /\ \A p \in Process : proc[p].pc = "writing" =>
          /\ Tears # {}
          /\ Fence(p) /\ ~late => log # <<>> /\ \E kind \in Tears : log[Len(log)] = Piece(p, kind)

\* A cache is of a file that has only been added to since, but for its last piece.
Follows(c, l) ==
    /\ Len(c.log) <= Len(l)
    /\ \A i \in 1 .. Len(c.log) :
          /\ c.log[i].kind \in {"batch", "debris"} => l[i] = c.log[i]
          /\ c.log[i].kind = "part" => l[i].kind # "torn"
    /\ ~TornTail(c.log)
CacheInv ==
    \A p \in Process :
        /\ Follows(cache[p], log)
        /\ cache[p] # NoCache /\ Readable(cache[p].log) => cache[p].next = Ends(cache[p].log) + 1

\* A cache that is fresh, or would be if a torn tail went.
Current(p) == cache[p] # NoCache /\ Repaired(log) = cache[p].log

Behind(p) == \A c \in Sure : intent[c].seq < cache[p].next

\* A batch that stays between the storages while the file cannot be read.
Stuck(b) ==
    /\ intent[b].state \in {"prepared", "aborted"} /\ b \notin Sure
    /\ \A q \in Process : Fence(q) /\ proc[q].pc \in Carrying => proc[q].batch # b

OrderInv ==
    \A p \in Process : Current(p) /\ ~Readable(cache[p].log) =>
        \/ Behind(p)
        \/ proc[p].pc \notin {"gated", "bound"} /\ \E b \in Batch : Stuck(b)

\* One who has the lease appends beyond everything.
AheadInv ==
    \A p \in Process : Fence(p) =>
        /\ proc[p].pc = "sized" => \A c \in Sure : intent[c].seq < proc[p].seq
        /\ proc[p].pc \in Carrying => \A c \in Sure \ {proc[p].batch} : intent[c].seq < proc[p].seq

ApartInv == \A b, c \in Sure : b # c => intent[b].seq # intent[c].seq

\* Of the batches of runs one at most is between the storages, and it comes after those
\* committed; none is when the owner of a run has passed the gate.
NewestInv ==
    /\ \A p \in Process :
          Fence(p) /\ proc[p].run # NoRun /\ proc[p].pc \in {"bound", "sized"} => Unsettled(proc[p].run) = {}
    /\ \A b, c \in InState({"prepared", "appended"}) :
          intent[b].run # NoRun /\ intent[c].run # NoRun => b = c
    /\ \A b \in InState({"prepared", "appended"}), c \in InState({"committed"}) :
          intent[b].run # NoRun /\ intent[c].run # NoRun => intent[c].seq < intent[b].seq

\* As long as only holders of the lease have written: a piece that follows nothing but
\* whole batches is where it should be, what is whole was intended, and the holder of
\* the lease knows the file.
TidyInv ==
    ~late =>
    /\ \A i \in 1 .. Len(log) : (\A j \in 1 .. i - 1 : log[j].kind = "batch") => log[i].seq = i
    /\ \A i \in 1 .. Len(log) : log[i].kind = "batch" =>
          intent[log[i].id].state # "aborted" /\ intent[log[i].id].seq = log[i].seq
    /\ \A p \in Process : Fence(p) =>
          /\ proc[p].pc \in {"sized", "prepared", "placed"} => Fresh(p) /\ proc[p].seq = cache[p].next
          /\ proc[p].pc \in {"placed", "writing"} => proc[p].at = proc[p].seq
          /\ proc[p].pc = "settling" => WholeBatches(log) \subseteq proc[p].bytes

LogInv == CarryInv /\ FileInv /\ EvidenceInv /\ CacheInv /\ OrderInv /\ AheadInv /\ ApartInv
          /\ NewestInv /\ TidyInv

Inv == IInv /\ LogInv

-----------------------------------------------------------------------------
(* The file as a sequence of pieces. *)

LEMMA SetOf ==
    ASSUME NEW l \in Seq(Item), NEW n \in Nat, n <= Len(l),
           \A i \in 1 .. Len(l) : l[i].kind = "batch" <=> i <= n
    PROVE  Ends(l) = n
<1>1. {i \in 1 .. Len(l) : l[i].kind = "batch"} = 1 .. n
    OBVIOUS
<1>2. Cardinality(1 .. n) = n
    BY FS_Interval
<1> QED
    BY <1>1, <1>2 DEF Ends

\* In a file that can be read a batch is where its number says, and the number of
\* batches bounds it.
LEMMA ReadableEnds ==
    ASSUME NEW l \in Seq(Item), Readable(l)
    PROVE  /\ \A i \in 1 .. Len(l) : l[i].kind = "batch" => l[i].seq = i /\ i <= Ends(l)
           /\ ~TornTail(l) /\ ~Debris(l)
<1>1. CASE \A i \in 1 .. Len(l) : l[i].kind = "batch"
  <2>1. Ends(l) = Len(l)
      BY <1>1, SetOf
  <2> QED
      BY <1>1, <2>1 DEF Readable, TornTail, Debris
<1>2. CASE \E i \in 1 .. Len(l) : l[i].kind # "batch"
  <2>1. Len(l) \in 1 .. Len(l) /\ l[Len(l)].kind = "part"
      BY <1>2 DEF Readable
  <2>2. \A i \in 1 .. Len(l) : l[i].kind = "batch" <=> i <= Len(l) - 1
      BY <2>1 DEF Readable
  <2>3. Len(l) - 1 \in Nat /\ Len(l) - 1 <= Len(l)
      BY <2>1
  <2>4. Ends(l) = Len(l) - 1
      BY <2>2, <2>3, SetOf
  <2> QED
      BY <2>1, <2>2, <2>4 DEF Readable, TornTail, Debris
<1> QED
    BY <1>1, <1>2

LEMMA RepairedIs ==
    ASSUME NEW l \in Seq(Item)
    PROVE  /\ Repaired(l) \in Seq(Item)
           /\ ~TornTail(l) => Repaired(l) = l
           /\ TornTail(l) => /\ Len(l) \in 1 .. Len(l) /\ Len(Repaired(l)) = Len(l) - 1
                             /\ l[Len(l)].kind = "torn"
           /\ Len(Repaired(l)) <= Len(l)
           /\ \A i \in 1 .. Len(Repaired(l)) : Repaired(l)[i] = l[i]
           /\ \A i \in 1 .. Len(l) : l[i].kind # "torn" => i \in 1 .. Len(Repaired(l))
<1>1. CASE ~TornTail(l)
  <2>1. Repaired(l) = l /\ Len(l) \in Nat
      BY <1>1 DEF Repaired
  <2> QED
      BY <1>1, <2>1
<1>2. CASE TornTail(l)
  <2>1. Len(l) \in Nat /\ Len(l) # 0
      BY <1>2 DEF TornTail
  <2>2. Repaired(l) = SubSeq(l, 1, Len(l) - 1)
      BY <1>2 DEF Repaired
  <2>3. Repaired(l) \in Seq(Item) /\ Len(Repaired(l)) = Len(l) - 1
    <3>1. \A i \in 1 .. Len(l) - 1 : l[i] \in Item
        BY ElementOfSeq
    <3>2. PICK n \in Nat : n = Len(l) - 1
        BY <2>1
    <3>3. SubSeq(l, 1, n) \in Seq(Item) /\ Len(SubSeq(l, 1, n)) = n
        BY <3>1, <3>2, SubSeqProperties
    <3> QED
        BY <2>2, <3>2, <3>3
  <2>4. \A i \in 1 .. Len(l) - 1 : Repaired(l)[i] = l[i]
      BY <2>1, <2>2
  <2>5. l[Len(l)].kind = "torn"
      BY <1>2 DEF TornTail
  <2> QED
      BY <1>2, <2>1, <2>3, <2>4, <2>5
<1> QED
    BY <1>1, <1>2

\* Nothing whole is dropped, and a repair that makes the file readable is the last.
LEMMA RepairedKeeps ==
    ASSUME NEW l \in Seq(Item)
    PROVE  /\ WholeBatches(Repaired(l)) = WholeBatches(l)
           /\ Debris(Repaired(l)) <=> Debris(l)
           /\ Readable(Repaired(l)) => Repaired(Repaired(l)) = Repaired(l) /\ ~Debris(l)
           /\ \A b \in Batch : WithBytes(b, Repaired(l)) <=> WithBytes(b, l)
<1> DEFINE r == Repaired(l)
<1>1. /\ \A i \in 1 .. Len(r) : i \in 1 .. Len(l) /\ r[i] = l[i]
      /\ \A i \in 1 .. Len(l) : l[i].kind # "torn" => i \in 1 .. Len(r)
      /\ r \in Seq(Item)
    BY RepairedIs
<1> HIDE DEF r
<1>2. WholeBatches(r) = WholeBatches(l)
    BY <1>1 DEF WholeBatches
<1>3. Debris(r) <=> Debris(l)
    BY <1>1 DEF Debris
<1>4. ASSUME NEW b \in Batch PROVE WithBytes(b, r) <=> WithBytes(b, l)
    BY <1>1 DEF WithBytes
<1>5. Readable(r) => ~TornTail(r) /\ ~Debris(r)
    BY <1>1, ReadableEnds
<1>6. Readable(r) => Repaired(r) = r /\ ~Debris(l)
    BY <1>3, <1>5 DEF Repaired
<1> QED
    BY <1>2, <1>3, <1>4, <1>6 DEF r

-----------------------------------------------------------------------------
(* The kinds of steps, by what they leave of the file, the intents and the actors. *)

Same(q) == /\ cache'[q] = cache[q]
           /\ proc'[q].pc = proc[q].pc /\ proc'[q].run = proc[q].run
           /\ proc'[q].batch = proc[q].batch /\ proc'[q].seq = proc[q].seq
           /\ proc'[q].at = proc[q].at /\ proc'[q].bytes = proc[q].bytes
Drops(q) == cache'[q] \in {cache[q], NoCache} /\ proc'[q].pc \in {"idle", "taken", "begun", "failing"}
OthersSame(p) == \A q \in Process : q # p => Same(q)
NoGain == \A q \in Process : Fence(q)' => Fence(q)

\* Nothing is written, and nobody gets the lease.
Aside == UNCHANGED <<log, intent, late>> /\ NoGain /\ \A q \in Process : Same(q) \/ Drops(q)

Gains(p) ==
    /\ UNCHANGED <<log, intent, cache, late>> /\ OthersSame(p) /\ lease'.holder = p
    /\ \/ proc'[p].pc \in {"idle", "taken"}
       \/ proc[p].pc = "gated" /\ proc'[p].pc = "bound" /\ proc'[p].run = NoRun

Passes(p) ==
    /\ UNCHANGED <<log, intent, lease, cache, late>> /\ OthersSame(p) /\ Writable(p)
    /\ proc[p].pc = "idle" /\ proc'[p].pc \in {"gated", "bound"} /\ proc'[p].run = proc[p].run

Scans(p) ==
    /\ UNCHANGED <<intent, lease>> /\ OthersSame(p) /\ Scannable(p) /\ Scan(p)
    /\ proc'[p].run = proc[p].run /\ proc'[p].batch = proc[p].batch
    /\ \/ proc[p].pc = "bound" /\ proc'[p].pc = "sized" /\ proc'[p].seq = NextSeq(p)
       \/ /\ proc[p].pc = "prepared" /\ proc'[p].pc = "placed"
          /\ proc'[p].seq = proc[p].seq /\ proc'[p].at = NextSeq(p)

Prepares(p) ==
    /\ UNCHANGED <<log, lease, cache, late>> /\ OthersSame(p) /\ Fence(p)
    /\ Unused \in Batch /\ intent[Unused].state = "none"
    /\ intent' = [intent EXCEPT ![Unused] = [state |-> "prepared", run |-> proc[p].run, seq |-> proc[p].seq]]
    /\ proc[p].pc = "sized" /\ proc'[p].pc = "prepared" /\ proc'[p].batch = Unused
    /\ proc'[p].run = proc[p].run /\ proc'[p].seq = proc[p].seq

Cuts(p) ==
    /\ UNCHANGED <<intent, lease, cache>> /\ OthersSame(p) /\ late' = (late \/ ~Fence(p))
    /\ \E kind \in Tears : log' = Append(log, Piece(p, kind))
    /\ proc[p].pc = "placed" /\ proc'[p].pc = "writing" /\ proc'[p].run = proc[p].run
    /\ proc'[p].batch = proc[p].batch /\ proc'[p].seq = proc[p].seq /\ proc'[p].at = proc[p].at

Halved(p) == log # <<>> /\ \E kind \in Tears : log[Len(log)] = Piece(p, kind)
Wrote(p) ==
    /\ UNCHANGED intent /\ OthersSame(p) /\ late' = (late \/ ~Fence(p))
    /\ proc[p].pc \in {"placed", "writing"}
    /\ \/ log' = Append(log, Piece(p, "batch")) /\ proc[p].pc = "placed"
       \/ log' = [log EXCEPT ![Len(log)] = Piece(p, "batch")] /\ Halved(p)
       \/ log' = Append(log, Piece(p, "debris")) /\ ~Halved(p) /\ proc[p].pc = "writing"
    /\ cache'[p].log = log' /\ cache'[p].next = proc[p].at + 1
    /\ \/ /\ proc[p].at = proc[p].seq /\ proc'[p].pc = "written" /\ UNCHANGED lease
          /\ proc'[p].run = proc[p].run /\ proc'[p].batch = proc[p].batch /\ proc'[p].seq = proc[p].seq
       \/ proc[p].at # proc[p].seq /\ proc'[p].pc = "idle" /\ NoGain

\* An intent is moved on by the holder of the lease: by its owner once the bytes are
\* in, or by a recovery that has read the file.
Marks(p, b) ==
    /\ proc[p].batch = b /\ intent'[b].state = "appended" /\ proc[p].pc = "written" /\ proc'[p].pc = "appended"
    /\ proc'[p].run = proc[p].run /\ proc'[p].batch = b /\ proc'[p].seq = proc[p].seq
Commits(p, b) ==
    /\ proc[p].batch = b /\ intent'[b].state = "committed" /\ proc[p].pc = "appended" /\ proc'[p].pc = "idle"
Settles(p, b) ==
    /\ Same(p) /\ proc[p].pc = "settling" /\ intent[b].state \in {"prepared", "appended"}
    /\ intent'[b].state = IF b \notin proc[p].bytes THEN "aborted"
                          ELSE IF intent[b].state = "prepared" THEN "appended" ELSE "committed"
Moves(p) ==
    /\ UNCHANGED <<log, cache, late>> /\ OthersSame(p) /\ Fence(p) /\ NoGain
    /\ \E b \in Batch :
          /\ \A c \in Batch : c # b => intent'[c] = intent[c]
          /\ intent'[b].run = intent[b].run /\ intent'[b].seq = intent[b].seq
          /\ Marks(p, b) \/ Commits(p, b) \/ Settles(p, b)

Reads(p) ==
    /\ UNCHANGED <<log, intent, lease, cache, late>> /\ OthersSame(p)
    /\ Verdict \notin {"corrupt", "blocked"}
    /\ proc'[p].pc = "settling" /\ proc'[p].bytes = WholeBatches(log)

Step(p) == Gains(p) \/ Passes(p) \/ Scans(p) \/ Prepares(p) \/ Cuts(p) \/ Wrote(p) \/ Moves(p) \/ Reads(p)

\* An actor that changes nothing but its own place, or loses it.
LEMMA GoKind ==
    ASSUME NEW p \in Process, NEW pc, proc \in [Process -> Proc], Go(p, pc)
    PROVE  /\ \A q \in Process : q # p => proc'[q] = proc[q]
           /\ proc'[p].pc = pc /\ proc'[p].run = proc[p].run
           /\ proc'[p].batch = proc[p].batch /\ proc'[p].seq = proc[p].seq
           /\ proc'[p].at = proc[p].at /\ proc'[p].bytes = proc[p].bytes
    BY DEF Go, Proc

LEMMA AsideKind ==
    ASSUME NEW p \in Process, UNCHANGED <<log, intent, late>>, NoGain,
           \A q \in Process : q # p => proc'[q] = proc[q] /\ cache'[q] = cache[q],
           cache'[p] \in {cache[p], NoCache}, proc'[p].pc \in {"idle", "taken", "begun", "failing"}
    PROVE  Aside
    BY DEF Aside, Same, Drops

LEMMA FailsKind ==
    ASSUME NEW p \in Process, proc \in [Process -> Proc], Fails(p), UNCHANGED <<log, intent, late, cache>>
    PROVE  Aside
    BY FailsEffect, AsideKind DEF NoGain, Fence

LEMMA StopsKind ==
    ASSUME NEW p \in Process, proc \in [Process -> Proc], Stops(p), Released(p) \/ UNCHANGED lease,
           UNCHANGED <<log, intent, late, cache>>
    PROVE  Aside
    BY StopsEffect, ReleasedEffect, AsideKind DEF NoGain, Fence

LEMMA GoesKind ==
    ASSUME NEW p \in Process, NEW pc \in {"begun", "failing"}, proc \in [Process -> Proc], Go(p, pc),
           UNCHANGED <<log, intent, late, cache, lease>>
    PROVE  Aside
    BY GoKind, AsideKind DEF NoGain, Fence

LEMMA Kinds ==
    ASSUME IInv, [Next]_vars
    PROVE  Aside \/ \E p \in Process : Step(p)
<1>0. /\ log \in Seq(Item) /\ intent \in [Batch -> Intent] /\ lease \in Lease /\ proc \in [Process -> Proc]
      /\ cache \in [Process -> Cache] /\ late \in BOOLEAN /\ AppendInv
    BY TypeIs DEF IInv
<1> USE <1>0
<1> DEFINE K == Aside \/ \E p \in Process : Step(p)
<1>a. \A p \in Process : Step(p) => K
    OBVIOUS
<1>b. Aside => K
    OBVIOUS
<1> HIDE DEF K
<1>1. CASE UNCHANGED vars
  <2>1. Aside
      BY <1>1 DEF vars, Aside, Same, NoGain, Fence
  <2> QED
      BY <2>1, <1>b
<1>2. ASSUME NEW p \in Process, Admit(p) PROVE K
  <2>1. Gains(p)
      BY <1>2 DEF Admit, Gains, OthersSame, Same, Taken, Rest
  <2> QED
      BY <2>1, <1>a DEF Step
<1>3. ASSUME NEW p \in Process, Gate(p) PROVE K
  <2>1. PICK pc \in {"gated", "bound"} : Go(p, pc)
      BY <1>3 DEF Gate
  <2>2. Passes(p)
      BY <1>3, <2>1, GoKind DEF Gate, Passes, OthersSame, Same, Idle
  <2> QED
      BY <2>2, <1>a DEF Step
<1>4. ASSUME NEW p \in Process, Reserve(p) PROVE K
  <2>1. CASE lease.live
      BY <1>4, <2>1, <1>b, StopsKind DEF Reserve
  <2>2. CASE ~lease.live
    <3>1. proc[p].run = NoRun
        BY <1>4 DEF Reserve, AppendInv
    <3>2. Gains(p)
        BY <1>4, <2>2, <3>1, GoKind DEF Reserve, Gains, OthersSame, Same, Taken
    <3> QED
        BY <3>2, <1>a DEF Step
  <2> QED
      BY <2>1, <2>2
<1>5. ASSUME NEW p \in Process, NextSequence(p) \/ Position(p) PROVE K
  <2>1. CASE ~Scannable(p)
      BY <1>5, <2>1, <1>b, FailsKind DEF NextSequence, Position
  <2>2. CASE Scannable(p)
    <3>1. \A q \in Process : q # p => cache'[q] = cache[q]
        BY <1>5, <2>2 DEF NextSequence, Position, Scan
    <3>2. CASE NextSequence(p)
      <4>1. PICK new : new = [proc[p] EXCEPT !.pc = "sized", !.seq = NextSeq(p)] /\ proc' = [proc EXCEPT ![p] = new]
          BY <3>2, <2>2 DEF NextSequence
      <4>2. /\ \A q \in Process : q # p => proc'[q] = proc[q]
            /\ proc'[p].run = proc[p].run /\ proc'[p].batch = proc[p].batch
            /\ proc'[p].pc = "sized" /\ proc'[p].seq = NextSeq(p)
          BY <4>1 DEF Proc
      <4> QED
          BY <2>2, <3>1, <3>2, <4>2, <1>a DEF Step, Scans, OthersSame, Same, NextSequence
    <3>3. CASE Position(p)
      <4>1. PICK new : new = [proc[p] EXCEPT !.pc = "placed", !.at = NextSeq(p)] /\ proc' = [proc EXCEPT ![p] = new]
          BY <3>3, <2>2 DEF Position
      <4>2. /\ \A q \in Process : q # p => proc'[q] = proc[q]
            /\ proc'[p].run = proc[p].run /\ proc'[p].batch = proc[p].batch
            /\ proc'[p].pc = "placed" /\ proc'[p].seq = proc[p].seq /\ proc'[p].at = NextSeq(p)
          BY <4>1 DEF Proc
      <4> QED
          BY <2>2, <3>1, <3>3, <4>2, <1>a DEF Step, Scans, OthersSame, Same, Position
    <3> QED
        BY <1>5, <3>2, <3>3
  <2> QED
      BY <2>1, <2>2
<1>6. ASSUME NEW p \in Process, Prepare(p) PROVE K
  <2>1. CASE Fence(p) /\ InState({"none"}) # {}
    <3>1. Unused \in Batch /\ intent[Unused].state = "none"
        BY <2>1, UnusedType
    <3>2. PICK new : new = [proc[p] EXCEPT !.pc = "prepared", !.batch = Unused] /\ proc' = [proc EXCEPT ![p] = new]
        BY <1>6, <2>1 DEF Prepare
    <3>3. /\ \A q \in Process : q # p => proc'[q] = proc[q]
          /\ proc'[p].run = proc[p].run /\ proc'[p].batch = Unused
          /\ proc'[p].pc = "prepared" /\ proc'[p].seq = proc[p].seq
        BY <3>2 DEF Proc
    <3> QED
        BY <1>6, <2>1, <3>1, <3>3, <1>a DEF Step, Prepares, OthersSame, Same, Prepare
  <2>2. CASE ~(Fence(p) /\ InState({"none"}) # {})
      BY <1>6, <2>2, <1>b, FailsKind DEF Prepare
  <2> QED
      BY <2>1, <2>2
<1>7. ASSUME NEW p \in Process, WritePart(p) PROVE K
  <2>1. Cuts(p)
      BY <1>7, GoKind DEF WritePart, Cuts, OthersSame, Same
  <2> QED
      BY <2>1, <1>a DEF Step
<1>8. ASSUME NEW p \in Process, Write(p) \/ WriteRest(p) PROVE K
  <2>1. Written(p) /\ UNCHANGED intent /\ proc[p].pc \in {"placed", "writing"}
      BY <1>8 DEF Write, WriteRest
  <2>2. \/ log' = Append(log, Piece(p, "batch")) /\ proc[p].pc = "placed"
        \/ log' = [log EXCEPT ![Len(log)] = Piece(p, "batch")] /\ Halved(p)
        \/ log' = Append(log, Piece(p, "debris")) /\ ~Halved(p) /\ proc[p].pc = "writing"
      BY <1>8 DEF Write, WriteRest, Halved
  <2>3. PICK new : new = [log |-> log', next |-> proc[p].at + 1, count |-> cache[p].count + 1]
                   /\ cache' = [cache EXCEPT ![p] = new]
      BY <2>1 DEF Written
  <2>4. /\ \A q \in Process : q # p => cache'[q] = cache[q]
        /\ cache'[p].log = log' /\ cache'[p].next = proc[p].at + 1
      BY <2>3
  <2>5. late' = (late \/ ~Fence(p))
      BY <2>1 DEF Written
  <2>6. CASE proc[p].at = proc[p].seq
    <3>1. Go(p, "written") /\ UNCHANGED lease
        BY <2>1, <2>6 DEF Written
    <3>2. /\ \A q \in Process : q # p => proc'[q] = proc[q]
          /\ proc'[p].pc = "written" /\ proc'[p].run = proc[p].run
          /\ proc'[p].batch = proc[p].batch /\ proc'[p].seq = proc[p].seq
        BY <3>1, GoKind
    <3>3. OthersSame(p)
        BY <2>4, <3>2 DEF OthersSame, Same
    <3> QED
        BY <2>1, <2>2, <2>4, <2>5, <2>6, <3>1, <3>2, <3>3, <1>a DEF Step, Wrote
  <2>7. CASE proc[p].at # proc[p].seq
    <3>1. /\ \A q \in Process : q # p => proc'[q] = proc[q]
          /\ proc'[p].pc = "idle" /\ NoGain
        BY <2>1, <2>7, FailsEffect DEF Written, NoGain, Fence
    <3>3. OthersSame(p)
        BY <2>4, <3>1 DEF OthersSame, Same
    <3> QED
        BY <2>1, <2>2, <2>4, <2>5, <2>7, <3>1, <3>3, <1>a DEF Step, Wrote
  <2> QED
      BY <2>6, <2>7
<1>9. ASSUME NEW p \in Process, Mark(p) \/ CommitEventIntent(p) PROVE K
  <2>1. CASE ~Fence(p)
      BY <1>9, <2>1, <1>b, FailsKind DEF Mark, CommitEventIntent
  <2>2. CASE Fence(p)
    <3>1. proc[p].batch \in Batch /\ UNCHANGED <<log, cache, late>>
        BY <1>9 DEF Mark, CommitEventIntent, AppendInv, Carrying
    <3>2. CASE Mark(p)
      <4>1. /\ intent'[proc[p].batch].state = "appended"
            /\ intent'[proc[p].batch].run = intent[proc[p].batch].run
            /\ intent'[proc[p].batch].seq = intent[proc[p].batch].seq
            /\ \A c \in Batch : c # proc[p].batch => intent'[c] = intent[c]
          BY <2>2, <3>1, <3>2 DEF Mark, Moved, Intent
      <4>2. Marks(p, proc[p].batch) /\ OthersSame(p) /\ NoGain
          BY <2>2, <3>1, <3>2, <4>1, GoKind DEF Mark, Marks, OthersSame, Same, NoGain, Fence
      <4> QED
          BY <2>2, <3>1, <4>1, <4>2, <1>a DEF Step, Moves
    <3>3. CASE CommitEventIntent(p)
      <4>1. /\ intent'[proc[p].batch].state = "committed"
            /\ intent'[proc[p].batch].run = intent[proc[p].batch].run
            /\ intent'[proc[p].batch].seq = intent[proc[p].batch].seq
            /\ \A c \in Batch : c # proc[p].batch => intent'[c] = intent[c]
          BY <2>2, <3>1, <3>3 DEF CommitEventIntent, Moved, Intent
      <4>2. NoGain
          BY <2>2, <3>3, ReleasedEffect DEF CommitEventIntent, NoGain, Fence
      <4>3. (\A q \in Process : q # p => proc'[q] = proc[q]) /\ proc'[p].pc = "idle"
          BY <2>2, <3>3, StopsEffect DEF CommitEventIntent, Rest
      <4>4. Commits(p, proc[p].batch) /\ OthersSame(p)
          BY <3>1, <3>3, <4>1, <4>3 DEF CommitEventIntent, Commits, OthersSame, Same
      <4> QED
          BY <2>2, <3>1, <4>1, <4>2, <4>4, <1>a DEF Step, Moves
    <3> QED
        BY <1>9, <3>2, <3>3
  <2> QED
      BY <2>1, <2>2
<1>10. ASSUME NEW p \in Process, Close(p) PROVE K
  <2>1. Aside
      BY <1>10 DEF Close, Aside, Same, NoGain, Fence, Proc
  <2> QED
      BY <2>1, <1>b
<1>11. ASSUME NEW p \in Process, Finish(p) \/ LoseLease(p) \/ FailRecovery(p) PROVE K
    BY <1>11, <1>b, StopsKind DEF Finish, LoseLease, FailRecovery
<1>12. ASSUME NEW p \in Process, AcquireRecovery(p) PROVE K
  <2>1. Gains(p)
      BY <1>12 DEF AcquireRecovery, Gains, OthersSame, Same, Taken, Rest
  <2> QED
      BY <2>1, <1>a DEF Step
<1>13. ASSUME NEW p \in Process, BeginRecovery(p) \/ Converge(p) PROVE K
    BY <1>13, <1>b, StopsKind, GoesKind DEF BeginRecovery, Converge
<1>14. ASSUME NEW p \in Process, Reconcile(p) PROVE K
  <2>1. CASE Verdict \in {"corrupt", "blocked"}
      BY <1>14, <2>1, <1>b, GoesKind DEF Reconcile
  <2>2. CASE Verdict \notin {"corrupt", "blocked"}
    <3>1. PICK new : /\ new = [proc[p] EXCEPT !.pc = "settling", !.bytes = WholeBatches(log)]
                     /\ proc' = [proc EXCEPT ![p] = new]
        BY <1>14, <2>2 DEF Reconcile
    <3>2. /\ \A q \in Process : q # p => proc'[q] = proc[q]
          /\ proc'[p].pc = "settling" /\ proc'[p].bytes = WholeBatches(log)
        BY <3>1 DEF Proc
    <3> QED
        BY <1>14, <2>2, <3>2, <1>a DEF Step, Reads, OthersSame, Same, Reconcile
  <2> QED
      BY <2>1, <2>2
<1>15. ASSUME NEW p \in Process, Settle(p) PROVE K
  <2>1. PICK b \in Unsettled(proc[p].run) :
          IF ~Fence(p) THEN Go(p, "failing") /\ UNCHANGED intent
          ELSE /\ Moved(b, IF b \notin proc[p].bytes THEN "aborted"
                           ELSE IF intent[b].state = "prepared" THEN "appended" ELSE "committed")
               /\ UNCHANGED proc
      BY <1>15 DEF Settle
  <2>2. /\ b \in Batch /\ intent[b].state \in {"prepared", "appended"} /\ proc[p].pc = "settling"
        /\ UNCHANGED <<log, cache, late, lease>>
      BY <1>15 DEF Unsettled, InState, Settle
  <2>3. CASE ~Fence(p)
      BY <2>1, <2>2, <2>3, <1>b, GoesKind
  <2>4. CASE Fence(p)
    <3>1. PICK state : /\ state = IF b \notin proc[p].bytes THEN "aborted"
                                  ELSE IF intent[b].state = "prepared" THEN "appended" ELSE "committed"
                       /\ Moved(b, state)
        BY <2>1, <2>4
    <3>2. /\ intent'[b].state = state /\ intent'[b].run = intent[b].run /\ intent'[b].seq = intent[b].seq
          /\ \A c \in Batch : c # b => intent'[c] = intent[c]
        BY <2>2, <3>1 DEF Moved, Intent
    <3>3. Settles(p, b) /\ OthersSame(p) /\ NoGain
        BY <2>1, <2>2, <2>4, <3>1, <3>2 DEF Settles, OthersSame, Same, NoGain, Fence
    <3> QED
        BY <2>2, <2>4, <3>2, <3>3, <1>a DEF Step, Moves
  <2> QED
      BY <2>3, <2>4
<1>16. ASSUME RetryDue PROVE K
  <2>1. Aside
      BY <1>16 DEF RetryDue, Aside, Same, NoGain, Fence
  <2> QED
      BY <2>1, <1>b
<1>17. ASSUME Expire PROVE K
  <2>1. Aside
      BY <1>17 DEF Expire, Aside, Same, NoGain, Fence, Lease
  <2> QED
      BY <2>1, <1>b
<1>18. ASSUME NEW p \in Process, Renew(p) PROVE K
  <2>1. Aside
      BY <1>18 DEF Renew, Taken, Aside, Same, NoGain, Fence
  <2> QED
      BY <2>1, <1>b
<1>19. ASSUME NEW p \in Process, Crash(p) PROVE K
  <2>1. NoGain
      BY <1>19, StoreAssumption DEF Crash, NoGain, Fence, Lease
  <2> QED
      BY <1>19, <2>1, <1>b, StopsEffect, AsideKind DEF Crash
<1>20. ASSUME NEW p \in Process, TransactionFails(p) PROVE K
    BY <1>20, <1>b, FailsKind, GoesKind DEF TransactionFails
<1>21. ASSUME NEW p \in Process, Appends(p) \/ Recovers(p) PROVE K
    BY <1>4, <1>5, <1>6, <1>8, <1>9, <1>11, <1>13, <1>14, <1>15, <1>21 DEF Appends, Recovers
<1>22. ASSUME Next PROVE K
    BY <1>2, <1>3, <1>7, <1>10, <1>11, <1>12, <1>16, <1>17, <1>18, <1>19, <1>20, <1>21, <1>22 DEF Next
<1> QED
    BY <1>1, <1>22 DEF K

-----------------------------------------------------------------------------
(* How the file changes. *)

\* Whole batches and debris stay where they are; only a torn tail goes.
Grown(l, m) ==
    \A i \in 1 .. Len(l) :
        \/ i = Len(l) /\ l[i].kind = "torn"
        \/ /\ i \in 1 .. Len(m)
           /\ l[i].kind \in {"batch", "debris"} => m[i] = l[i]
           /\ l[i].kind = "part" => m[i].kind # "torn"

LEMMA KindIs == ASSUME NEW l \in Seq(Item) PROVE \A i \in 1 .. Len(l) :
                   l[i] \in Item /\ l[i].kind \in {"batch", "part", "torn", "debris"}
<1>1. \A i \in 1 .. Len(l) : l[i] \in Item
    BY ElementOfSeq
<1> QED
    BY <1>1 DEF Item

LEMMA GrownFollows ==
    ASSUME NEW l \in Seq(Item), NEW m \in Seq(Item), NEW c \in Cache, Grown(l, m), Follows(c, l)
    PROVE  Follows(c, m)
<1>0. c.log \in Seq(Item)
    BY DEF Cache
<1>1. \A i \in 1 .. Len(c.log) : i \in 1 .. Len(l)
    BY <1>0 DEF Follows
<1>2. ASSUME NEW i \in 1 .. Len(c.log), i = Len(l), l[i].kind = "torn" PROVE FALSE
  <2>1. i = Len(c.log) /\ c.log # <<>>
      BY <1>0, <1>2 DEF Follows
  <2>2. c.log[i].kind \in {"batch", "part", "torn", "debris"}
      BY <1>0, KindIs
  <2>3. c.log[i].kind = "torn"
      BY <1>2, <2>2 DEF Follows
  <2> QED
      BY <2>1, <2>3 DEF Follows, TornTail
<1>3. \A i \in 1 .. Len(c.log) : i \in 1 .. Len(m)
    BY <1>1, <1>2 DEF Grown
<1>4. Len(c.log) <= Len(m)
  <2>1. CASE Len(c.log) = 0
      BY <2>1
  <2>2. CASE Len(c.log) # 0
    <3>1. Len(c.log) \in 1 .. Len(c.log)
        BY <1>0, <2>2
    <3> QED
        BY <1>0, <1>3, <3>1
  <2> QED
      BY <2>1, <2>2
<1>5. ASSUME NEW i \in 1 .. Len(c.log)
      PROVE  /\ c.log[i].kind \in {"batch", "debris"} => m[i] = c.log[i]
             /\ c.log[i].kind = "part" => m[i].kind # "torn"
  <2>1. /\ l[i].kind \in {"batch", "debris"} => m[i] = l[i]
        /\ l[i].kind = "part" => m[i].kind # "torn"
      BY <1>1, <1>2 DEF Grown
  <2>2. l[i].kind \in {"batch", "part", "torn", "debris"}
      BY <1>1, KindIs
  <2> QED
      BY <2>1, <2>2 DEF Follows
<1> QED
    BY <1>4, <1>5 DEF Follows

LEMMA GrownHolds ==
    ASSUME NEW l \in Seq(Item), NEW m \in Seq(Item), Grown(l, m)
    PROVE  WholeBatches(l) \subseteq WholeBatches(m) /\ (Debris(l) => Debris(m))
<1>1. \A i \in 1 .. Len(l) : l[i].kind \in {"batch", "debris"} => i \in 1 .. Len(m) /\ m[i] = l[i]
    BY DEF Grown
<1> QED
    BY <1>1 DEF WholeBatches, Debris

\* The bytes of a batch stay in the file.
LEMMA BytesStay ==
    ASSUME log \in Seq(Item), log' \in Seq(Item), Grown(log, log'), NEW b \in Batch,
           intent'[b].seq = intent[b].seq, WithBytes(b, log)
    PROVE  WithBytes(b, log)'
<1>1. PICK i \in 1 .. Len(log) : log[i] = [kind |-> "batch", id |-> b, seq |-> intent[b].seq]
    BY DEF WithBytes
<1>2. i \in 1 .. Len(log') /\ log'[i] = log[i]
    BY <1>1 DEF Grown
<1> QED
    BY <1>1, <1>2 DEF WithBytes

LEMMA BytesWhole ==
    ASSUME NEW l, NEW b \in Batch, WithBytes(b, l)
    PROVE  b \in WholeBatches(l)
    BY DEF WithBytes, WholeBatches

LEMMA AppendFile ==
    ASSUME NEW l \in Seq(Item), NEW x \in Item
    PROVE  /\ Append(l, x) \in Seq(Item) /\ Len(Append(l, x)) = Len(l) + 1
           /\ Append(l, x)[Len(l) + 1] = x
           /\ \A i \in 1 .. Len(l) : Append(l, x)[i] = l[i]
           /\ Grown(l, Append(l, x))
<1>1. /\ Append(l, x) \in Seq(Item) /\ Len(Append(l, x)) = Len(l) + 1
      /\ Append(l, x)[Len(l) + 1] = x
      /\ \A i \in 1 .. Len(l) : Append(l, x)[i] = l[i]
    OBVIOUS
<1>2. Grown(l, Append(l, x))
    BY <1>1 DEF Grown
<1> QED
    BY <1>1, <1>2

LEMMA ReplaceFile ==
    ASSUME NEW l \in Seq(Item), NEW x \in Item, l # <<>>,
           l[Len(l)].kind \in {"part", "torn"}, x.kind = "batch"
    PROVE  /\ [l EXCEPT ![Len(l)] = x] \in Seq(Item) /\ Len([l EXCEPT ![Len(l)] = x]) = Len(l)
           /\ [l EXCEPT ![Len(l)] = x][Len(l)] = x
           /\ \A i \in 1 .. Len(l) - 1 : [l EXCEPT ![Len(l)] = x][i] = l[i]
           /\ Grown(l, [l EXCEPT ![Len(l)] = x])
<1>0. PICK m : m = [l EXCEPT ![Len(l)] = x]
    OBVIOUS
<1>1. Len(l) \in 1 .. Len(l)
    OBVIOUS
<1>2. /\ m \in Seq(Item) /\ Len(m) = Len(l) /\ m[Len(l)] = x
      /\ \A i \in 1 .. Len(l) - 1 : m[i] = l[i]
    BY <1>0, <1>1, ExceptSeq
<1>3. ASSUME NEW i \in 1 .. Len(l)
      PROVE  /\ i \in 1 .. Len(m)
             /\ l[i].kind \in {"batch", "debris"} => m[i] = l[i]
             /\ l[i].kind = "part" => m[i].kind # "torn"
  <2>1. CASE i = Len(l)
      BY <1>2, <2>1
  <2>2. CASE i # Len(l)
    <3>1. i \in 1 .. Len(l) - 1
        BY <2>2
    <3> QED
        BY <1>2, <3>1
  <2> QED
      BY <2>1, <2>2
<1>4. Grown(l, m)
    BY <1>3 DEF Grown
<1> QED
    BY <1>0, <1>2, <1>4

LEMMA RepairFile ==
    ASSUME NEW l \in Seq(Item)
    PROVE  Grown(l, Repaired(l))
<1>1. /\ \A i \in 1 .. Len(Repaired(l)) : Repaired(l)[i] = l[i]
      /\ TornTail(l) => Len(Repaired(l)) = Len(l) - 1 /\ l[Len(l)].kind = "torn"
      /\ ~TornTail(l) => Repaired(l) = l
    BY RepairedIs
<1>2. CASE TornTail(l)
    BY <1>1, <1>2 DEF Grown
<1>3. CASE ~TornTail(l)
    BY <1>1, <1>3 DEF Grown
<1> QED
    BY <1>2, <1>3

-----------------------------------------------------------------------------
(* What the steps do to the file and to the intents. *)

Types == /\ log \in Seq(Item) /\ intent \in [Batch -> Intent] /\ lease \in Lease
         /\ proc \in [Process -> Proc] /\ cache \in [Process -> Cache] /\ late \in BOOLEAN

LEMMA TypesHold == IInv => Types /\ AppendInv
    BY TypeIs DEF IInv, Types

LEMMA ScanEffect ==
    ASSUME Types, NEW p \in Process, Scan(p), Scannable(p)
    PROVE  \/ Fresh(p) /\ UNCHANGED <<log, cache, late>> /\ NextSeq(p) = cache[p].next
           \/ /\ ~Fresh(p) /\ log' = Repaired(log) /\ Readable(log')
              /\ NextSeq(p) = Ends(log') + 1
              /\ cache'[p].log = log' /\ cache'[p].next = Ends(log') + 1
              /\ late' = (late \/ (TornTail(log) /\ ~Fence(p)))
<1>1. CASE Fresh(p)
    BY <1>1 DEF Scan, NextSeq
<1>2. CASE ~Fresh(p)
  <2>1. log' = Repaired(log) /\ Readable(log') /\ NextSeq(p) = Ends(log') + 1
        /\ late' = (late \/ (TornTail(log) /\ ~Fence(p)))
      BY <1>2 DEF Scan, NextSeq, Scannable
  <2>2. cache'[p] = [log |-> log', next |-> NextSeq(p), count |-> Ends(log')]
      BY <1>2 DEF Scan, Types
  <2> QED
      BY <1>2, <2>1, <2>2
<1> QED
    BY <1>1, <1>2

\* A write adds a batch or debris as the last piece, or makes the last piece whole.
LEMMA WroteEffect ==
    ASSUME Types, AppendInv, NEW p \in Process, Wrote(p)
    PROVE  /\ proc[p].batch \in Batch
           /\ log' \in Seq(Item) /\ Len(log') \in 1 .. Len(log') /\ Len(log) <= Len(log')
           /\ \A i \in 1 .. Len(log') : i # Len(log') => i \in 1 .. Len(log) /\ log'[i] = log[i]
           /\ log'[Len(log')].id = proc[p].batch /\ log'[Len(log')].seq = proc[p].at
           /\ \/ log'[Len(log')].kind = "batch"
              \/ log'[Len(log')].kind = "debris" /\ ~Halved(p) /\ proc[p].pc = "writing"
           /\ \/ Len(log') = Len(log) + 1 /\ (log'[Len(log')].kind = "batch" => proc[p].pc = "placed")
              \/ /\ Len(log') = Len(log) /\ log[Len(log)].kind \in {"part", "torn"}
                 /\ log[Len(log)].seq = proc[p].at
           /\ Grown(log, log')
<1>0. proc[p].batch \in Batch /\ proc[p] \in Proc /\ log \in Seq(Item)
    BY DEF Wrote, AppendInv, Carrying, Types
<1>1. /\ Piece(p, "batch") \in Item /\ Piece(p, "debris") \in Item
      /\ \A kind : Piece(p, kind).kind = kind /\ Piece(p, kind).id = proc[p].batch /\ Piece(p, kind).seq = proc[p].at
    BY <1>0, PieceType DEF Piece
<1>2. ASSUME NEW x \in Item, log' = Append(log, x)
      PROVE  /\ log' \in Seq(Item) /\ Len(log') \in 1 .. Len(log') /\ Len(log) <= Len(log')
             /\ \A i \in 1 .. Len(log') : i # Len(log') => i \in 1 .. Len(log) /\ log'[i] = log[i]
             /\ log'[Len(log')] = x /\ Len(log') = Len(log) + 1 /\ Grown(log, log')
  <2>1. /\ log' \in Seq(Item) /\ Len(log') = Len(log) + 1 /\ log'[Len(log) + 1] = x
        /\ \A i \in 1 .. Len(log) : log'[i] = log[i]
        /\ Grown(log, log')
      BY <1>0, <1>2, AppendFile
  <2>2. Len(log) \in Nat
      BY <1>0
  <2> QED
      BY <2>1, <2>2
<1>3. CASE log' = Append(log, Piece(p, "batch")) /\ proc[p].pc = "placed"
  <2>1. PICK x \in Item : x = Piece(p, "batch")
      BY <1>1
  <2>2. x.id = proc[p].batch /\ x.seq = proc[p].at /\ x.kind = "batch" /\ log' = Append(log, x)
      BY <1>1, <1>3, <2>1
  <2>3. /\ log' \in Seq(Item) /\ Len(log') \in 1 .. Len(log') /\ Len(log) <= Len(log')
        /\ \A i \in 1 .. Len(log') : i # Len(log') => i \in 1 .. Len(log) /\ log'[i] = log[i]
        /\ log'[Len(log')] = x /\ Len(log') = Len(log) + 1 /\ Grown(log, log')
      BY <1>2, <2>2
  <2> QED
      BY <1>0, <1>3, <2>2, <2>3
<1>4. CASE log' = Append(log, Piece(p, "debris")) /\ ~Halved(p) /\ proc[p].pc = "writing"
  <2>1. PICK x \in Item : x = Piece(p, "debris")
      BY <1>1
  <2>2. x.id = proc[p].batch /\ x.seq = proc[p].at /\ x.kind = "debris" /\ log' = Append(log, x)
      BY <1>1, <1>4, <2>1
  <2>3. /\ log' \in Seq(Item) /\ Len(log') \in 1 .. Len(log') /\ Len(log) <= Len(log')
        /\ \A i \in 1 .. Len(log') : i # Len(log') => i \in 1 .. Len(log) /\ log'[i] = log[i]
        /\ log'[Len(log')] = x /\ Len(log') = Len(log) + 1 /\ Grown(log, log')
      BY <1>2, <1>4, <2>2
  <2> QED
      BY <1>0, <1>4, <2>2, <2>3
<1>5. CASE log' = [log EXCEPT ![Len(log)] = Piece(p, "batch")] /\ Halved(p)
  <2>1. log # <<>> /\ log[Len(log)].kind \in {"part", "torn"} /\ log[Len(log)].seq = proc[p].at
      BY <1>1, <1>5, StoreAssumption DEF Halved
  <2>0. PICK x \in Item : x = Piece(p, "batch")
      BY <1>1
  <2>7. x.kind = "batch" /\ log' = [log EXCEPT ![Len(log)] = x]
      BY <1>1, <1>5, <2>0
  <2>2. /\ log' \in Seq(Item) /\ Len(log') = Len(log) /\ log'[Len(log)] = x
        /\ \A i \in 1 .. Len(log) - 1 : log'[i] = log[i]
        /\ Grown(log, log')
    <3>1. PICK m : m = [log EXCEPT ![Len(log)] = x]
        OBVIOUS
    <3>2. /\ m \in Seq(Item) /\ Len(m) = Len(log) /\ m[Len(log)] = x
          /\ \A i \in 1 .. Len(log) - 1 : m[i] = log[i]
          /\ Grown(log, m)
        BY <1>0, <2>1, <2>7, <3>1, ReplaceFile
    <3> QED
        BY <2>7, <3>1, <3>2
  <2>3. Len(log) \in Nat /\ Len(log) # 0
      BY <1>0, <2>1
  <2>4. \A i \in 1 .. Len(log') : i # Len(log') => i \in 1 .. Len(log) /\ log'[i] = log[i]
      BY <2>2, <2>3
  <2>5. x.id = proc[p].batch /\ x.seq = proc[p].at /\ x.kind = "batch"
      BY <1>1, <2>0
  <2>6. Len(log') \in 1 .. Len(log') /\ Len(log) <= Len(log') /\ log'[Len(log')] = x
      BY <2>2, <2>3
  <2> QED
      BY <1>0, <1>5, <2>1, <2>2, <2>4, <2>5, <2>6
<1> QED
    BY <1>3, <1>4, <1>5 DEF Wrote

\* A write cut in two leaves a piece that is not whole.
LEMMA CutsEffect ==
    ASSUME Types, AppendInv, NEW p \in Process, Cuts(p)
    PROVE  /\ proc[p].batch \in Batch /\ Tears # {}
           /\ log' \in Seq(Item) /\ Len(log') = Len(log) + 1
           /\ \A i \in 1 .. Len(log) : log'[i] = log[i]
           /\ log'[Len(log) + 1].kind \in {"part", "torn"} /\ log'[Len(log) + 1].seq = proc[p].at
           /\ \E kind \in Tears : log'[Len(log) + 1] = Piece(p, kind)
           /\ Grown(log, log')
<1>0. proc[p].batch \in Batch /\ proc[p] \in Proc /\ log \in Seq(Item)
    BY DEF Cuts, AppendInv, Carrying, Types
<1>1. PICK kind \in Tears : log' = Append(log, Piece(p, kind))
    BY DEF Cuts
<1>2. kind \in {"part", "torn"}
    BY <1>1, StoreAssumption
<1>3. Piece(p, kind) \in Item /\ Piece(p, kind).kind = kind /\ Piece(p, kind).seq = proc[p].at
    BY <1>0, <1>2, PieceType DEF Piece
<1>4. /\ log' \in Seq(Item) /\ Len(log') = Len(log) + 1 /\ log'[Len(log) + 1] = Piece(p, kind)
      /\ \A i \in 1 .. Len(log) : log'[i] = log[i]
      /\ Grown(log, log')
    BY <1>0, <1>1, <1>3, AppendFile
<1> QED
    BY <1>0, <1>1, <1>2, <1>3, <1>4

\* Whatever happens, the file grows.
LEMMA FileGrows ==
    ASSUME Types, AppendInv, Aside \/ \E p \in Process : Step(p)
    PROVE  Grown(log, log')
<1>0. log \in Seq(Item)
    BY DEF Types
<1>1. ASSUME log' = log PROVE Grown(log, log')
    BY <1>0, <1>1 DEF Grown
<1>2. ASSUME NEW p \in Process, Scans(p) PROVE Grown(log, log')
    BY <1>0, <1>1, <1>2, ScanEffect, RepairFile DEF Scans
<1>3. ASSUME NEW p \in Process, Step(p) PROVE Grown(log, log')
    BY <1>1, <1>2, <1>3, WroteEffect, CutsEffect DEF Step, Gains, Passes, Prepares, Moves, Reads
<1> QED
    BY <1>1, <1>3 DEF Aside

\* An intent keeps its run and its place.
LEMMA IntentsStay ==
    ASSUME Types, Aside \/ \E p \in Process : Step(p), NEW b \in Batch, intent[b].state # "none"
    PROVE  /\ intent'[b].seq = intent[b].seq /\ intent'[b].run = intent[b].run
           /\ intent'[b].state # "none"
<1>1. ASSUME NEW p \in Process, Prepares(p)
      PROVE  intent'[b] = intent[b]
    BY <1>1 DEF Prepares, Types
<1>2. ASSUME NEW p \in Process, Moves(p)
      PROVE  /\ intent'[b].seq = intent[b].seq /\ intent'[b].run = intent[b].run
             /\ intent'[b].state # "none"
    BY <1>2 DEF Moves, Marks, Commits, Settles
<1>3. ASSUME NEW p \in Process, Step(p)
      PROVE  /\ intent'[b].seq = intent[b].seq /\ intent'[b].run = intent[b].run
             /\ intent'[b].state # "none"
    BY <1>1, <1>2, <1>3 DEF Step, Gains, Passes, Scans, Cuts, Wrote, Reads
<1> QED
    BY <1>3 DEF Aside

-----------------------------------------------------------------------------
(* Which batches become sure, and which stay stuck. *)

Known == Types /\ AppendInv /\ LogInv

LEMMA SureIsKnown ==
    ASSUME Known, NEW b \in Sure
    PROVE  b \in Batch /\ intent[b].state # "none"
<1>1. CASE intent[b].state \in {"appended", "committed"}
    BY <1>1 DEF Sure
<1>2. ASSUME NEW q \in Process, proc[q].pc = "written", proc[q].batch = b
      PROVE  intent[b].state # "none"
    BY <1>2 DEF Known, AppendInv, Carrying
<1>3. ASSUME NEW q \in Process, proc[q].pc = "settling", b \in proc[q].bytes, b \in Batch
      PROVE  intent[b].state # "none"
  <2>1. b \in WholeBatches(log)
      BY <1>3, BytesWhole DEF Known, LogInv, FileInv
  <2> QED
      BY <2>1 DEF Known, LogInv, FileInv
<1> QED
    BY <1>1, <1>2, <1>3 DEF Sure, Vouches

\* Only a write that was meant, and the look of a recovery, make batches sure.
Calm(p) == Gains(p) \/ Passes(p) \/ Scans(p) \/ Prepares(p) \/ Cuts(p) \/ Moves(p)

LEMMA SureStays ==
    ASSUME Known, Aside \/ \E p \in Process : Calm(p)
    PROVE  Sure' \subseteq Sure
<1>1. ASSUME \A b \in Batch : intent'[b].state \in {"appended", "committed"} => b \in Sure,
             \A q \in Process, b \in Batch : Fence(q)' /\ Vouches(q, b)' => Fence(q) /\ Vouches(q, b)
      PROVE  Sure' \subseteq Sure
    BY <1>1 DEF Sure
<1>2. CASE Aside
  <2>1. \A q \in Process, b \in Batch : Fence(q)' /\ Vouches(q, b)' => Fence(q) /\ Vouches(q, b)
      BY <1>2 DEF Aside, NoGain, Same, Drops, Vouches
  <2>2. \A b \in Batch : intent'[b].state \in {"appended", "committed"} => b \in Sure
      BY <1>2 DEF Aside, Sure
  <2> QED
      BY <1>1, <2>1, <2>2
<1>3. ASSUME NEW p \in Process, Gains(p) PROVE Sure' \subseteq Sure
  <2>1. \A q \in Process, b \in Batch : Fence(q)' /\ Vouches(q, b)' => Fence(q) /\ Vouches(q, b)
      BY <1>3 DEF Gains, Fence, Vouches
  <2>2. \A b \in Batch : intent'[b].state \in {"appended", "committed"} => b \in Sure
      BY <1>3 DEF Gains, Sure
  <2> QED
      BY <1>1, <2>1, <2>2
<1>4. ASSUME NEW p \in Process, Passes(p) \/ Scans(p) \/ Cuts(p) PROVE Sure' \subseteq Sure
  <2>1. UNCHANGED <<intent, lease>> /\ OthersSame(p) /\ proc'[p].pc \notin {"written", "settling"}
      BY <1>4 DEF Passes, Scans, Cuts
  <2>2. \A q \in Process, b \in Batch : Fence(q)' /\ Vouches(q, b)' => Fence(q) /\ Vouches(q, b)
      BY <2>1 DEF OthersSame, Same, Fence, Vouches
  <2>3. \A b \in Batch : intent'[b].state \in {"appended", "committed"} => b \in Sure
      BY <2>1 DEF Sure
  <2> QED
      BY <1>1, <2>2, <2>3
<1>5. ASSUME NEW p \in Process, Prepares(p) PROVE Sure' \subseteq Sure
  <2>1. \A q \in Process, b \in Batch : Fence(q)' /\ Vouches(q, b)' => Fence(q) /\ Vouches(q, b)
      BY <1>5 DEF Prepares, OthersSame, Same, Fence, Vouches
  <2>2. intent'[Unused].state = "prepared" /\ \A b \in Batch : b # Unused => intent'[b] = intent[b]
      BY <1>5 DEF Prepares, Known, Types
  <2>3. \A b \in Batch : intent'[b].state \in {"appended", "committed"} => b \in Sure
      BY <2>2 DEF Sure
  <2> QED
      BY <1>1, <2>1, <2>3
<1>6. ASSUME NEW p \in Process, Moves(p) PROVE Sure' \subseteq Sure
  <2>1. PICK b \in Batch : /\ \A c \in Batch : c # b => intent'[c] = intent[c]
                           /\ Marks(p, b) \/ Commits(p, b) \/ Settles(p, b)
      BY <1>6 DEF Moves
  <2>2. OthersSame(p) /\ Fence(p) /\ NoGain
      BY <1>6 DEF Moves
  <2>3. \A q \in Process, c \in Batch : Fence(q)' /\ Vouches(q, c)' => Fence(q) /\ Vouches(q, c)
      BY <2>1, <2>2 DEF OthersSame, Same, NoGain, Fence, Marks, Commits, Settles, Vouches
  <2>4. intent'[b].state \in {"appended", "committed"} => b \in Sure
    <3>1. CASE Marks(p, b)
        BY <2>2, <3>1 DEF Marks, Sure, Vouches
    <3>2. CASE Commits(p, b)
      <4>1. intent[b].state = "appended"
          BY <2>2, <3>2 DEF Commits, Known, LogInv, CarryInv, Carrying
      <4> QED
          BY <4>1 DEF Sure
    <3>3. CASE Settles(p, b)
        BY <2>2, <3>3 DEF Settles, Sure, Vouches
    <3> QED
        BY <2>1, <3>1, <3>2, <3>3
  <2>5. \A c \in Batch : intent'[c].state \in {"appended", "committed"} => c \in Sure
      BY <2>1, <2>4 DEF Sure
  <2> QED
      BY <1>1, <2>3, <2>5
<1> QED
    BY <1>2, <1>3, <1>4, <1>5, <1>6 DEF Calm

LEMMA SureWrote ==
    ASSUME Known, NEW p \in Process, Wrote(p), NEW b \in Sure', b \notin Sure
    PROVE  b = proc[p].batch /\ Fence(p) /\ proc[p].at = proc[p].seq /\ proc'[p].pc = "written"
<1>1. PICK q \in Process : Fence(q)' /\ (\/ proc'[q].pc = "written" /\ proc'[q].batch = b
                                         \/ proc'[q].pc = "settling" /\ b \in proc'[q].bytes)
    BY DEF Wrote, Sure, Vouches
<1>2. Fence(q)
    BY <1>1 DEF Wrote, NoGain, Fence
<1>3. b \in Batch
    BY DEF Sure
<1>4. q = p
    BY <1>1, <1>2, <1>3 DEF Wrote, OthersSame, Same, Sure, Vouches
<1> QED
    BY <1>1, <1>2, <1>4 DEF Wrote

LEMMA SureReads ==
    ASSUME Known, NEW p \in Process, Reads(p), NEW b \in Sure', b \notin Sure
    PROVE  b \in WholeBatches(log) /\ Fence(p)
<1>1. PICK q \in Process : Fence(q)' /\ (\/ proc'[q].pc = "written" /\ proc'[q].batch = b
                                         \/ proc'[q].pc = "settling" /\ b \in proc'[q].bytes)
    BY DEF Reads, Sure, Vouches
<1>2. Fence(q)
    BY <1>1 DEF Reads, Fence
<1>3. b \in Batch
    BY DEF Sure
<1>4. q = p
    BY <1>1, <1>2, <1>3 DEF Reads, OthersSame, Same, Sure, Vouches
<1> QED
    BY <1>1, <1>2, <1>4 DEF Reads

LEMMA StuckStays ==
    ASSUME Known, Aside \/ \E p \in Process : Calm(p), NEW b \in Batch, Stuck(b)
    PROVE  Stuck(b)'
<1>0. b \notin Sure' /\ intent[b].state \in {"prepared", "aborted"} /\ b \notin Sure
    BY SureStays DEF Stuck
<1>1. CASE Aside
    BY <1>0, <1>1 DEF Aside, NoGain, Same, Drops, Stuck, Carrying
<1>2. ASSUME NEW p \in Process, Gains(p) PROVE Stuck(b)'
    BY <1>0, <1>2 DEF Gains, Fence, Stuck, Carrying
<1>3. ASSUME NEW p \in Process, Passes(p) \/ Scans(p) \/ Cuts(p) PROVE Stuck(b)'
  <2>1. /\ UNCHANGED <<intent, lease>> /\ OthersSame(p)
        /\ proc'[p].pc \in Carrying => proc[p].pc \in Carrying /\ proc'[p].batch = proc[p].batch
      BY <1>3 DEF Passes, Scans, Cuts, Carrying
  <2> QED
      BY <1>0, <2>1 DEF OthersSame, Same, Fence, Stuck
<1>4. ASSUME NEW p \in Process, Prepares(p) PROVE Stuck(b)'
  <2>1. b # Unused /\ intent'[b] = intent[b]
      BY <1>0, <1>4 DEF Prepares, Known, Types
  <2> QED
      BY <1>0, <1>4, <2>1 DEF Prepares, OthersSame, Same, Fence, Stuck
<1>5. ASSUME NEW p \in Process, Moves(p) PROVE Stuck(b)'
  <2>1. PICK c \in Batch : /\ \A d \in Batch : d # c => intent'[d] = intent[d]
                           /\ Marks(p, c) \/ Commits(p, c) \/ Settles(p, c)
      BY <1>5 DEF Moves
  <2>2. OthersSame(p) /\ Fence(p) /\ NoGain
      BY <1>5 DEF Moves
  <2>3. intent'[b].state \in {"prepared", "aborted"}
    <3>1. CASE c # b
        BY <1>0, <2>1, <3>1
    <3>2. CASE c = b
      <4>1. ~Marks(p, c) /\ ~Commits(p, c)
          BY <2>2, <3>2 DEF Marks, Commits, Stuck, Carrying
      <4>2. Settles(p, c)
          BY <2>1, <4>1
      <4>3. b \notin proc[p].bytes
          BY <1>0, <2>2, <4>2 DEF Settles, Sure, Vouches
      <4> QED
          BY <3>2, <4>2, <4>3 DEF Settles
    <3> QED
        BY <3>1, <3>2
  <2>4. \A q \in Process : Fence(q)' /\ proc'[q].pc \in Carrying =>
            Fence(q) /\ proc[q].pc \in Carrying /\ proc'[q].batch = proc[q].batch
      BY <2>1, <2>2 DEF OthersSame, Same, NoGain, Marks, Commits, Settles, Carrying
  <2> QED
      BY <1>0, <2>3, <2>4 DEF Stuck
<1> QED
    BY <1>1, <1>2, <1>3, <1>4, <1>5 DEF Calm

-----------------------------------------------------------------------------
(* Every step keeps the invariant, one part at a time. *)

Unwritten == {"prepared", "placed", "writing"}

LEMMA CarryStep ==
    ASSUME Known, Types', Aside \/ \E p \in Process : Step(p)
    PROVE  CarryInv'
<1>0. /\ CarryInv /\ FileInv /\ Grown(log, log')
      /\ log \in Seq(Item) /\ log' \in Seq(Item) /\ intent \in [Batch -> Intent]
    BY FileGrows DEF Known, LogInv, Types
<1>a. \A q \in Process : proc[q].pc \in Carrying =>
          /\ proc[q].batch \in Batch /\ intent[proc[q].batch].state # "none"
          /\ intent'[proc[q].batch].seq = intent[proc[q].batch].seq
    BY IntentsStay DEF Known, AppendInv
<1>1. ASSUME \A q \in Process : proc'[q].pc \in Carrying =>
                 /\ proc[q].pc \in Carrying /\ proc'[q].batch = proc[q].batch /\ proc'[q].seq = proc[q].seq,
             \A q \in Process : proc'[q].pc \in Unwritten =>
                 /\ proc'[q].batch \notin WholeBatches(log')
                 /\ intent'[proc'[q].batch].state \in {"prepared", "aborted"},
             \A q \in Process : Fence(q)' /\ proc'[q].pc \in Carrying =>
                 intent'[proc'[q].batch].state = IF proc'[q].pc = "appended" THEN "appended" ELSE "prepared"
      PROVE  CarryInv'
    BY <1>0, <1>a, <1>1 DEF CarryInv, Unwritten
<1>2. ASSUME \A q \in Process : proc'[q].pc \in Carrying =>
                 Same(q) /\ (Fence(q)' => Fence(q)),
             UNCHANGED <<intent, log>>
      PROVE  CarryInv'
    BY <1>0, <1>a, <1>1, <1>2 DEF Same, CarryInv, Unwritten, Carrying
<1>3. CASE Aside
  <2>1. \A q \in Process : proc'[q].pc \in Carrying => Same(q) /\ (Fence(q)' => Fence(q))
      BY <1>3 DEF Aside, NoGain, Drops, Carrying
  <2> QED
      BY <1>2, <1>3, <2>1 DEF Aside
<1>4. ASSUME NEW p \in Process, Gains(p) \/ Passes(p) \/ Reads(p) PROVE CarryInv'
  <2>1. /\ proc'[p].pc \notin Carrying /\ OthersSame(p) /\ UNCHANGED <<intent, log>>
        /\ \A q \in Process : Fence(q)' => q = p \/ Fence(q)
      BY <1>4 DEF Gains, Passes, Reads, Carrying, Fence
  <2>2. \A q \in Process : proc'[q].pc \in Carrying => Same(q) /\ (Fence(q)' => Fence(q))
      BY <2>1 DEF OthersSame
  <2> QED
      BY <1>2, <2>1, <2>2
<1>5. ASSUME NEW p \in Process, Scans(p) \/ Cuts(p) PROVE CarryInv'
  <2>1. WholeBatches(log') = WholeBatches(log)
    <3>1. CASE Scans(p)
      <4>1. log' = log \/ log' = Repaired(log)
          BY <3>1, ScanEffect DEF Scans, Known
      <4> QED
          BY <1>0, <4>1, RepairedKeeps
    <3>2. CASE Cuts(p)
      <4>1. /\ Len(log') = Len(log) + 1 /\ log'[Len(log) + 1].kind # "batch"
            /\ \A i \in 1 .. Len(log) : log'[i] = log[i]
          BY <3>2, CutsEffect DEF Known
      <4>2. Len(log) \in Nat
          BY <1>0
      <4>3. \A i \in 1 .. Len(log') : i \in 1 .. Len(log) \/ i = Len(log) + 1
          BY <4>1, <4>2
      <4>4. \A i \in 1 .. Len(log) : i \in 1 .. Len(log')
          BY <4>1, <4>2
      <4> QED
          BY <4>1, <4>3, <4>4 DEF WholeBatches
    <3> QED
        BY <1>5, <3>1, <3>2
  <2>2. UNCHANGED <<intent, lease>> /\ OthersSame(p)
      BY <1>5 DEF Scans, Cuts
  <2>3. proc'[p].pc = "sized" \/ /\ proc[p].pc \in Unwritten /\ proc'[p].pc \in Unwritten
                                 /\ proc'[p].batch = proc[p].batch /\ proc'[p].seq = proc[p].seq
      BY <1>5 DEF Scans, Cuts, Unwritten
  <2>4. \A q \in Process : proc'[q].pc \in Carrying =>
            /\ proc[q].pc \in Carrying /\ proc'[q].batch = proc[q].batch /\ proc'[q].seq = proc[q].seq
            /\ (proc'[q].pc \in Unwritten => proc[q].pc \in Unwritten)
            /\ (proc'[q].pc = "appended" <=> proc[q].pc = "appended")
      BY <2>2, <2>3 DEF OthersSame, Same, Unwritten, Carrying
  <2>5. Unwritten \subseteq Carrying
      BY DEF Unwritten, Carrying
  <2> QED
      BY <1>0, <1>1, <2>1, <2>2, <2>4, <2>5 DEF CarryInv, Fence, Unwritten
<1>6. ASSUME NEW p \in Process, Wrote(p) PROVE CarryInv'
  <2>1. /\ \A i \in 1 .. Len(log') : i # Len(log') => i \in 1 .. Len(log) /\ log'[i] = log[i]
        /\ log'[Len(log')].id = proc[p].batch
      BY <1>6, WroteEffect DEF Known
  <2>2. \A b \in WholeBatches(log') : b = proc[p].batch \/ b \in WholeBatches(log)
      BY <2>1 DEF WholeBatches
  <2>3. /\ proc[p].pc \in Unwritten /\ proc'[p].pc \in {"written", "idle"} /\ UNCHANGED intent /\ OthersSame(p)
        /\ proc'[p].pc = "written" => proc'[p].batch = proc[p].batch /\ proc'[p].seq = proc[p].seq
      BY <1>6 DEF Wrote, Unwritten
  <2>4. \A q \in Process : proc'[q].pc \in Carrying =>
            /\ proc[q].pc \in Carrying /\ proc'[q].batch = proc[q].batch /\ proc'[q].seq = proc[q].seq
            /\ (proc'[q].pc \in Unwritten => q # p /\ proc[q].pc \in Unwritten)
            /\ (proc'[q].pc = "appended" <=> proc[q].pc = "appended")
      BY <2>3 DEF OthersSame, Same, Unwritten, Carrying
  <2>5. \A q \in Process : Fence(q)' => Fence(q)
      BY <1>6 DEF Wrote, NoGain, Fence
  <2>6. Unwritten \subseteq Carrying
      BY DEF Unwritten, Carrying
  <2>7. \A q \in Process : proc'[q].pc \in Unwritten =>
                 /\ proc'[q].batch \notin WholeBatches(log')
                 /\ intent'[proc'[q].batch].state \in {"prepared", "aborted"}
      BY <1>0, <2>2, <2>3, <2>4, <2>6 DEF CarryInv, Unwritten
  <2> QED
      BY <1>0, <1>1, <2>3, <2>4, <2>5, <2>7 DEF CarryInv
<1>7. ASSUME NEW p \in Process, Moves(p) PROVE CarryInv'
  <2>1. PICK b \in Batch : /\ \A c \in Batch : c # b => intent'[c] = intent[c]
                           /\ Marks(p, b) \/ Commits(p, b) \/ Settles(p, b)
      BY <1>7 DEF Moves
  <2>2. OthersSame(p) /\ Fence(p) /\ NoGain /\ log' = log
      BY <1>7 DEF Moves
  <2>3. \A q \in Process : q # p => Same(q) /\ ~Fence(q) /\ ~Fence(q)'
      BY <2>2 DEF OthersSame, NoGain, Fence
  <2>4. proc'[p].pc \in Carrying => Marks(p, b)
      BY <2>1 DEF Commits, Settles, Carrying, Same
  <2>5. \A q \in Process : proc'[q].pc \in Carrying =>
            /\ proc[q].pc \in Carrying /\ proc'[q].batch = proc[q].batch /\ proc'[q].seq = proc[q].seq
            /\ (proc'[q].pc \in Unwritten => q # p /\ proc[q].pc \in Unwritten)
      BY <2>3, <2>4 DEF Same, Marks, Carrying, Unwritten
  <2>6. \A q \in Process : Fence(q)' /\ proc'[q].pc \in Carrying =>
                 intent'[proc'[q].batch].state = IF proc'[q].pc = "appended" THEN "appended" ELSE "prepared"
      BY <2>3, <2>4 DEF Marks
  <2>7. ASSUME NEW q \in Process, proc'[q].pc \in Unwritten
        PROVE  /\ proc'[q].batch \notin WholeBatches(log')
               /\ intent'[proc'[q].batch].state \in {"prepared", "aborted"}
    <3>1. q # p /\ proc[q].pc \in Unwritten /\ proc'[q].batch = proc[q].batch /\ proc[q].pc \in Carrying
        BY <2>5, <2>7 DEF Unwritten, Carrying
    <3>2. proc[q].batch \notin WholeBatches(log) /\ intent[proc[q].batch].state \in {"prepared", "aborted"}
        BY <1>0, <3>1 DEF CarryInv, Unwritten
    <3>3. proc[q].batch \in Batch
        BY <1>a, <3>1
    <3>4. CASE proc[q].batch # b
        BY <2>1, <2>2, <3>1, <3>2, <3>3, <3>4
    <3>5. CASE proc[q].batch = b
      <4>1. ~Marks(p, b) /\ ~Commits(p, b)
          BY <1>0, <3>1, <3>5 DEF CarryInv, Marks, Commits, Carrying
      <4>2. Settles(p, b)
          BY <2>1, <4>1
      <4>3. b \notin proc[p].bytes
          BY <1>0, <3>2, <3>5, <4>2, BytesWhole DEF FileInv, Settles
      <4> QED
          BY <2>2, <3>1, <3>2, <3>5, <4>2, <4>3 DEF Settles
    <3> QED
        BY <3>4, <3>5
  <2> QED
      BY <1>1, <2>5, <2>6, <2>7
<1>8. ASSUME NEW p \in Process, Prepares(p) PROVE CarryInv'
  <2>1. /\ Unused \in Batch /\ intent[Unused].state = "none" /\ intent'[Unused].state = "prepared"
        /\ intent'[Unused].seq = proc[p].seq /\ \A c \in Batch : c # Unused => intent'[c] = intent[c]
      BY <1>0, <1>8 DEF Prepares
  <2>2. /\ OthersSame(p) /\ log' = log /\ Fence(p) /\ UNCHANGED lease /\ proc[p].pc = "sized"
        /\ proc'[p].pc = "prepared" /\ proc'[p].batch = Unused /\ proc'[p].seq = proc[p].seq
      BY <1>8 DEF Prepares
  <2>3. \A q \in Process : q # p /\ proc[q].pc \in Carrying => proc[q].batch # Unused
      BY <1>a, <2>1
  <2>4. Unused \notin WholeBatches(log)
      BY <1>0, <2>1 DEF FileInv
  <2>5. \A q \in Process : q # p => Same(q) /\ ~Fence(q)'
      BY <2>2 DEF OthersSame, Fence
  <2>6. ASSUME NEW q \in Process, q # p, proc'[q].pc \in Carrying
        PROVE  /\ intent'[proc'[q].batch].seq = proc'[q].seq
               /\ \A r \in Process : r # q /\ proc'[r].pc \in Carrying => proc'[r].batch # proc'[q].batch
               /\ proc'[q].pc \in {"prepared", "placed", "writing"} =>
                     /\ proc'[q].batch \notin WholeBatches(log')
                     /\ intent'[proc'[q].batch].state \in {"prepared", "aborted"}
    <3>1. Same(q) /\ proc[q].pc \in Carrying /\ proc[q].batch # Unused /\ proc[q].batch \in Batch
        BY <1>a, <2>3, <2>5, <2>6 DEF Same
    <3>2. intent'[proc[q].batch] = intent[proc[q].batch]
        BY <2>1, <3>1
    <3>3. \A r \in Process : r # q /\ proc'[r].pc \in Carrying => proc'[r].batch # proc[q].batch
        BY <1>0, <2>2, <2>5, <3>1 DEF CarryInv, Same
    <3> QED
        BY <1>0, <2>2, <3>1, <3>2, <3>3 DEF CarryInv, Same
  <2>7. \A r \in Process : r # p /\ proc'[r].pc \in Carrying => proc'[r].batch # Unused
      BY <2>3, <2>5 DEF Same
  <2>8. ASSUME NEW q \in Process, proc'[q].pc \in Carrying, Fence(q)'
        PROVE  intent'[proc'[q].batch].state = IF proc'[q].pc = "appended" THEN "appended" ELSE "prepared"
      BY <2>1, <2>2, <2>5, <2>8
  <2>9. /\ intent'[proc'[p].batch].seq = proc'[p].seq
        /\ \A r \in Process : r # p /\ proc'[r].pc \in Carrying => proc'[r].batch # proc'[p].batch
        /\ proc'[p].batch \notin WholeBatches(log')
        /\ intent'[proc'[p].batch].state \in {"prepared", "aborted"}
      BY <2>1, <2>2, <2>4, <2>7
  <2> QED
      BY <2>6, <2>8, <2>9 DEF CarryInv
<1> QED
    BY <1>3, <1>4, <1>5, <1>6, <1>7, <1>8 DEF Step

LEMMA FileStep ==
    ASSUME Known, Types', Aside \/ \E p \in Process : Step(p)
    PROVE  FileInv'
<1>0. /\ FileInv /\ log \in Seq(Item) /\ log' \in Seq(Item)
      /\ proc \in [Process -> Proc] /\ proc' \in [Process -> Proc] /\ Grown(log, log')
    BY FileGrows DEF Known, LogInv, Types
<1>a. \A b \in Batch : intent[b].state # "none" =>
          intent'[b].state # "none" /\ intent'[b].seq = intent[b].seq
    BY IntentsStay DEF Known
<1>b. ASSUME NEW b \in Batch, WithBytes(b, log) PROVE WithBytes(b, log)'
  <2>1. b \in WholeBatches(log)
      BY <1>b, BytesWhole
  <2> QED
      BY <1>0, <1>a, <1>b, <2>1, BytesStay DEF FileInv
<1>c. \A b \in WholeBatches(log) : b \in Batch
    BY <1>0, KindIs DEF WholeBatches, Item
<1>1. ASSUME NEW b \in WholeBatches(log') PROVE intent'[b].state # "none"
  <2>1. CASE b \in WholeBatches(log)
      BY <1>0, <1>a, <1>c, <2>1 DEF FileInv
  <2>2. CASE b \notin WholeBatches(log)
    <3>1. ASSUME NEW p \in Process, Scans(p) PROVE FALSE
      <4>1. log' = log \/ log' = Repaired(log)
          BY <3>1, ScanEffect DEF Scans, Known
      <4> QED
          BY <1>0, <1>1, <2>2, <4>1, RepairedKeeps
    <3>2. ASSUME NEW p \in Process, Cuts(p) PROVE FALSE
      <4>1. /\ Len(log') = Len(log) + 1 /\ log'[Len(log) + 1].kind # "batch"
            /\ \A i \in 1 .. Len(log) : log'[i] = log[i]
          BY <3>2, CutsEffect DEF Known
      <4>2. \A i \in 1 .. Len(log') : i \in 1 .. Len(log) \/ i = Len(log) + 1
          BY <1>0, <4>1
      <4> QED
          BY <1>1, <2>2, <4>1, <4>2 DEF WholeBatches
    <3>3. ASSUME NEW p \in Process, Wrote(p) PROVE intent'[b].state # "none"
      <4>1. /\ \A i \in 1 .. Len(log') : i # Len(log') => i \in 1 .. Len(log) /\ log'[i] = log[i]
            /\ log'[Len(log')].id = proc[p].batch /\ proc[p].batch \in Batch
          BY <3>3, WroteEffect DEF Known
      <4>2. b = proc[p].batch
          BY <1>1, <2>2, <4>1 DEF WholeBatches
      <4>3. intent[b].state # "none"
          BY <3>3, <4>2 DEF Known, AppendInv, Wrote, Carrying
      <4> QED
          BY <1>a, <4>1, <4>2, <4>3
    <3>4. log' # log
        BY <1>1, <2>2
    <3>5. ~Aside /\ \A p \in Process : ~Gains(p) /\ ~Passes(p) /\ ~Prepares(p) /\ ~Moves(p) /\ ~Reads(p)
        BY <3>4 DEF Aside, Gains, Passes, Prepares, Moves, Reads
    <3> QED
        BY <3>1, <3>2, <3>3, <3>5 DEF Step
  <2> QED
      BY <2>1, <2>2
<1>2. ASSUME NEW q \in Process, proc'[q].pc = "settling", NEW b \in proc'[q].bytes
      PROVE  WithBytes(b, log)'
  <2>0. b \in Batch
      BY <1>0, <1>2 DEF Proc
  <2>1. CASE proc[q].pc = "settling" /\ b \in proc[q].bytes
      BY <1>0, <1>b, <2>0, <2>1 DEF FileInv
  <2>2. CASE ~(proc[q].pc = "settling" /\ b \in proc[q].bytes)
    <3>1. ~Same(q)
        BY <1>2, <2>2 DEF Same
    <3>2. ~Aside /\ ~Drops(q)
        BY <1>2, <3>1 DEF Aside, Drops
    <3>3. PICK p \in Process : Step(p)
        BY <3>2
    <3>4. q = p
        BY <3>1, <3>3 DEF Step, OthersSame, Gains, Passes, Scans, Prepares, Cuts, Wrote, Moves, Reads
    <3>5. Reads(q)
      <4>1. ~Gains(q) /\ ~Passes(q) /\ ~Scans(q) /\ ~Prepares(q) /\ ~Cuts(q) /\ ~Wrote(q)
          BY <1>2 DEF Gains, Passes, Scans, Prepares, Cuts, Wrote
      <4>2. ~Moves(q)
          BY <1>2, <3>1 DEF Moves, Marks, Commits, Settles
      <4> QED
          BY <3>3, <3>4, <4>1, <4>2 DEF Step
    <3>6. b \in WholeBatches(log) /\ Verdict # "corrupt"
        BY <1>2, <3>5 DEF Reads
    <3>7. intent[b].state # "none"
        BY <1>0, <3>6 DEF FileInv
    <3>8. WithBytes(b, log)
        BY <3>6, <3>7 DEF Verdict
    <3> QED
        BY <1>b, <2>0, <3>8
  <2> QED
      BY <2>1, <2>2
<1> QED
    BY <1>1, <1>2 DEF FileInv

LEMMA EvidenceStep ==
    ASSUME Known, Types', Aside \/ \E p \in Process : Step(p)
    PROVE  EvidenceInv'
<1>0. /\ EvidenceInv /\ FileInv /\ CarryInv /\ AppendInv /\ log \in Seq(Item) /\ log' \in Seq(Item)
      /\ proc \in [Process -> Proc] /\ late \in BOOLEAN /\ Grown(log, log')
    BY FileGrows DEF Known, LogInv, Types
<1>a. \A b \in Batch : intent[b].state # "none" =>
          intent'[b].state # "none" /\ intent'[b].seq = intent[b].seq
    BY IntentsStay DEF Known
<1>b. ASSUME NEW b \in Batch, WithBytes(b, log) PROVE WithBytes(b, log)'
  <2>1. b \in WholeBatches(log)
      BY <1>b, BytesWhole
  <2> QED
      BY <1>0, <1>a, <1>b, <2>1, BytesStay DEF FileInv
<1>c. Debris(log) => Debris(log')
    BY <1>0, GrownHolds
<1>d. ASSUME NEW b \in Batch, \/ intent[b].state \in {"appended", "committed"}
                              \/ \E p \in Process : proc[p].pc \in {"written", "appended"} /\ proc[p].batch = b
      PROVE  WithBytes(b, log)' \/ Debris(log')
    BY <1>0, <1>b, <1>c, <1>d DEF EvidenceInv
<1>1. ASSUME NEW b \in Batch, intent'[b].state \in {"appended", "committed"}
      PROVE  WithBytes(b, log)' \/ Debris(log')
  <2>1. CASE intent[b].state \in {"appended", "committed"}
      BY <1>d, <2>1
  <2>2. CASE intent[b].state \notin {"appended", "committed"}
    <3>1. intent'[b] # intent[b]
        BY <1>1, <2>2
    <3>2. ~Aside /\ \A p \in Process : ~Gains(p) /\ ~Passes(p) /\ ~Scans(p) /\ ~Cuts(p) /\ ~Wrote(p) /\ ~Reads(p)
        BY <3>1 DEF Aside, Gains, Passes, Scans, Cuts, Wrote, Reads
    <3>3. \A p \in Process : ~Prepares(p)
        BY <1>1, <2>2 DEF Prepares, Known, Types
    <3>4. PICK p \in Process : Moves(p)
        BY <3>2, <3>3 DEF Step
    <3>5. Marks(p, b) \/ Commits(p, b) \/ Settles(p, b)
        BY <3>1, <3>4 DEF Moves
    <3>6. CASE Marks(p, b) \/ Commits(p, b)
      <4>1. proc[p].pc \in {"written", "appended"} /\ proc[p].batch = b
          BY <3>6 DEF Marks, Commits
      <4> QED
          BY <1>d, <4>1
    <3>7. CASE Settles(p, b)
      <4>1. proc[p].pc = "settling" /\ b \in proc[p].bytes
          BY <1>1, <3>7 DEF Settles
      <4> QED
          BY <1>0, <1>b, <4>1 DEF FileInv
    <3> QED
        BY <3>5, <3>6, <3>7
  <2> QED
      BY <2>1, <2>2
<1>2. ASSUME NEW q \in Process, proc'[q].pc \in {"written", "appended"}, NEW b \in Batch, proc'[q].batch = b
      PROVE  WithBytes(b, log)' \/ Debris(log')
  <2>1. CASE proc[q].pc \in {"written", "appended"} /\ proc[q].batch = b
      BY <1>d, <2>1
  <2>2. CASE ~(proc[q].pc \in {"written", "appended"} /\ proc[q].batch = b)
    <3>1. ~Same(q)
        BY <1>2, <2>2 DEF Same
    <3>2. ~Aside
        BY <1>2, <3>1 DEF Aside, Drops
    <3>3. PICK p \in Process : Step(p)
        BY <3>2
    <3>4. q = p
        BY <3>1, <3>3 DEF Step, OthersSame, Gains, Passes, Scans, Prepares, Cuts, Wrote, Moves, Reads
    <3>5. Wrote(p)
      <4>1. ~Gains(p) /\ ~Passes(p) /\ ~Scans(p) /\ ~Prepares(p) /\ ~Cuts(p) /\ ~Reads(p)
          BY <1>2, <3>4 DEF Gains, Passes, Scans, Prepares, Cuts, Reads
      <4>2. ~Moves(p)
          BY <1>2, <2>2, <3>1, <3>4 DEF Moves, Marks, Commits, Settles
      <4> QED
          BY <3>3, <4>1, <4>2 DEF Step
    <3>6. /\ log'[Len(log')].id = b /\ log'[Len(log')].seq = proc[p].seq
          /\ log'[Len(log')].kind \in {"batch", "debris"} /\ Len(log') \in 1 .. Len(log')
        BY <1>2, <3>4, <3>5, WroteEffect DEF Wrote, Known
    <3>7. intent'[b].seq = proc[p].seq
        BY <1>0, <1>2, <3>4, <3>5 DEF Wrote, CarryInv, Carrying
    <3>8. CASE log'[Len(log')].kind = "debris"
        BY <3>6, <3>8 DEF Debris
    <3>9. CASE log'[Len(log')].kind = "batch"
      <4>1. log'[Len(log')] \in Item
          BY <1>0, <3>6, ElementOfSeq
      <4>2. log'[Len(log')] = [kind |-> "batch", id |-> b, seq |-> intent'[b].seq]
          BY <3>6, <3>7, <3>9, <4>1 DEF Item
      <4> QED
          BY <3>6, <4>2 DEF WithBytes
    <3> QED
        BY <3>6, <3>8, <3>9
  <2> QED
      BY <2>1, <2>2
<1>3. late => late'
    BY <1>0, ScanEffect DEF Step, Aside, Gains, Passes, Scans, Prepares, Cuts, Wrote, Moves, Reads, Known
<1>4. ASSUME NEW q \in Process, proc'[q].pc = "writing"
      PROVE  /\ Tears # {}
             /\ Fence(q)' /\ ~late' => log' # <<>> /\ \E kind \in Tears : log'[Len(log')] = Piece(q, kind)'
  <2>1. CASE \E p \in Process : Cuts(p) /\ q = p
    <3>1. Cuts(q)
        BY <2>1
    <3>2. /\ Len(log') = Len(log) + 1 /\ Tears # {}
          /\ \E kind \in Tears : log'[Len(log) + 1] = Piece(q, kind)
        BY <3>1, CutsEffect DEF Known
    <3>3. \A kind : Piece(q, kind)' = Piece(q, kind)
        BY <3>1 DEF Cuts, Piece
    <3>4. log' # <<>>
        BY <1>0, <3>2
    <3> QED
        BY <3>2, <3>3, <3>4
  <2>2. CASE \A p \in Process : Cuts(p) => q # p
    <3>1. Same(q)
        BY <1>4, <2>2 DEF Step, OthersSame, Gains, Passes, Scans, Prepares, Cuts, Wrote, Moves, Reads,
                         Marks, Commits, Settles, Aside, Drops
    <3>2. /\ proc[q].pc = "writing" /\ Tears # {}
          /\ Fence(q) /\ ~late => log # <<>> /\ \E kind \in Tears : log[Len(log)] = Piece(q, kind)
        BY <1>0, <1>4, <3>1 DEF Same, EvidenceInv
    <3>3. \A kind : Piece(q, kind)' = Piece(q, kind)
        BY <3>1 DEF Same, Piece
    <3>4. Fence(q)' => Fence(q)
        BY <1>4, <3>1, <3>2 DEF Step, Gains, Passes, Scans, Prepares, Cuts, Wrote, Moves, Reads, Aside, NoGain, Fence
    <3>5. ASSUME Fence(q)', ~late' PROVE log' = log
      <4>1. Fence(q) /\ ~late
          BY <1>3, <3>4, <3>5
      <4>2. ASSUME NEW p \in Process, Scans(p) PROVE log' = log
        <5>1. proc[p].pc # "writing"
            BY <4>2 DEF Scans
        <5>2. ~Fence(p)
            BY <3>2, <4>1, <5>1 DEF Fence
        <5> QED
            BY <1>0, <3>5, <4>2, <5>2, ScanEffect, RepairedIs DEF Known, Scans
      <4>3. ASSUME NEW p \in Process, Cuts(p) \/ Wrote(p) PROVE FALSE
        <5>1. q # p
            BY <1>4, <2>2, <4>3 DEF Wrote
        <5>2. ~Fence(p)
            BY <4>1, <5>1 DEF Fence
        <5> QED
            BY <3>5, <4>3, <5>2 DEF Cuts, Wrote
      <4> QED
          BY <4>2, <4>3 DEF Step, Gains, Passes, Prepares, Moves, Reads, Aside
    <3> QED
        BY <1>3, <3>2, <3>3, <3>4, <3>5
  <2> QED
      BY <2>1, <2>2
<1>5. ASSUME Debris(log') PROVE late' /\ Tears # {}
  <2>1. CASE Debris(log)
      BY <1>0, <1>3, <2>1 DEF EvidenceInv
  <2>2. CASE ~Debris(log)
    <3>1. ASSUME NEW p \in Process, Scans(p) PROVE FALSE
      <4>1. log' = log \/ log' = Repaired(log)
          BY <3>1, ScanEffect DEF Scans, Known
      <4> QED
          BY <1>0, <1>5, <2>2, <4>1, RepairedKeeps
    <3>2. ASSUME NEW p \in Process, Cuts(p) PROVE FALSE
      <4>1. /\ Len(log') = Len(log) + 1 /\ log'[Len(log) + 1].kind \in {"part", "torn"}
            /\ \A i \in 1 .. Len(log) : log'[i] = log[i]
          BY <3>2, CutsEffect DEF Known
      <4>2. \A i \in 1 .. Len(log') : i \in 1 .. Len(log) \/ i = Len(log) + 1
          BY <1>0, <4>1
      <4> QED
          BY <1>5, <2>2, <4>1, <4>2 DEF Debris
    <3>3. ASSUME NEW p \in Process, Wrote(p) PROVE late' /\ Tears # {}
      <4>1. /\ \A i \in 1 .. Len(log') : i # Len(log') => i \in 1 .. Len(log) /\ log'[i] = log[i]
            /\ \/ log'[Len(log')].kind = "batch"
               \/ log'[Len(log')].kind = "debris" /\ ~Halved(p) /\ proc[p].pc = "writing"
          BY <3>3, WroteEffect DEF Known
      <4>2. ~Halved(p) /\ proc[p].pc = "writing"
          BY <1>5, <2>2, <4>1 DEF Debris
      <4>3. Tears # {} /\ (Fence(p) => late)
          BY <1>0, <4>2 DEF EvidenceInv, Halved
      <4> QED
          BY <1>0, <3>3, <4>3 DEF Wrote
    <3>4. log' # log
        BY <1>5, <2>2
    <3>5. ~Aside /\ \A p \in Process : ~Gains(p) /\ ~Passes(p) /\ ~Prepares(p) /\ ~Moves(p) /\ ~Reads(p)
        BY <3>4 DEF Aside, Gains, Passes, Prepares, Moves, Reads
    <3> QED
        BY <3>1, <3>2, <3>3, <3>5 DEF Step
  <2> QED
      BY <2>1, <2>2
<1> QED
    BY <1>1, <1>2, <1>4, <1>5 DEF EvidenceInv

LEMMA FollowsItself ==
    ASSUME NEW l \in Seq(Item), ~TornTail(l), NEW c, c.log = l
    PROVE  Follows(c, l)
<1>1. \A i \in 1 .. Len(l) : l[i].kind = "part" => l[i].kind # "torn"
    OBVIOUS
<1>2. Len(l) <= Len(l)
    OBVIOUS
<1> QED
    BY <1>1, <1>2 DEF Follows

LEMMA CacheStep ==
    ASSUME Known, Types', Aside \/ \E p \in Process : Step(p)
    PROVE  CacheInv'
<1>0. /\ CacheInv /\ log \in Seq(Item) /\ log' \in Seq(Item)
      /\ cache \in [Process -> Cache] /\ cache' \in [Process -> Cache] /\ Grown(log, log')
    BY FileGrows DEF Known, LogInv, Types
<1> DEFINE Good(q) == /\ Follows(cache'[q], log')
                      /\ cache'[q] # NoCache /\ Readable(cache'[q].log) => cache'[q].next = Ends(cache'[q].log) + 1
<1>1. ASSUME NEW q \in Process, cache'[q] = cache[q] PROVE Good(q)
    BY <1>0, <1>1, GrownFollows DEF CacheInv
<1>2. ASSUME NEW q \in Process, cache'[q] = NoCache PROVE Good(q)
    BY <1>0, <1>2 DEF NoCache, Follows, TornTail
<1>3. ASSUME NEW q \in Process, Scans(q) PROVE Good(q)
  <2>1. CASE Fresh(q)
      BY <1>1, <1>3, <2>1, ScanEffect DEF Scans, Known
  <2>2. CASE ~Fresh(q)
    <3>1. cache'[q].log = log' /\ cache'[q].next = Ends(log') + 1 /\ Readable(log')
        BY <1>3, <2>2, ScanEffect DEF Scans, Known
    <3>2. ~TornTail(log')
        BY <1>0, <3>1, ReadableEnds
    <3>3. Follows(cache'[q], log')
        BY <1>0, <3>1, <3>2, FollowsItself
    <3> QED
        BY <3>1, <3>3
  <2> QED
      BY <2>1, <2>2
<1>4. ASSUME NEW q \in Process, Wrote(q) PROVE Good(q)
  <2>1. /\ log'[Len(log')].seq = proc[q].at /\ Len(log') \in 1 .. Len(log')
        /\ log'[Len(log')].kind \in {"batch", "debris"}
      BY <1>4, WroteEffect DEF Known
  <2>2. cache'[q].log = log' /\ cache'[q].next = proc[q].at + 1
      BY <1>4 DEF Wrote
  <2>3. ~TornTail(log')
      BY <2>1 DEF TornTail
  <2>4. Follows(cache'[q], log')
      BY <1>0, <2>2, <2>3, FollowsItself
  <2>5. ASSUME Readable(log') PROVE proc[q].at = Ends(log')
    <3>1. \A i \in 1 .. Len(log') : log'[i].kind = "batch" /\ log'[i].seq = i
        BY <2>1, <2>5 DEF Readable
    <3>2. Ends(log') = Len(log')
      <4>1. Len(log') \in Nat /\ Len(log') <= Len(log')
          BY <1>0
      <4>2. \A i \in 1 .. Len(log') : log'[i].kind = "batch" <=> i <= Len(log')
          BY <3>1
      <4> QED
          BY <1>0, <4>1, <4>2, SetOf
    <3> QED
        BY <2>1, <3>1, <3>2
  <2> QED
      BY <2>2, <2>4, <2>5
<1>5. ASSUME NEW q \in Process PROVE Good(q)
  <2>1. CASE cache'[q] \in {cache[q], NoCache}
      BY <1>1, <1>2, <2>1
  <2>2. CASE cache'[q] \notin {cache[q], NoCache}
    <3>1. PICK p \in Process : Step(p)
        BY <2>2 DEF Aside, Same, Drops
    <3>2. q = p
        BY <2>2, <3>1 DEF Step, OthersSame, Same, Gains, Passes, Scans, Prepares, Cuts, Wrote, Moves, Reads
    <3>3. Scans(q) \/ Wrote(q)
        BY <2>2, <3>1, <3>2 DEF Step, Gains, Passes, Prepares, Cuts, Moves, Reads
    <3> QED
        BY <1>3, <1>4, <3>3
  <2> QED
      BY <2>1, <2>2
<1> QED
    BY <1>5 DEF CacheInv

-----------------------------------------------------------------------------
(* Who knows the file. *)

\* A cache becomes current by nobody's step but its owner's; a whole piece leaves
\* nobody current but him.
LEMMA CurrentWas ==
    ASSUME Known, Types', Aside \/ \E p \in Process : Step(p), NEW q \in Process,
           cache'[q] = cache[q], Current(q)'
    PROVE  Current(q) /\ \A p \in Process : ~Wrote(p)
<1>0. /\ log \in Seq(Item) /\ log' \in Seq(Item) /\ cache[q].log \in Seq(Item)
      /\ Follows(cache[q], log)
    BY DEF Known, LogInv, Types, CacheInv, Cache
<1>1. cache[q] # NoCache /\ Repaired(log') = cache[q].log
    BY DEF Current
<1>2. CASE log' = log
  <2>1. Current(q)
      BY <1>1, <1>2 DEF Current
  <2>2. ASSUME NEW p \in Process, Wrote(p) PROVE FALSE
    <3>1. /\ Len(log') \in 1 .. Len(log')
          /\ log'[Len(log')].kind \in {"batch", "debris"}
          /\ Len(log') = Len(log) => log[Len(log)].kind \in {"part", "torn"}
          /\ Len(log') = Len(log) + 1 \/ Len(log') = Len(log)
        BY <2>2, WroteEffect DEF Known
    <3> QED
        BY <1>0, <1>2, <3>1
  <2> QED
      BY <2>1, <2>2
<1>3. ASSUME NEW p \in Process, Scans(p) PROVE Current(q)
  <2>1. log' = log \/ (log' = Repaired(log) /\ Readable(log'))
      BY <1>3, ScanEffect DEF Scans, Known
  <2> QED
      BY <1>0, <1>1, <1>2, <2>1, RepairedKeeps DEF Current
<1>4. ASSUME NEW p \in Process, Cuts(p) PROVE Current(q)
  <2>1. /\ Len(log') = Len(log) + 1 /\ log'[Len(log) + 1].kind \in {"part", "torn"}
        /\ \E kind \in Tears : log' = Append(log, Piece(p, kind))
      BY <1>4, CutsEffect DEF Known, Cuts
  <2>2. Len(log) \in Nat /\ Len(cache[q].log) <= Len(log)
      BY <1>0 DEF Follows
  <2>3. TornTail(log')
    <3>1. ASSUME ~TornTail(log') PROVE FALSE
      <4>1. log' = cache[q].log
          BY <1>1, <3>1 DEF Repaired
      <4> QED
          BY <2>1, <2>2, <4>1
    <3> QED
        BY <3>1
  <2>4. Repaired(log') = log
    <3>1. PICK r \in Seq(Item) : /\ r = Repaired(log') /\ Len(r) = Len(log') - 1
                                 /\ \A i \in 1 .. Len(r) : r[i] = log'[i]
        BY <1>0, <2>3, RepairedIs
    <3>3. Len(r) = Len(log) /\ \A i \in 1 .. Len(log) : r[i] = log'[i]
        BY <2>1, <2>2, <3>1
    <3>4. \A i \in 1 .. Len(log) : log'[i] = log[i]
        BY <1>4, CutsEffect DEF Known
    <3> QED
        BY <1>0, <3>1, <3>3, <3>4, SeqEqual
  <2>5. ~TornTail(log)
      BY <1>0, <1>1, <2>4 DEF Follows
  <2> QED
      BY <1>1, <2>4, <2>5 DEF Current, Repaired
<1>5. ASSUME NEW p \in Process, Wrote(p) PROVE FALSE
  <2>1. /\ Len(log') \in 1 .. Len(log')
        /\ log'[Len(log')].kind \in {"batch", "debris"}
        /\ Len(log') = Len(log) => log[Len(log)].kind \in {"part", "torn"}
        /\ Len(log') = Len(log) + 1 \/ Len(log') = Len(log)
      BY <1>5, WroteEffect DEF Known
  <2>2. cache[q].log = log'
      BY <1>1, <2>1 DEF Repaired, TornTail
  <2>3. Len(log) \in Nat /\ Len(log') <= Len(log)
      BY <1>0, <2>2 DEF Follows
  <2>4. Len(log') = Len(log)
      BY <2>1, <2>3
  <2>5. log[Len(log')] = log'[Len(log')]
      BY <1>0, <2>1, <2>2 DEF Follows
  <2> QED
      BY <2>1, <2>4, <2>5
<1> QED
    BY <1>2, <1>3, <1>4, <1>5 DEF Step, Aside, Gains, Passes, Prepares, Moves, Reads

-----------------------------------------------------------------------------
(* Where the next batch goes. *)

LEMMA SureBytes ==
    ASSUME Known, ~Debris(log), NEW c \in Sure
    PROVE  WithBytes(c, log)
<1>1. c \in Batch /\ EvidenceInv /\ FileInv
    BY DEF Sure, Known, LogInv
<1>2. CASE intent[c].state \in {"appended", "committed"}
    BY <1>1, <1>2 DEF EvidenceInv
<1>3. ASSUME NEW q \in Process, Vouches(q, c) PROVE WithBytes(c, log)
    BY <1>1, <1>3 DEF Vouches, EvidenceInv, FileInv
<1> QED
    BY <1>2, <1>3 DEF Sure

\* In a file that can be read a batch is at the place its intent names.
LEMMA ReadableBytes ==
    ASSUME NEW l \in Seq(Item), Readable(l), NEW b \in Batch, WithBytes(b, l)
    PROVE  /\ intent[b].seq \in 1 .. Len(l) /\ l[intent[b].seq].id = b
           /\ intent[b].seq <= Ends(l)
<1>1. PICK i \in 1 .. Len(l) : l[i] = [kind |-> "batch", id |-> b, seq |-> intent[b].seq]
    BY DEF WithBytes
<1>2. l[i].kind = "batch" /\ l[i].id = b /\ l[i].seq = intent[b].seq
    BY <1>1
<1>3. intent[b].seq = i /\ i <= Ends(l)
    BY <1>2, ReadableEnds
<1> QED
    BY <1>2, <1>3

LEMMA NextAhead ==
    ASSUME Known, NEW p \in Process, proc[p].pc = "bound", Scannable(p), NEW c \in Sure
    PROVE  intent[c].seq < NextSeq(p)
<1>0. /\ log \in Seq(Item) /\ c \in Batch /\ intent \in [Batch -> Intent]
      /\ Follows(cache[p], log) /\ OrderInv /\ CacheInv
    BY DEF Known, Types, LogInv, CacheInv, Sure
<1>1. ASSUME NEW l \in Seq(Item), Readable(l), WithBytes(c, l) PROVE intent[c].seq < Ends(l) + 1
  <2>1. intent[c].seq <= Ends(l) /\ Ends(l) \in Nat /\ intent[c].seq \in Nat
      BY <1>0, <1>1, ReadableBytes, EndsType DEF Intent
  <2> QED
      BY <2>1
<1>2. CASE Fresh(p)
  <2>1. NextSeq(p) = cache[p].next /\ cache[p] # NoCache /\ cache[p].log = log
      BY <1>2 DEF NextSeq, Fresh
  <2>2. CASE Readable(log)
    <3>1. ~Debris(log)
        BY <1>0, <2>2, ReadableEnds
    <3>2. cache[p].next = Ends(log) + 1
        BY <1>0, <2>1, <2>2 DEF CacheInv
    <3> QED
        BY <1>0, <1>1, <2>1, <2>2, <3>1, <3>2, SureBytes
  <2>3. CASE ~Readable(log)
    <3>1. Current(p)
        BY <1>0, <2>1 DEF Current, Follows, Repaired
    <3>2. Behind(p)
        BY <1>0, <2>1, <2>3, <3>1 DEF OrderInv
    <3> QED
        BY <2>1, <3>2 DEF Behind
  <2> QED
      BY <2>2, <2>3
<1>3. CASE ~Fresh(p)
  <2>1. Readable(Repaired(log)) /\ NextSeq(p) = Ends(Repaired(log)) + 1 /\ Repaired(log) \in Seq(Item)
      BY <1>0, <1>3, RepairedType DEF Scannable, NextSeq
  <2>2. ~Debris(log)
      BY <1>0, <2>1, RepairedKeeps
  <2>3. WithBytes(c, Repaired(log))
      BY <1>0, <2>2, SureBytes, RepairedKeeps
  <2> QED
      BY <1>1, <2>1, <2>3
<1> QED
    BY <1>2, <1>3

\* Nobody's step but its own lets an actor's place fall behind what is sure.
LEMMA SureForOthers ==
    ASSUME Known, NEW p \in Process, Step(p), NEW q \in Process, q # p, Fence(q)'
    PROVE  Same(q) /\ Fence(q) /\ Sure' \subseteq Sure
<1>1. Same(q) /\ ~Gains(p)
    BY DEF Step, OthersSame, Gains, Passes, Scans, Prepares, Cuts, Wrote, Moves, Reads, Fence
<1>2. Fence(q) /\ ~Fence(p)
    BY <1>1 DEF Step, Passes, Scans, Prepares, Cuts, Wrote, Moves, Reads, Fence, NoGain
<1>3. Sure' \subseteq Sure
    BY <1>2, SureStays, SureWrote, SureReads DEF Step, Calm
<1> QED
    BY <1>1, <1>2, <1>3

LEMMA AheadStep ==
    ASSUME Known, Types', Aside \/ \E p \in Process : Step(p)
    PROVE  AheadInv'
<1>0. AheadInv /\ CarryInv
    BY DEF Known, LogInv
<1>a. \A c \in Sure : c \in Batch /\ intent'[c].seq = intent[c].seq
    BY SureIsKnown, IntentsStay DEF Known
<1> DEFINE Ahead(q) == /\ proc[q].pc = "sized" => \A c \in Sure : intent[c].seq < proc[q].seq
                       /\ proc[q].pc \in Carrying => \A c \in Sure \ {proc[q].batch} : intent[c].seq < proc[q].seq
<1>1. ASSUME NEW q \in Process, Same(q), Fence(q), Sure' \subseteq Sure PROVE Ahead(q)'
  <2>1. Ahead(q)
      BY <1>0, <1>1 DEF AheadInv
  <2> QED
      BY <1>1, <1>a, <2>1 DEF Same
<1>2. ASSUME NEW q \in Process, proc'[q].pc \notin Carrying \cup {"sized"} PROVE Ahead(q)'
    BY <1>2
<1>3. ASSUME NEW q \in Process, Fence(q)', Aside PROVE Ahead(q)'
  <2>1. CASE Same(q)
    <3>1. Fence(q) /\ Sure' \subseteq Sure
        BY <1>3, SureStays DEF Aside, NoGain
    <3> QED
        BY <1>1, <2>1, <3>1
  <2>2. CASE ~Same(q)
      BY <1>2, <1>3, <2>2 DEF Aside, Drops, Carrying
  <2> QED
      BY <2>1, <2>2
<1>4. ASSUME NEW p \in Process, Step(p), NEW q \in Process, q # p, Fence(q)' PROVE Ahead(q)'
    BY <1>1, <1>4, SureForOthers
<1>5. ASSUME NEW p \in Process, Step(p), Fence(p)' PROVE Ahead(p)'
  <2>1. CASE Gains(p) \/ Passes(p) \/ Reads(p)
      BY <1>2, <2>1 DEF Gains, Passes, Reads, Carrying
  <2>2. CASE Scans(p)
    <3>1. Fence(p) /\ Sure' \subseteq Sure
        BY <1>5, <2>2, SureStays DEF Scans, Fence, Calm
    <3>2. CASE proc[p].pc = "bound"
      <4>1. proc'[p].pc = "sized" /\ proc'[p].seq = NextSeq(p) /\ Scannable(p)
          BY <2>2, <3>2 DEF Scans
      <4>2. \A c \in Sure : intent[c].seq < proc'[p].seq
          BY <3>2, <4>1, NextAhead
      <4> QED
          BY <1>a, <3>1, <4>1, <4>2 DEF Carrying
    <3>3. CASE proc[p].pc # "bound"
      <4>1. /\ proc[p].pc = "prepared" /\ proc'[p].pc = "placed"
            /\ proc'[p].seq = proc[p].seq /\ proc'[p].batch = proc[p].batch
          BY <2>2, <3>3 DEF Scans
      <4>2. \A c \in Sure \ {proc[p].batch} : intent[c].seq < proc[p].seq
          BY <1>0, <3>1, <4>1 DEF AheadInv, Carrying
      <4> QED
          BY <1>a, <3>1, <4>1, <4>2
    <3> QED
        BY <3>2, <3>3
  <2>3. CASE Prepares(p)
    <3>1. Fence(p) /\ Sure' \subseteq Sure
        BY <2>3, SureStays DEF Prepares, Calm
    <3>2. /\ proc[p].pc = "sized" /\ proc'[p].pc = "prepared"
          /\ proc'[p].seq = proc[p].seq
        BY <2>3 DEF Prepares
    <3>3. \A c \in Sure : intent[c].seq < proc[p].seq
        BY <1>0, <3>1, <3>2 DEF AheadInv
    <3> QED
        BY <1>a, <3>1, <3>2, <3>3
  <2>4. CASE Cuts(p)
    <3>1. Fence(p) /\ Sure' \subseteq Sure
        BY <1>5, <2>4, SureStays DEF Cuts, Fence, Calm
    <3>2. /\ proc[p].pc = "placed" /\ proc'[p].pc = "writing"
          /\ proc'[p].seq = proc[p].seq /\ proc'[p].batch = proc[p].batch
        BY <2>4 DEF Cuts
    <3>3. \A c \in Sure \ {proc[p].batch} : intent[c].seq < proc[p].seq
        BY <1>0, <3>1, <3>2 DEF AheadInv, Carrying
    <3> QED
        BY <1>a, <3>1, <3>2, <3>3
  <2>5. CASE Wrote(p)
    <3>1. CASE proc'[p].pc = "idle"
        BY <1>2, <3>1 DEF Carrying
    <3>2. CASE proc'[p].pc # "idle"
      <4>1. /\ proc'[p].pc = "written" /\ proc'[p].seq = proc[p].seq /\ proc'[p].batch = proc[p].batch
            /\ Fence(p) /\ proc[p].pc \in Carrying
          BY <1>5, <2>5, <3>2 DEF Wrote, Fence, Carrying
      <4>2. \A c \in Sure \ {proc[p].batch} : intent[c].seq < proc[p].seq
          BY <1>0, <4>1 DEF AheadInv
      <4>3. \A c \in Sure' : c \in Sure \/ c = proc[p].batch
          BY <2>5, SureWrote
      <4> QED
          BY <1>a, <4>1, <4>2, <4>3
    <3> QED
        BY <3>1, <3>2
  <2>6. CASE Moves(p)
    <3>1. Fence(p) /\ Sure' \subseteq Sure
        BY <2>6, SureStays DEF Moves, Calm
    <3>2. PICK b \in Batch : Marks(p, b) \/ Commits(p, b) \/ Settles(p, b)
        BY <2>6 DEF Moves
    <3>3. CASE Marks(p, b)
      <4>1. /\ proc[p].pc = "written" /\ proc'[p].pc = "appended"
            /\ proc'[p].seq = proc[p].seq /\ proc'[p].batch = proc[p].batch
          BY <3>3 DEF Marks
      <4>2. \A c \in Sure \ {proc[p].batch} : intent[c].seq < proc[p].seq
          BY <1>0, <3>1, <4>1 DEF AheadInv, Carrying
      <4> QED
          BY <1>a, <3>1, <4>1, <4>2
    <3>4. CASE Commits(p, b) \/ Settles(p, b)
        BY <1>2, <3>4 DEF Commits, Settles, Same, Carrying
    <3> QED
        BY <3>2, <3>3, <3>4
  <2> QED
      BY <1>5, <2>1, <2>2, <2>3, <2>4, <2>5, <2>6 DEF Step
<1>6. ASSUME NEW q \in Process, Fence(q)' PROVE Ahead(q)'
    BY <1>3, <1>4, <1>5, <1>6
<1> QED
    BY <1>6 DEF AheadInv

LEMMA ApartStep ==
    ASSUME Known, Types', Aside \/ \E p \in Process : Step(p)
    PROVE  ApartInv'
<1>0. /\ ApartInv /\ AheadInv /\ CarryInv /\ FileInv /\ log \in Seq(Item)
      /\ intent \in [Batch -> Intent] /\ proc \in [Process -> Proc]
    BY DEF Known, LogInv, Types
<1>a. \A c \in Sure : c \in Batch /\ intent'[c].seq = intent[c].seq
    BY SureIsKnown, IntentsStay DEF Known
<1>1. CASE Sure' \subseteq Sure
    BY <1>0, <1>1, <1>a DEF ApartInv
<1>2. ASSUME NEW p \in Process, Wrote(p), ~(Sure' \subseteq Sure) PROVE ApartInv'
  <2>1. \A c \in Sure' : c \in Sure \/ c = proc[p].batch
      BY <1>2, SureWrote
  <2>2. Fence(p) /\ proc[p].pc \in Carrying /\ intent' = intent
      BY <1>2, SureWrote DEF Wrote, Carrying
  <2>3. intent[proc[p].batch].seq = proc[p].seq
      BY <1>0, <2>2 DEF CarryInv
  <2>4. \A c \in Sure : c # proc[p].batch => intent[c].seq < intent[proc[p].batch].seq
      BY <1>0, <2>2, <2>3 DEF AheadInv
  <2>5. \A c \in Sure : intent[c].seq \in Nat
      BY <1>0, <1>a DEF Intent
  <2>6. proc[p].seq \in Nat
      BY <1>0 DEF Proc
  <2>7. \A c \in Sure : c # proc[p].batch => intent[c].seq # intent[proc[p].batch].seq
      BY <2>3, <2>4, <2>5, <2>6
  <2> QED
      BY <1>0, <2>1, <2>2, <2>7 DEF ApartInv
<1>3. ASSUME NEW p \in Process, Reads(p) PROVE ApartInv'
  <2>1. Readable(log) /\ \A b \in WholeBatches(log) : intent[b].state # "none" => WithBytes(b, log)
      BY <1>3 DEF Reads, Verdict
  <2>2. ~Debris(log)
      BY <1>0, <2>1, ReadableEnds
  <2>3. \A c \in Sure' : c \in Sure \/ c \in WholeBatches(log)
      BY <1>3, SureReads
  <2>4. \A c \in Sure' : c \in Batch /\ WithBytes(c, log)
    <3>1. \A c \in Sure' : c \in Batch
        BY DEF Sure
    <3> QED
        BY <1>0, <2>1, <2>2, <2>3, <3>1, SureBytes DEF FileInv
  <2>5. \A c \in Sure' : log[intent[c].seq].id = c
      BY <1>0, <2>1, <2>4, ReadableBytes
  <2>6. intent' = intent
      BY <1>3 DEF Reads
  <2> QED
      BY <2>5, <2>6 DEF ApartInv
<1> QED
    BY <1>1, <1>2, <1>3, SureStays DEF Step, Calm

\* One who passes the gate while his cache cannot be read is behind nothing.
LEMMA GateBehind ==
    ASSUME Known, NEW p \in Process, Writable(p), Current(p), ~Readable(cache[p].log)
    PROVE  Behind(p)
<1>0. log \in Seq(Item) /\ OrderInv
    BY DEF Known, LogInv, Types
<1>1. CASE Verdict = "healthy"
  <2>1. Readable(log)
      BY <1>1 DEF Verdict
  <2>2. Repaired(log) = log
      BY <1>0, <2>1, ReadableEnds DEF Repaired
  <2> QED
      BY <2>1, <2>2 DEF Current
<1>2. CASE Verdict # "healthy"
  <2>1. InState({"prepared", "appended", "aborted"}) = {}
      BY <1>2 DEF Writable
  <2>2. \A b \in Batch : ~Stuck(b)
      BY <2>1 DEF InState, Stuck
  <2> QED
      BY <1>0, <2>2 DEF OrderInv
<1> QED
    BY <1>1, <1>2

\* A batch that was not written under the lease, or not where it was meant, is stuck.
LEMMA WroteStuck ==
    ASSUME Known, NEW p \in Process, Wrote(p), ~(Fence(p) /\ proc[p].at = proc[p].seq)
    PROVE  \E b \in Batch : Stuck(b)'
<1>0. CarryInv /\ FileInv /\ proc[p].batch \in Batch
    BY WroteEffect DEF Known, LogInv
<1> PICK b \in Batch : b = proc[p].batch
    BY <1>0
<1>1. /\ b \notin WholeBatches(log) /\ intent[b].state \in {"prepared", "aborted"}
      /\ \A q \in Process : q # p /\ proc[q].pc \in Carrying => proc[q].batch # b
    BY <1>0 DEF CarryInv, Wrote, Carrying
<1>2. \A q \in Process : ~Vouches(q, b)
    BY <1>0, <1>1, BytesWhole DEF Vouches, FileInv, Wrote, Carrying
<1>3. b \notin Sure
    BY <1>1, <1>2 DEF Sure
<1>4. b \notin Sure'
    BY <1>3, SureWrote
<1>5. \A q \in Process : Fence(q)' => Fence(q)
    BY DEF Wrote, NoGain, Fence
<1>6. \A q \in Process : Fence(q)' /\ proc'[q].pc \in Carrying => proc'[q].batch # b
    BY <1>1, <1>5 DEF Wrote, OthersSame, Same, Carrying
<1> QED
    BY <1>0, <1>1, <1>4, <1>6 DEF Stuck, Wrote

LEMMA OrderStep ==
    ASSUME Known, Types', Aside \/ \E p \in Process : Step(p)
    PROVE  OrderInv'
<1>0. /\ OrderInv /\ AheadInv /\ CarryInv /\ log \in Seq(Item) /\ log' \in Seq(Item)
      /\ intent \in [Batch -> Intent] /\ proc \in [Process -> Proc]
    BY DEF Known, LogInv, Types
<1>a. \A c \in Sure : c \in Batch /\ intent'[c].seq = intent[c].seq
    BY SureIsKnown, IntentsStay DEF Known
<1> DEFINE Holds(q) == \/ Behind(q)
                       \/ proc[q].pc \notin {"gated", "bound"} /\ \E b \in Batch : Stuck(b)
<1>1. ASSUME NEW q \in Process, Behind(q), Sure' \subseteq Sure, cache'[q] = cache[q] PROVE Holds(q)'
    BY <1>1, <1>a DEF Behind
<1>2. ASSUME NEW q \in Process, cache'[q] = cache[q], Current(q)', ~Readable(cache'[q].log),
             Aside \/ \E p \in Process : Calm(p),
             proc'[q].pc \in {"gated", "bound"} => proc[q].pc \in {"gated", "bound"} \/ Behind(q)
      PROVE  Holds(q)'
  <2>1. Sure' \subseteq Sure
      BY <1>2, SureStays
  <2>2. CASE Behind(q)
      BY <1>1, <1>2, <2>1, <2>2
  <2>3. CASE ~Behind(q)
    <3>1. Current(q)
        BY <1>2, CurrentWas DEF Calm, Step
    <3>2. PICK b \in Batch : Stuck(b)
        BY <1>0, <1>2, <2>3, <3>1 DEF OrderInv
    <3>3. proc[q].pc \notin {"gated", "bound"}
        BY <1>0, <1>2, <2>3, <3>1 DEF OrderInv
    <3>4. Stuck(b)'
        BY <1>2, <3>2, StuckStays
    <3> QED
        BY <1>2, <2>3, <3>3, <3>4
  <2> QED
      BY <2>2, <2>3
<1>3. ASSUME NEW q \in Process, Current(q)', ~Readable(cache'[q].log), Aside PROVE Holds(q)'
  <2>1. cache'[q] = cache[q]
      BY <1>3 DEF Aside, Same, Drops, Current
  <2>2. proc'[q].pc \in {"gated", "bound"} => proc[q].pc \in {"gated", "bound"}
      BY <1>3 DEF Aside, Same, Drops
  <2> QED
      BY <1>2, <1>3, <2>1, <2>2
<1>4. ASSUME NEW p \in Process, Calm(p), NEW q \in Process, Current(q)', ~Readable(cache'[q].log)
      PROVE  Holds(q)'
  <2>1. cache'[q] = cache[q]
    <3>1. ~Scans(p) => \A r \in Process : cache'[r] = cache[r]
        BY <1>4 DEF Calm, Gains, Passes, Prepares, Cuts, Moves, OthersSame, Same
    <3>2. Scans(p) => \A r \in Process : r # p => cache'[r] = cache[r]
        BY <1>4 DEF Scans, OthersSame, Same
    <3>3. Scans(p) /\ q = p => cache'[q] = cache[q]
        BY <1>4, ScanEffect DEF Scans, Known
    <3> QED
        BY <3>1, <3>2, <3>3
  <2>2. proc'[q].pc \in {"gated", "bound"} => proc[q].pc \in {"gated", "bound"} \/ Behind(q)
    <3>1. CASE q # p
        BY <1>4, <3>1 DEF Calm, Gains, Passes, Scans, Prepares, Cuts, Moves, OthersSame, Same
    <3>2. CASE q = p /\ ~Passes(p)
        BY <1>4, <3>2 DEF Calm, Gains, Scans, Prepares, Cuts, Moves, Marks, Commits, Settles, Same
    <3>3. CASE q = p /\ Passes(p)
      <4>1. Current(q)
          BY <1>4, <2>1, CurrentWas DEF Calm, Step
      <4> QED
          BY <1>4, <2>1, <3>3, <4>1, GateBehind DEF Passes
    <3> QED
        BY <3>1, <3>2, <3>3
  <2> QED
      BY <1>2, <1>4, <2>1, <2>2
<1>5. ASSUME NEW p \in Process, Wrote(p), NEW q \in Process, Current(q)', ~Readable(cache'[q].log)
      PROVE  Holds(q)'
  <2>1. q = p
      BY <1>5, CurrentWas DEF Step, Wrote, OthersSame, Same
  <2>2. CASE ~(Fence(p) /\ proc[p].at = proc[p].seq)
    <3>1. \E b \in Batch : Stuck(b)'
        BY <1>5, <2>2, WroteStuck
    <3>2. proc'[p].pc \in {"written", "idle"}
        BY <1>5 DEF Wrote
    <3> QED
        BY <2>1, <3>1, <3>2
  <2>3. CASE Fence(p) /\ proc[p].at = proc[p].seq
    <3>1. \A c \in Sure' : c \in Sure \/ c = proc[p].batch
        BY <1>5, SureWrote
    <3>2. /\ proc[p].pc \in Carrying /\ intent' = intent /\ cache'[p].next = proc[p].at + 1
        BY <1>5 DEF Wrote, Carrying
    <3>3. /\ intent[proc[p].batch].seq = proc[p].seq
          /\ \A c \in Sure \ {proc[p].batch} : intent[c].seq < proc[p].seq
        BY <1>0, <2>3, <3>2 DEF CarryInv, AheadInv
    <3>4. proc[p].seq \in Nat /\ \A c \in Sure : intent[c].seq \in Nat
        BY <1>0, <1>a DEF Proc, Intent
    <3>5. \A c \in Sure' : intent'[c].seq < cache'[p].next
        BY <2>3, <3>1, <3>2, <3>3, <3>4
    <3> QED
        BY <2>1, <3>5 DEF Behind
  <2> QED
      BY <2>2, <2>3
<1>6. ASSUME NEW p \in Process, Reads(p), NEW q \in Process, Current(q)', ~Readable(cache'[q].log)
      PROVE  FALSE
  <2>1. Readable(log) /\ log' = log
      BY <1>6 DEF Reads, Verdict
  <2>2. Repaired(log) = log
      BY <1>0, <2>1, ReadableEnds DEF Repaired
  <2> QED
      BY <1>6, <2>1, <2>2 DEF Current
<1>7. ASSUME NEW q \in Process, Current(q)', ~Readable(cache'[q].log) PROVE Holds(q)'
    BY <1>3, <1>4, <1>5, <1>6, <1>7 DEF Step, Calm
<1> QED
    BY <1>7 DEF OrderInv

LEMMA NewestStep ==
    ASSUME Known, Types', FenceInv, SettledWithRun, Aside \/ \E p \in Process : Step(p)
    PROVE  NewestInv'
<1>0. /\ NewestInv /\ AheadInv /\ intent \in [Batch -> Intent] /\ proc \in [Process -> Proc]
    BY DEF Known, LogInv, Types
<1>a. \A b \in Batch : intent[b].state # "none" =>
          intent'[b].seq = intent[b].seq /\ intent'[b].run = intent[b].run
    BY IntentsStay DEF Known
<1> DEFINE Open(b) == intent[b].state \in {"prepared", "appended"} /\ intent[b].run # NoRun
           Done(b) == intent[b].state = "committed" /\ intent[b].run # NoRun
           First == \A q \in Process : Fence(q) /\ proc[q].run # NoRun /\ proc[q].pc \in {"bound", "sized"}
                        => \A b \in Batch : ~(intent[b].state \in {"prepared", "appended"} /\ intent[b].run = proc[q].run)
           Single == \A b, c \in Batch : Open(b) /\ Open(c) => b = c
           Last == \A b, c \in Batch : Open(b) /\ Done(c) => intent[c].seq < intent[b].seq
<1>b. NewestInv <=> First /\ Single /\ Last
    BY DEF NewestInv, Unsettled, InState
<1>c. NewestInv' <=> First' /\ Single' /\ Last'
    BY DEF NewestInv, Unsettled, InState
<1>d. First /\ Single /\ Last
    BY <1>0, <1>b
<1>1. ASSUME UNCHANGED intent, First' PROVE NewestInv'
    BY <1>c, <1>d, <1>1
<1>2. CASE Aside
  <2>1. First'
      BY <1>d, <1>2 DEF Aside, NoGain, Same, Drops
  <2> QED
      BY <1>1, <1>2, <2>1 DEF Aside
<1>3. ASSUME NEW p \in Process, Gains(p) PROVE NewestInv'
  <2>1. First'
      BY <1>3 DEF Gains, Fence
  <2> QED
      BY <1>1, <1>3, <2>1 DEF Gains
<1>4. ASSUME NEW p \in Process, Passes(p) PROVE NewestInv'
  <2>1. InState({"prepared", "appended"}) = {}
      BY <1>4 DEF Passes, Writable, Verdict, InState
  <2>2. First'
      BY <1>4, <2>1 DEF Passes, InState
  <2> QED
      BY <1>1, <1>4, <2>2 DEF Passes
<1>5. ASSUME NEW p \in Process, Scans(p) \/ Cuts(p) \/ Wrote(p) \/ Reads(p) PROVE NewestInv'
  <2>1. /\ UNCHANGED intent /\ OthersSame(p)
        /\ \A q \in Process : Fence(q)' => Fence(q)
        /\ proc'[p].pc \in {"bound", "sized"} => proc[p].pc = "bound" /\ proc'[p].run = proc[p].run
      BY <1>5 DEF Scans, Cuts, Wrote, Reads, NoGain, Fence
  <2>2. First'
      BY <1>d, <2>1 DEF OthersSame, Same
  <2> QED
      BY <1>1, <2>1, <2>2
<1>6. ASSUME NEW p \in Process, Prepares(p) PROVE NewestInv'
  <2>1. /\ Unused \in Batch /\ intent[Unused].state = "none"
        /\ intent'[Unused].state = "prepared" /\ intent'[Unused].run = proc[p].run
        /\ intent'[Unused].seq = proc[p].seq /\ \A c \in Batch : c # Unused => intent'[c] = intent[c]
      BY <1>0, <1>6 DEF Prepares
  <2>2. OthersSame(p) /\ Fence(p) /\ UNCHANGED lease /\ proc[p].pc = "sized" /\ proc'[p].pc = "prepared"
      BY <1>6 DEF Prepares
  <2>3. First'
      BY <2>2 DEF Fence, OthersSame
  <2>4. ASSUME proc[p].run # NoRun, NEW b \in Batch PROVE ~Open(b)
    <3>1. proc[p].run = run.id
        BY <2>2, <2>4 DEF FenceInv
    <3>2. Open(b) => intent[b].run = run.id
        BY DEF SettledWithRun, InState
    <3> QED
        BY <1>d, <2>2, <2>4, <3>1, <3>2
  <2>5. Single'
      BY <1>d, <2>1, <2>4
  <2>6. \A c \in Batch : Done(c) => c \in Sure
      BY DEF Sure
  <2>7. \A c \in Batch : Done(c) => intent[c].seq < proc[p].seq
      BY <1>0, <2>2, <2>6 DEF AheadInv
  <2>8. Last'
      BY <1>d, <2>1, <2>7
  <2> QED
      BY <1>c, <2>3, <2>5, <2>8
<1>7. ASSUME NEW p \in Process, Moves(p) PROVE NewestInv'
  <2>1. PICK b \in Batch : /\ \A c \in Batch : c # b => intent'[c] = intent[c]
                           /\ intent'[b].run = intent[b].run /\ intent'[b].seq = intent[b].seq
                           /\ Marks(p, b) \/ Commits(p, b) \/ Settles(p, b)
      BY <1>7 DEF Moves
  <2>2. OthersSame(p) /\ Fence(p) /\ NoGain
      BY <1>7 DEF Moves
  <2>3. First'
    <3>1. \A q \in Process : Fence(q)' => q = p
        BY <2>2 DEF NoGain, Fence
    <3>2. proc'[p].pc \notin {"bound", "sized"}
        BY <2>1 DEF Marks, Commits, Settles, Same
    <3> QED
        BY <3>1, <3>2
  <2>4. intent[b].state \in {"prepared", "appended"}
      BY <2>1, <2>2 DEF Marks, Commits, Settles, Known, LogInv, CarryInv, Carrying
  <2>5. \A c \in Batch : Open(c)' => Open(c)
      BY <2>1, <2>4
  <2>6. \A c \in Batch : Done(c)' => Done(c) \/ (c = b /\ Open(b))
      BY <2>1, <2>4
  <2>7. Single'
      BY <1>d, <2>5
  <2>8. Last'
    <3>1. ASSUME NEW d \in Batch, NEW c \in Batch, Open(d)', Done(c)' PROVE intent'[c].seq < intent'[d].seq
      <4>1. Open(d) /\ intent'[d].seq = intent[d].seq /\ intent'[c].seq = intent[c].seq
          BY <2>1, <2>5, <3>1
      <4>2. Done(c)
        <5>1. c = b /\ Open(b) => c = d
            BY <1>d, <4>1
        <5>2. c = d => FALSE
            BY <3>1
        <5> QED
            BY <2>6, <3>1, <5>1, <5>2
      <4> QED
          BY <1>d, <4>1, <4>2
    <3> QED
        BY <3>1
  <2> QED
      BY <1>c, <2>3, <2>7, <2>8
<1> QED
    BY <1>2, <1>3, <1>4, <1>5, <1>6, <1>7 DEF Step

\* One who has kept the lease, since he looked, writes where the file ends.
LEMMA EndIsNext ==
    ASSUME Known, ~late, NEW p \in Process, Fence(p), proc[p].pc = "placed",
           \A j \in 1 .. Len(log) : log[j].kind = "batch"
    PROVE  proc[p].at = Len(log) + 1
<1>0. TidyInv /\ CacheInv /\ log \in Seq(Item)
    BY DEF Known, LogInv, Types
<1>1. Fresh(p) /\ proc[p].at = cache[p].next
    BY <1>0 DEF TidyInv
<1>2. \A i \in 1 .. Len(log) : log[i].seq = i
  <2>1. ASSUME NEW i \in 1 .. Len(log) PROVE log[i].seq = i
    <3>1. \A j \in 1 .. i - 1 : j \in 1 .. Len(log)
        BY <1>0
    <3> QED
        BY <1>0, <3>1 DEF TidyInv
  <2> QED
      BY <2>1
<1>3. Readable(log)
    BY <1>2 DEF Readable
<1>4. Ends(log) = Len(log)
  <2>1. Len(log) \in Nat /\ Len(log) <= Len(log)
      BY <1>0
  <2>2. \A i \in 1 .. Len(log) : log[i].kind = "batch" <=> i <= Len(log)
      OBVIOUS
  <2> QED
      BY <1>0, <2>1, <2>2, SetOf
<1> QED
    BY <1>0, <1>1, <1>3, <1>4 DEF Fresh, CacheInv

LEMMA TidyStep ==
    ASSUME Known, Types', Aside \/ \E p \in Process : Step(p), ~late'
    PROVE  /\ \A i \in 1 .. Len(log') : (\A j \in 1 .. i - 1 : log'[j].kind = "batch") => log'[i].seq = i
           /\ \A i \in 1 .. Len(log') : log'[i].kind = "batch" =>
                 intent'[log'[i].id].state # "aborted" /\ intent'[log'[i].id].seq = log'[i].seq
           /\ \A p \in Process : Fence(p)' =>
                 /\ proc'[p].pc \in {"sized", "prepared", "placed"} => Fresh(p)' /\ proc'[p].seq = cache'[p].next
                 /\ proc'[p].pc \in {"placed", "writing"} => proc'[p].at = proc'[p].seq
                 /\ proc'[p].pc = "settling" => WholeBatches(log') \subseteq proc'[p].bytes
<1>0. /\ TidyInv /\ CarryInv /\ FileInv /\ EvidenceInv /\ CacheInv /\ log \in Seq(Item) /\ log' \in Seq(Item)
      /\ intent \in [Batch -> Intent] /\ proc \in [Process -> Proc] /\ cache \in [Process -> Cache]
    BY DEF Known, LogInv, Types
<1>a. ~late
    BY ScanEffect DEF Step, Aside, Gains, Passes, Scans, Prepares, Cuts, Wrote, Moves, Reads, Known
<1>b. /\ \A i \in 1 .. Len(log) : (\A j \in 1 .. i - 1 : log[j].kind = "batch") => log[i].seq = i
      /\ \A i \in 1 .. Len(log) : log[i].kind = "batch" =>
            intent[log[i].id].state # "aborted" /\ intent[log[i].id].seq = log[i].seq
    BY <1>0, <1>a DEF TidyInv
<1>c. \A i \in 1 .. Len(log) : log[i].kind = "batch" =>
          log[i].id \in Batch /\ log[i].id \in WholeBatches(log) /\ intent[log[i].id].state # "none"
  <2>1. \A i \in 1 .. Len(log) : log[i].id \in Batch
      BY <1>0, KindIs DEF Item
  <2> QED
      BY <1>0, <2>1 DEF FileInv, WholeBatches
<1>d. ASSUME NEW p \in Process, Cuts(p) \/ Wrote(p) PROVE Fence(p)
    BY <1>d DEF Cuts, Wrote
<1>e. ASSUME NEW p \in Process, Scans(p)
      PROVE  Len(log') <= Len(log) /\ \A i \in 1 .. Len(log') : i \in 1 .. Len(log) /\ log'[i] = log[i]
  <2>1. CASE log' = log
      BY <1>0, <2>1
  <2>2. CASE log' = Repaired(log)
    <3>1. PICK r \in Seq(Item) : /\ r = Repaired(log) /\ Len(r) <= Len(log)
                                 /\ \A i \in 1 .. Len(r) : r[i] = log[i]
        BY <1>0, RepairedIs
    <3>2. Len(r) \in Nat /\ Len(log) \in Nat
        BY <1>0
    <3> QED
        BY <2>2, <3>1, <3>2
  <2> QED
      BY <1>e, <2>1, <2>2, ScanEffect DEF Scans, Known
<1>1. \A i \in 1 .. Len(log') : (\A j \in 1 .. i - 1 : log'[j].kind = "batch") => log'[i].seq = i
  <2> SUFFICES ASSUME NEW i \in 1 .. Len(log'), \A j \in 1 .. i - 1 : log'[j].kind = "batch"
               PROVE  log'[i].seq = i
      OBVIOUS
  <2>1. ASSUME i \in 1 .. Len(log), log'[i].seq = log[i].seq,
               \A j \in 1 .. i - 1 : log'[j] = log[j]
        PROVE  log'[i].seq = i
      BY <1>b, <2>1
  <2>2. CASE log' = log
      BY <2>1, <2>2
  <2>3. ASSUME NEW p \in Process, Scans(p) PROVE log'[i].seq = i
    <3>1. \A j \in 1 .. i - 1 : j \in 1 .. Len(log')
        BY <1>0
    <3> QED
        BY <1>e, <2>1, <2>3, <3>1
  <2>4. ASSUME NEW p \in Process, Cuts(p) PROVE log'[i].seq = i
    <3>1. /\ Len(log') = Len(log) + 1 /\ log'[Len(log) + 1].seq = proc[p].at
          /\ \A j \in 1 .. Len(log) : log'[j] = log[j]
        BY <2>4, CutsEffect DEF Known
    <3>2. CASE i \in 1 .. Len(log)
      <4>1. \A j \in 1 .. i - 1 : j \in 1 .. Len(log)
          BY <1>0, <3>2
      <4> QED
          BY <2>1, <3>1, <3>2, <4>1
    <3>3. CASE i \notin 1 .. Len(log)
      <4>1. i = Len(log) + 1
          BY <1>0, <3>1, <3>3
      <4>2. \A j \in 1 .. Len(log) : log[j].kind = "batch"
        <5>1. \A j \in 1 .. Len(log) : j \in 1 .. i - 1
            BY <1>0, <4>1
        <5> QED
            BY <3>1, <5>1
      <4>3. Fence(p) /\ proc[p].pc = "placed"
          BY <1>d, <2>4 DEF Cuts
      <4>4. proc[p].at = Len(log) + 1
          BY <1>a, <4>2, <4>3, EndIsNext
      <4> QED
          BY <3>1, <4>1, <4>4
    <3> QED
        BY <3>2, <3>3
  <2>5. ASSUME NEW p \in Process, Wrote(p) PROVE log'[i].seq = i
    <3>0. Len(log) \in Nat /\ Len(log') \in Nat /\ i \in Nat
        BY <1>0
    <3>1. /\ Len(log') \in 1 .. Len(log') /\ Len(log) <= Len(log')
          /\ \A j \in 1 .. Len(log') : j # Len(log') => j \in 1 .. Len(log) /\ log'[j] = log[j]
          /\ log'[Len(log')].seq = proc[p].at
          /\ \/ log'[Len(log')].kind = "batch"
             \/ log'[Len(log')].kind = "debris" /\ ~Halved(p) /\ proc[p].pc = "writing"
          /\ \/ Len(log') = Len(log) + 1 /\ (log'[Len(log')].kind = "batch" => proc[p].pc = "placed")
             \/ Len(log') = Len(log) /\ log[Len(log)].seq = proc[p].at
        BY <2>5, WroteEffect DEF Known
    <3>2. Fence(p)
        BY <1>d, <2>5
    <3>3. \A j \in 1 .. i - 1 : log'[j] = log[j]
      <4>1. \A j \in 1 .. i - 1 : j \in 1 .. Len(log') /\ j # Len(log')
          BY <3>0
      <4> QED
          BY <3>1, <4>1
    <3>4. CASE i # Len(log')
        BY <2>1, <3>1, <3>3, <3>4
    <3>5. CASE i = Len(log') /\ Len(log') = Len(log)
        BY <2>1, <3>1, <3>3, <3>5
    <3>6. CASE i = Len(log') /\ Len(log') = Len(log) + 1
      <4>1. proc[p].pc = "placed"
        <5>1. ~(~Halved(p) /\ proc[p].pc = "writing")
            BY <1>0, <1>a, <3>2 DEF EvidenceInv, Halved
        <5> QED
            BY <3>0, <3>1, <3>6, <5>1
      <4>2. \A j \in 1 .. Len(log) : log[j].kind = "batch"
        <5>1. \A j \in 1 .. Len(log) : j \in 1 .. i - 1
            BY <3>0, <3>6
        <5> QED
            BY <3>3, <5>1
      <4>3. proc[p].at = Len(log) + 1
          BY <1>a, <3>2, <4>1, <4>2, EndIsNext
      <4> QED
          BY <3>1, <3>6, <4>3
    <3> QED
        BY <3>1, <3>4, <3>5, <3>6
  <2> QED
      BY <2>2, <2>3, <2>4, <2>5 DEF Step, Aside, Gains, Passes, Prepares, Moves, Reads
<1>2. ASSUME NEW i \in 1 .. Len(log'), log'[i].kind = "batch"
      PROVE  intent'[log'[i].id].state # "aborted" /\ intent'[log'[i].id].seq = log'[i].seq
  <2>1. CASE i \in 1 .. Len(log) /\ log'[i] = log[i]
    <3>1. PICK b \in Batch : b = log[i].id
        BY <1>2, <1>c, <2>1
    <3>2. /\ intent[b].state \notin {"none", "aborted"} /\ intent[b].seq = log'[i].seq
          /\ b \in WholeBatches(log)
        BY <1>2, <1>b, <1>c, <2>1, <3>1
    <3>3. intent'[b].seq = intent[b].seq
        BY <3>2, IntentsStay DEF Known
    <3>4. intent'[b].state # "aborted"
      <4>1. ASSUME NEW p \in Process, Moves(p) PROVE intent'[b].state # "aborted"
        <5>1. PICK c \in Batch : /\ \A d \in Batch : d # c => intent'[d] = intent[d]
                                 /\ Marks(p, c) \/ Commits(p, c) \/ Settles(p, c)
            BY <4>1 DEF Moves
        <5>2. WholeBatches(log) \subseteq proc[p].bytes \/ proc[p].pc # "settling"
            BY <1>0, <1>a, <4>1 DEF TidyInv, Moves
        <5> QED
            BY <3>2, <5>1, <5>2 DEF Marks, Commits, Settles
      <4>2. ASSUME NEW p \in Process, Prepares(p) PROVE intent'[b].state # "aborted"
          BY <1>0, <3>2, <4>2 DEF Prepares
      <4> QED
          BY <3>2, <4>1, <4>2 DEF Step, Aside, Gains, Passes, Scans, Cuts, Wrote, Reads
    <3> QED
        BY <2>1, <3>1, <3>2, <3>3, <3>4
  <2>2. CASE ~(i \in 1 .. Len(log) /\ log'[i] = log[i])
    <3>1. log' # log /\ \A p \in Process : ~Scans(p)
        BY <1>e, <2>2
    <3>2. \A p \in Process : ~Cuts(p)
      <4>1. ASSUME NEW p \in Process, Cuts(p) PROVE FALSE
        <5>1. /\ Len(log') = Len(log) + 1 /\ log'[Len(log) + 1].kind \in {"part", "torn"}
              /\ \A j \in 1 .. Len(log) : log'[j] = log[j]
            BY <4>1, CutsEffect DEF Known
        <5>2. i \in 1 .. Len(log) \/ i = Len(log) + 1
            BY <1>0, <5>1
        <5> QED
            BY <1>2, <2>2, <5>1, <5>2
      <4> QED
          BY <4>1
    <3>3. PICK p \in Process : Wrote(p)
        BY <3>1, <3>2 DEF Step, Aside, Gains, Passes, Prepares, Moves, Reads
    <3>4. /\ \A j \in 1 .. Len(log') : j # Len(log') => j \in 1 .. Len(log) /\ log'[j] = log[j]
          /\ log'[Len(log')].id = proc[p].batch /\ log'[Len(log')].seq = proc[p].at
        BY <3>3, WroteEffect DEF Known
    <3>5. i = Len(log')
        BY <2>2, <3>4
    <3>6. Fence(p) /\ intent' = intent /\ proc[p].pc \in {"placed", "writing"}
        BY <1>d, <3>3 DEF Wrote
    <3>7. proc[p].at = proc[p].seq
        BY <1>0, <1>a, <3>6 DEF TidyInv
    <3>8. intent[proc[p].batch].seq = proc[p].seq /\ intent[proc[p].batch].state = "prepared"
        BY <1>0, <3>6 DEF CarryInv, Carrying
    <3> QED
        BY <3>4, <3>5, <3>6, <3>7, <3>8
  <2> QED
      BY <2>1, <2>2
<1> DEFINE Tidy(q) == /\ proc[q].pc \in {"sized", "prepared", "placed"} => Fresh(q) /\ proc[q].seq = cache[q].next
                      /\ proc[q].pc \in {"placed", "writing"} => proc[q].at = proc[q].seq
                      /\ proc[q].pc = "settling" => WholeBatches(log) \subseteq proc[q].bytes
<1>3. ASSUME NEW q \in Process, Fence(q) PROVE Tidy(q)
    BY <1>0, <1>3, <1>a DEF TidyInv
<1>4. ASSUME NEW q \in Process, Fence(q), Same(q), log' = log PROVE Tidy(q)'
    BY <1>3, <1>4 DEF Same, Fresh
<1>5. ASSUME NEW q \in Process, proc'[q].pc \notin {"sized", "prepared", "placed", "writing", "settling"}
      PROVE  Tidy(q)'
    BY <1>5
<1>6. ASSUME NEW q \in Process, Fence(q)', Aside PROVE Tidy(q)'
    BY <1>4, <1>5, <1>6 DEF Aside, NoGain, Drops
<1>7. ASSUME NEW p \in Process, Step(p), NEW q \in Process, q # p, Fence(q)' PROVE Tidy(q)'
  <2>1. Same(q) /\ Fence(q) /\ ~Fence(p)
      BY <1>7, SureForOthers DEF Fence
  <2>2. log' = log
    <3>1. ~Cuts(p) /\ ~Wrote(p)
        BY <1>d, <2>1
    <3>2. Scans(p) => log' = log
        BY <1>0, <2>1, ScanEffect, RepairedIs DEF Scans, Known
    <3> QED
        BY <1>7, <3>1, <3>2 DEF Step, Gains, Passes, Prepares, Moves, Reads
  <2> QED
      BY <1>4, <2>1, <2>2
<1>8. ASSUME NEW p \in Process, Step(p), Fence(p)' PROVE Tidy(p)'
  <2>1. CASE Gains(p) \/ Passes(p) \/ Wrote(p)
      BY <1>5, <2>1 DEF Gains, Passes, Wrote
  <2>2. CASE Scans(p)
    <3>1. Fence(p)
        BY <1>8, <2>2 DEF Scans, Fence
    <3>2. CASE Fresh(p)
      <4>1. UNCHANGED <<log, cache>> /\ NextSeq(p) = cache[p].next
          BY <2>2, <3>2, ScanEffect DEF Scans, Known
      <4>2. Fresh(p)'
          BY <3>2, <4>1 DEF Fresh
      <4> QED
          BY <1>3, <2>2, <3>1, <4>1, <4>2 DEF Scans
    <3>3. CASE ~Fresh(p)
      <4>1. proc[p].pc = "bound"
          BY <1>3, <2>2, <3>1, <3>3 DEF Scans
      <4>2. proc'[p].pc = "sized" /\ proc'[p].seq = NextSeq(p)
          BY <2>2, <4>1 DEF Scans
      <4>3. cache'[p].log = log' /\ cache'[p].next = NextSeq(p) /\ NextSeq(p) = Ends(log') + 1
          BY <2>2, <3>3, ScanEffect DEF Scans, Known
      <4>4. cache'[p] # NoCache
        <5>1. Ends(log') \in Nat
            BY <1>0, EndsType
        <5>2. cache'[p].next # 0
            BY <4>3, <5>1
        <5> QED
            BY <5>2 DEF NoCache
      <4>5. Fresh(p)'
          BY <4>3, <4>4 DEF Fresh
      <4> QED
          BY <4>2, <4>3, <4>5
    <3> QED
        BY <3>2, <3>3
  <2>3. CASE Prepares(p)
    <3>1. /\ Fence(p) /\ proc[p].pc = "sized" /\ proc'[p].pc = "prepared" /\ proc'[p].seq = proc[p].seq
          /\ UNCHANGED <<log, cache>>
        BY <2>3 DEF Prepares
    <3>2. Fresh(p)' /\ proc'[p].seq = cache'[p].next
        BY <1>3, <3>1 DEF Fresh
    <3> QED
        BY <3>1, <3>2
  <2>4. CASE Cuts(p)
      BY <1>3, <1>d, <2>4 DEF Cuts
  <2>5. CASE Moves(p)
    <3>1. PICK b \in Batch : Marks(p, b) \/ Commits(p, b) \/ Settles(p, b)
        BY <2>5 DEF Moves
    <3>2. CASE Marks(p, b) \/ Commits(p, b)
        BY <1>5, <3>2 DEF Marks, Commits
    <3>3. CASE Settles(p, b)
        BY <1>4, <2>5, <3>3 DEF Settles, Moves
    <3> QED
        BY <3>1, <3>2, <3>3
  <2>6. CASE Reads(p)
      BY <2>6 DEF Reads
  <2> QED
      BY <1>8, <2>1, <2>2, <2>3, <2>4, <2>5, <2>6 DEF Step
<1>9. ASSUME NEW q \in Process, Fence(q)' PROVE Tidy(q)'
    BY <1>6, <1>7, <1>8, <1>9
<1> QED
    BY <1>1, <1>2, <1>9

-----------------------------------------------------------------------------
LEMMA InitLog == Init => LogInv
<1> SUFFICES ASSUME Init PROVE LogInv
    OBVIOUS
<1>1. /\ log = <<>> /\ \A b \in Batch : intent[b].state = "none"
      /\ \A p \in Process : proc[p] = Rest /\ cache[p] = NoCache /\ ~Fence(p)
    BY StoreAssumption DEF Init, Fence
<1>2. \A p \in Process : proc[p].pc = "idle" /\ proc[p].pc \notin Carrying
    BY <1>1 DEF Rest, Carrying
<1>3. Sure = {} /\ WholeBatches(log) = {} /\ ~Debris(log)
    BY <1>1 DEF Sure, WholeBatches, Debris
<1>4. CarryInv /\ FileInv
    BY <1>1, <1>2, <1>3 DEF CarryInv, FileInv
<1>5. EvidenceInv
    BY <1>1, <1>2, <1>3 DEF EvidenceInv
<1>6. CacheInv
    BY <1>1 DEF CacheInv, Follows, NoCache, TornTail
<1>7. OrderInv
    BY <1>1 DEF OrderInv, Current
<1>8. AheadInv /\ ApartInv
    BY <1>1, <1>3 DEF AheadInv, ApartInv
<1>9. NewestInv
    BY <1>1 DEF NewestInv, InState
<1>10. TidyInv
    BY <1>1 DEF TidyInv
<1> QED
    BY <1>4, <1>5, <1>6, <1>7, <1>8, <1>9, <1>10 DEF LogInv

LEMMA InvStep == Inv /\ [Next]_vars => Inv'
<1> SUFFICES ASSUME Inv, [Next]_vars PROVE Inv'
    OBVIOUS
<1>1. IInv /\ LogInv
    BY DEF Inv
<1>2. IInv'
  <2>1. TypeOK /\ AppendInv /\ Rests
      BY <1>1 DEF IInv, Rests
  <2>2. TypeOK' /\ Rests'
      BY <2>1, TypeStep, RestsStep
  <2> QED
      BY <2>2 DEF IInv, Rests
<1>3. Known /\ FenceInv /\ SettledWithRun
    BY <1>1, TypesHold DEF Known, IInv
<1>4. Types'
    BY <1>2, TypesHold, PTL
<1>5. Aside \/ \E p \in Process : Step(p)
    BY <1>1, Kinds
<1>6. CarryInv' /\ FileInv' /\ EvidenceInv' /\ CacheInv'
    BY <1>3, <1>4, <1>5, CarryStep, FileStep, EvidenceStep, CacheStep
<1>7. OrderInv' /\ AheadInv' /\ ApartInv' /\ NewestInv'
    BY <1>3, <1>4, <1>5, OrderStep, AheadStep, ApartStep, NewestStep
<1>8. TidyInv'
    BY <1>3, <1>4, <1>5, TidyStep DEF TidyInv
<1> QED
    BY <1>2, <1>6, <1>7, <1>8 DEF Inv, LogInv

\* The invariant of the file and the caches holds in every reachable state.
THEOREM LogInvariance == Spec => []Inv
<1>1. Init => Inv
    BY InitInv, InitLog DEF Inv
<1> QED
    BY <1>1, InvStep, PTL DEF Spec

LEMMA EvidenceHas == Inv => CommittedHasBytes
<1> SUFFICES ASSUME Inv PROVE CommittedHasBytes
    OBVIOUS
<1>1. EvidenceInv
    BY DEF Inv, LogInv
<1>2. \A b \in InState({"appended", "committed"}) : WithBytes(b, log) \/ Debris(log)
    BY <1>1 DEF EvidenceInv, InState
<1> QED
    BY <1>1, <1>2 DEF CommittedHasBytes, EvidenceInv

\* What the database says was appended or committed is in the file, whole and at its
\* place, unless one who had lost the lease wrote and a write was cut in two.
THEOREM BytesAreThere == Spec => []CommittedHasBytes
    BY EvidenceHas, LogInvariance, PTL

LEMMA SureApart == Inv => CommittedApart
    BY DEF Inv, LogInv, ApartInv, CommittedApart, InState, Sure

\* No two committed batches claim the same place in the transcript, whoever wrote
\* without the lease.
THEOREM PlacesApart == Spec => []CommittedApart
    BY SureApart, LogInvariance, PTL

\* As long as only holders of the lease have written, and no write is cut in two, the
\* store can be read and repaired: damage has no other cause.
THEOREM DamageOnly == Spec => []UnreadableOnlyByDamage
<1>1. ASSUME Inv, ~late, ~Cut PROVE Verdict \notin {"corrupt", "blocked", "inconsistent"}
  <2>0. /\ TidyInv /\ FileInv /\ EvidenceInv /\ log \in Seq(Item) /\ intent \in [Batch -> Intent]
      BY <1>1, TypesHold DEF Inv, LogInv, Types
  <2>1. \A i \in 1 .. Len(log) : log[i].kind = "batch"
      BY <1>1 DEF Cut
  <2>2. \A i \in 1 .. Len(log) : log[i].seq = i
    <3>1. ASSUME NEW i \in 1 .. Len(log) PROVE \A j \in 1 .. i - 1 : j \in 1 .. Len(log)
        BY <2>0
    <3> QED
        BY <1>1, <2>0, <2>1, <3>1 DEF TidyInv
  <2>3. Readable(log)
      BY <2>1, <2>2 DEF Readable
  <2>4. ASSUME NEW b \in WholeBatches(log) PROVE WithBytes(b, log) /\ intent[b].state \notin {"none", "aborted"}
    <3>1. PICK i \in 1 .. Len(log) : log[i].id = b /\ log[i].kind = "batch"
        BY <2>4 DEF WholeBatches
    <3>2. intent[b].state # "aborted" /\ intent[b].seq = log[i].seq
        BY <1>1, <2>0, <3>1 DEF TidyInv
    <3>3. log[i] \in Item
        BY <2>0, ElementOfSeq
    <3>4. log[i] = [kind |-> "batch", id |-> b, seq |-> intent[b].seq]
        BY <3>1, <3>2, <3>3 DEF Item
    <3>5. intent[b].state # "none"
        BY <2>0, <2>4 DEF FileInv
    <3> QED
        BY <3>2, <3>4, <3>5 DEF WithBytes
  <2>5. WholeBatches(log) \cap InState({"none", "aborted"}) = {}
      BY <2>4 DEF InState
  <2>6. InState({"appended", "committed"}) \subseteq WholeBatches(log)
    <3>1. ASSUME NEW b \in InState({"appended", "committed"}) PROVE b \in WholeBatches(log)
      <4>1. b \in Batch /\ WithBytes(b, log)
          BY <1>1, <2>0, <3>1 DEF EvidenceInv, InState
      <4> QED
          BY <4>1, BytesWhole
    <3> QED
        BY <3>1
  <2> QED
      BY <2>3, <2>4, <2>5, <2>6 DEF Verdict
<1>2. Inv => UnreadableOnlyByDamage
    BY <1>1 DEF UnreadableOnlyByDamage
<1> QED
    BY <1>2, LogInvariance, PTL

-----------------------------------------------------------------------------
(* The event store implements the transcript. *)

\* A batch of a run is committed after every batch of a run that was committed before,
\* in the order of the file: no recovery puts an orphan's events before what has been
\* read, and no late owner does.
AtTheEnd ==
    \A b \in Batch : intent[b].state # "committed" /\ intent'[b].state = "committed" /\ intent[b].run # NoRun
        => \A c \in InState({"committed"}) : intent[c].run # NoRun => intent[c].seq < intent[b].seq

LEMMA EndStep == Inv /\ [Next]_vars => AtTheEnd
<1> SUFFICES ASSUME Inv, [Next]_vars,
                    NEW b \in Batch, intent[b].state # "committed", intent'[b].state = "committed",
                    intent[b].run # NoRun
             PROVE  \A c \in InState({"committed"}) : intent[c].run # NoRun => intent[c].seq < intent[b].seq
    BY DEF AtTheEnd
<1>0. NewestInv /\ CarryInv /\ Known
    BY TypesHold DEF Inv, LogInv, Known
<1>1. intent[b].state \in {"prepared", "appended"}
  <2>1. Aside \/ \E p \in Process : Step(p)
      BY Kinds DEF Inv
  <2>2. intent'[b] # intent[b]
      OBVIOUS
  <2>3. ~Aside /\ \A p \in Process : ~Gains(p) /\ ~Passes(p) /\ ~Scans(p) /\ ~Cuts(p) /\ ~Wrote(p) /\ ~Reads(p)
      BY <2>2 DEF Aside, Gains, Passes, Scans, Cuts, Wrote, Reads
  <2>4. \A p \in Process : ~Prepares(p)
      BY <1>0 DEF Prepares, Known, Types
  <2>5. PICK p \in Process : Moves(p)
      BY <2>1, <2>3, <2>4 DEF Step
  <2>6. Marks(p, b) \/ Commits(p, b) \/ Settles(p, b)
      BY <2>2, <2>5 DEF Moves
  <2> QED
      BY <1>0, <2>5, <2>6 DEF Marks, Commits, Settles, Moves, CarryInv, Carrying
<1> QED
    BY <1>0, <1>1 DEF NewestInv, InState

\* The order of the commits, as a property of every step.
THEOREM CommitsInOrder == Spec => [][AtTheEnd]_vars
<1>1. Inv /\ [Next]_vars => [AtTheEnd]_vars
    BY EndStep
<1> QED
    BY <1>1, LogInvariance, PTL DEF Spec

\* A run begins when none is open, and is closed when nothing of it is pending.
LEMMA RunMoves ==
    ASSUME IInv, [Next]_vars, run' # run
    PROVE  /\ UNCHANGED <<log, intent, late>>
           /\ \/ ~run.open /\ run' = [id |-> run.id + 1, open |-> TRUE]
              \/ run.open /\ run.id # NoRun /\ run' = [run EXCEPT !.open = FALSE]
<1>1. PICK p \in Process : Admit(p) \/ Finish(p) \/ Converge(p)
  <2>1. ~UNCHANGED run
      OBVIOUS
  <2> QED
      BY <2>1 DEF vars, Next, Appends, Recovers, Gate, Reserve, NextSequence, Prepare, Position, Write, WriteRest,
         Mark, CommitEventIntent, WritePart, Close, LoseLease, AcquireRecovery, BeginRecovery, Reconcile,
         Settle, FailRecovery, Renew, Crash, TransactionFails, RetryDue, Expire
<1>2. CASE Admit(p)
    BY <1>2 DEF Admit
<1>3. CASE Finish(p)
    BY <1>3 DEF Finish, Executing, FenceInv, AppendInv, IInv
<1>4. CASE Converge(p)
    BY <1>4 DEF Converge, AppendInv, IInv
<1> QED
    BY <1>1, <1>2, <1>3, <1>4

\* What readers see follows the intents and the file.
LEMMA ToldIs ==
    ASSUME intent \in [Batch -> Intent]
    PROVE  /\ DOMAIN Told = Batch
           /\ \A b \in Batch : /\ Told[b].run = intent[b].run /\ Told[b].seq = intent[b].seq
                               /\ Told[b].state = "none" <=> intent[b].state = "none"
                               /\ Told[b].state = "pending" <=> intent[b].state \in {"prepared", "appended"}
                               /\ Told[b].state = "committed" <=> intent[b].state = "committed"
                               /\ Told[b].state = "aborted" <=> intent[b].state = "aborted"
    BY DEF Told, Intent

LEMMA ToldUnchanged == ASSUME UNCHANGED intent PROVE Told' = Told
    BY DEF Told

\* The file holds what is committed, and nothing of what is aborted, unless somebody
\* wrote who had lost the lease.
Faithful == late \/ /\ \A b \in Batch : intent[b].state = "committed" => b \in Stored
                    /\ \A b \in Batch : intent[b].state = "aborted" => b \notin Stored
LEMMA StoredIs == Inv => Faithful
<1> SUFFICES ASSUME Inv PROVE Faithful
    OBVIOUS
<1>1. CommittedHasBytes /\ TidyInv
    BY EvidenceHas DEF Inv, LogInv
<1>2. \A b \in Batch : intent[b].state = "committed" /\ ~late => b \in Stored
    BY <1>1 DEF CommittedHasBytes, InState, Stored
<1>3. ASSUME NEW b \in Stored, intent[b].state = "aborted" PROVE late
  <2>1. PICK i \in 1 .. Len(log) : log[i] = [kind |-> "batch", id |-> b, seq |-> intent[b].seq]
      BY <1>3 DEF Stored, WithBytes
  <2> QED
      BY <1>1, <1>3, <2>1 DEF TidyInv
<1> QED
    BY <1>2, <1>3 DEF Faithful

\* A step that leaves the intents and the run alone is one of the file, or none.
LEMMA StepStores ==
    ASSUME Inv, Inv', UNCHANGED <<intent, run>>, late => late'
    PROVE  Reader!Next
<1>1. intent \in [Batch -> Intent] /\ intent' \in [Batch -> Intent]
    BY DEF Inv, IInv, TypeOK
<1>2. Told' = Told /\ Stored' \subseteq Batch
    BY ToldUnchanged DEF Stored
<1>3. Faithful'
    BY StoredIs, PTL
<1>4. Reader!Store
    BY <1>1, <1>2, <1>3, ToldIs DEF Faithful, Reader!Store, Reader!Of
<1> QED
    BY <1>4 DEF Reader!Next

LEMMA RunReads ==
    ASSUME Inv, Inv', [Next]_vars, run' # run
    PROVE  Reader!Next
<1>1. /\ UNCHANGED <<log, intent, late>>
      /\ \/ ~run.open /\ run' = [id |-> run.id + 1, open |-> TRUE]
         \/ run.open /\ run.id # NoRun /\ run' = [run EXCEPT !.open = FALSE]
    BY RunMoves DEF Inv
<1>2. Told' = Told /\ Stored' = Stored
    BY <1>1 DEF Told, Stored, WithBytes
<1>3. CASE ~run.open /\ run' = [id |-> run.id + 1, open |-> TRUE]
    BY <1>1, <1>2, <1>3 DEF Reader!Next, Reader!Begin
<1>4. CASE run.open /\ run.id # NoRun /\ run' = [run EXCEPT !.open = FALSE]
  <2>1. intent \in [Batch -> Intent] /\ run'.open = FALSE /\ SettledWithRun'
      BY <1>4 DEF Inv, IInv, TypeOK
  <2>2. \A b \in Batch : intent[b].state \in {"prepared", "appended"} => intent[b].run = NoRun
      BY <1>1, <2>1 DEF SettledWithRun, InState
  <2>3. Reader!Close
      BY <1>1, <1>2, <1>4, <2>1, <2>2, ToldIs DEF Reader!Close, Reader!Of
  <2> QED
      BY <2>3 DEF Reader!Next
<1> QED
    BY <1>1, <1>3, <1>4

LEMMA PreparesAnnounces ==
    ASSUME Inv, Inv', NEW p \in Process, Prepares(p), UNCHANGED run
    PROVE  Reader!Next
<1>1. PICK b \in Batch :
      /\ intent[b].state = "none" /\ UNCHANGED <<log, late>> /\ Fence(p)
      /\ intent' = [intent EXCEPT ![b] = [state |-> "prepared", run |-> proc[p].run, seq |-> proc[p].seq]]
    BY DEF Prepares
<1>2. intent \in [Batch -> Intent] /\ intent' \in [Batch -> Intent]
    BY DEF Inv, IInv, TypeOK
<1>3. Told' = [Told EXCEPT ![b] = Told'[b]]
    BY <1>1, <1>2 DEF Told
<1>4. Stored' = Stored
  <2>1. b \notin WholeBatches(log)
      BY <1>1 DEF Inv, LogInv, FileInv
  <2>2. \A i \in 1 .. Len(log) : ~(log[i].kind = "batch" /\ log[i].id = b)
      BY <2>1 DEF WholeBatches
  <2>3. \A n : \A i \in 1 .. Len(log) : log[i] # [kind |-> "batch", id |-> b, seq |-> n]
      BY <2>2
  <2>4. ~WithBytes(b, log) /\ ~WithBytes(b, log)'
      BY <1>1, <2>3 DEF WithBytes
  <2>5. \A c \in Batch : c # b => (WithBytes(c, log)' <=> WithBytes(c, log))
      BY <1>1, <1>2 DEF WithBytes
  <2> QED
      BY <2>4, <2>5 DEF Stored
<1>5. ASSUME proc[p].run # NoRun
      PROVE  /\ run.open /\ proc[p].run = run.id
             /\ \A c \in Batch : intent[c].state \in {"prepared", "appended"} => intent[c].run = NoRun
             /\ \A c \in Batch : intent[c].state = "committed" /\ intent[c].run # NoRun
                                    => intent[c].seq < intent'[b].seq
  <2>1. FenceInv /\ NewestInv'
      BY DEF Inv, IInv, LogInv
  <2>2. intent'[b].state = "prepared" /\ intent'[b].run # NoRun /\ \A c \in Batch : c # b => intent'[c] = intent[c]
      BY <1>1, <1>2, <1>5
  <2>3. \A c \in Batch : intent[c].state # "none" => c # b
      BY <1>1
  <2> QED
      BY <1>1, <1>5, <2>1, <2>2, <2>3 DEF FenceInv, NewestInv, InState
<1>6. /\ Told[b].state = "none" /\ Told'[b].state = "pending"
      /\ Told'[b].run = proc[p].run /\ Told'[b].seq = intent'[b].seq
    BY <1>1, <1>2 DEF Told
<1>7. Reader!Announce(b)
    BY <1>1, <1>2, <1>3, <1>4, <1>5, <1>6, ToldIs
       DEF Reader!Announce, Reader!Of, Reader!ByRun, Reader!BeyondRuns
<1> QED
    BY <1>1, <1>7 DEF Reader!Next

\* An intent that is marked stays pending; one that is committed or aborted is resolved.
LEMMA MovesResolves ==
    ASSUME Inv, Inv', [Next]_vars, NEW p \in Process, Moves(p), UNCHANGED run
    PROVE  Reader!Next \/ UNCHANGED Reader!vars
<1>1. PICK b \in Batch :
      /\ \A c \in Batch : c # b => intent'[c] = intent[c]
      /\ intent'[b].run = intent[b].run /\ intent'[b].seq = intent[b].seq
      /\ Marks(p, b) \/ Commits(p, b) \/ Settles(p, b)
    BY DEF Moves
<1>2. /\ UNCHANGED <<log, late>> /\ Fence(p) /\ CarryInv
      /\ intent \in [Batch -> Intent] /\ intent' \in [Batch -> Intent]
    BY DEF Moves, Inv, IInv, LogInv, TypeOK
<1>3. Stored' = Stored
  <2>1. \A c \in Batch : intent'[c].seq = intent[c].seq
      BY <1>1
  <2> QED
      BY <1>2, <2>1 DEF Stored, WithBytes
<1>4. intent[b].state \in {"prepared", "appended"} /\ intent'[b].state \in {"appended", "committed", "aborted"}
    BY <1>1, <1>2 DEF Marks, Commits, Settles, CarryInv, Carrying
<1>5. /\ Told[b].state = "pending" /\ Told[b].run = intent[b].run /\ Told[b].seq = intent[b].seq
      /\ intent'[b].state \in {"committed", "aborted"} => Told' = [Told EXCEPT ![b].state = intent'[b].state]
      /\ intent'[b].state = "appended" => Told' = Told
  <2> DEFINE T == [state : {"none", "pending", "committed", "aborted"}, run : {NoRun} \cup Run, seq : Nat]
  <2>1. Told \in [Batch -> T] /\ Told' \in [Batch -> T]
      BY <1>2 DEF Told, Intent
  <2>2. Told[b].state = "pending" /\ Told[b].run = intent[b].run /\ Told[b].seq = intent[b].seq
      BY <1>4 DEF Told
  <2>3. \A c \in Batch : c # b => Told'[c] = Told[c]
      BY <1>1 DEF Told
  <2>4. /\ Told'[b].run = intent[b].run /\ Told'[b].seq = intent[b].seq
        /\ Told'[b].state = IF intent'[b].state = "appended" THEN "pending" ELSE intent'[b].state
      BY <1>1, <1>4 DEF Told
  <2> QED
      BY <1>4, <2>1, <2>2, <2>3, <2>4
<1>6. CASE intent'[b].state = "appended"
    BY <1>2, <1>3, <1>5, <1>6 DEF Reader!vars
<1>7. CASE intent'[b].state = "committed"
  <2>0. Faithful'
      BY StoredIs, PTL
  <2>1. b \in Stored \/ late
      BY <1>2, <1>3, <1>7, <2>0 DEF Faithful
  <2>2. \A c \in Batch : intent[c].state = "committed" => intent[c].seq # intent[b].seq
    <3>1. CommittedApart'
        BY SureApart, PTL
    <3>2. \A c \in Batch : intent[c].state = "committed" => c # b /\ intent'[c] = intent[c]
        BY <1>1, <1>4
    <3> QED
        BY <1>1, <1>7, <3>1, <3>2 DEF CommittedApart, InState
  <2>3. intent[b].run # NoRun => \A c \in Batch : intent[c].state = "committed" /\ intent[c].run # NoRun
                                                    => intent[c].seq < intent[b].seq
      BY <1>4, <1>7, EndStep DEF AtTheEnd, InState
  <2>4. Reader!Commit(b)
      BY <1>2, <1>3, <1>5, <1>7, <2>1, <2>2, <2>3, ToldIs
         DEF Reader!Commit, Reader!Resolve, Reader!Of, Reader!ByRun, Reader!BeyondRuns
  <2> QED
      BY <2>4 DEF Reader!Next
<1>8. CASE intent'[b].state = "aborted"
  <2>1. Faithful'
      BY StoredIs, PTL
  <2>2. b \notin Stored \/ late
      BY <1>2, <1>3, <1>8, <2>1 DEF Faithful
  <2>3. Reader!Abort(b)
      BY <1>2, <1>3, <1>5, <1>8, <2>2 DEF Reader!Abort, Reader!Resolve
  <2> QED
      BY <2>3 DEF Reader!Next
<1> QED
    BY <1>4, <1>6, <1>7, <1>8

LEMMA StepIsReaders == Inv /\ Inv' /\ [Next]_vars => [Reader!Next]_(Reader!vars)
<1> SUFFICES ASSUME Inv, Inv', [Next]_vars PROVE Reader!Next \/ UNCHANGED Reader!vars
    OBVIOUS
<1>1. CASE run' # run
    BY <1>1, RunReads
<1>2. CASE run' = run
  <2>1. Types
      BY TypesHold DEF Inv
  <2>2. CASE Aside
      BY <1>2, <2>2, StepStores DEF Aside
  <2>3. ASSUME NEW p \in Process, Gains(p) \/ Passes(p) \/ Scans(p) \/ Cuts(p) \/ Wrote(p) \/ Reads(p)
        PROVE  Reader!Next
    <3>1. UNCHANGED intent /\ (UNCHANGED late \/ late' = (late \/ ~Fence(p)) \/ Scan(p))
        BY <2>3 DEF Gains, Passes, Scans, Cuts, Wrote, Reads
    <3>2. Scan(p) => UNCHANGED late \/ late' = (late \/ (TornTail(log) /\ ~Fence(p)))
        BY DEF Scan
    <3>3. late => late'
        BY <3>1, <3>2, Zenon
    <3> QED
        BY <1>2, <3>1, <3>3, StepStores
  <2>4. ASSUME NEW p \in Process, Prepares(p) PROVE Reader!Next
      BY <1>2, <2>4, PreparesAnnounces
  <2>5. ASSUME NEW p \in Process, Moves(p) PROVE Reader!Next \/ UNCHANGED Reader!vars
      BY <1>2, <2>5, MovesResolves
  <2>6. Aside \/ \E p \in Process : Step(p)
      BY Kinds DEF Inv
  <2> QED
      BY <2>2, <2>3, <2>4, <2>5, <2>6 DEF Step
<1> QED
    BY <1>1, <1>2

\* Every behaviour of the event store, with its crashes, its late writers and its
\* recoveries, is one of the transcript.
THEOREM Refinement == Spec => ImplementsTranscript
<1>1. Init => Reader!Init
  <2> SUFFICES ASSUME Init PROVE Reader!Init
      OBVIOUS
  <2>1. Told = [b \in Batch |-> [state |-> "none", run |-> NoRun, seq |-> 0]]
      BY DEF Init, Told
  <2>2. Stored = {}
      BY DEF Init, Stored, WithBytes
  <2> QED
      BY <2>1, <2>2 DEF Init, Reader!Init
<1> QED
    BY <1>1, StepIsReaders, LogInvariance, PTL DEF Spec, ImplementsTranscript, Reader!Spec
=============================================================================
