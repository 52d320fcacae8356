---------------------------- MODULE DocumentProofs ----------------------------
(***************************************************************************)
(* What the components of MCDocuments promise of the source they read and  *)
(* of the variables they keep, for any files, writes, records and          *)
(* questionnaires: SourceSnapshot, QualityPolicy, DocumentInventory.       *)
(***************************************************************************)
EXTENDS SourceSnapshot, QualityPolicy, DocumentInventory, SequenceTheorems, FiniteSetTheorems, TLAPS

-----------------------------------------------------------------------------
(* SourceSnapshot.  The heart is StreamInv: as long as the open file has   *)
(* the modification time it was opened with, what has been read is the     *)
(* beginning of one content its file has had; a write in between changes   *)
(* that time for good, because every write is later than all before it.    *)

Entries == {"plain", "native"}
Phases  == {"called", "next", "reading", "checking", "converted", "bound", "done", "raised"}
Datas   == Seq(Nat)
Copies  == Seq([name : Files, data : Datas])
Streams == [file : Files \cup {"none"}, data : Datas, time : Nat, size : Nat, since : Nat, same : BOOLEAN]

\* The digest an entry makes of some copies, and what is kept of a call that ended.
DigestOf(e, c) == IF e = "plain" THEN [primary |-> c[1].data] ELSE [primary |-> c[1], companions |-> Tail(c)]

Ended == {[entry |-> e, digest |-> DigestOf(e, c), copies |-> c] : e \in Entries, c \in Copies \ {<<>>}}

Types ==
    /\ disk \in [Files -> [data : Datas, time : Nat]]
    /\ been \in [Files -> SUBSET Datas]
    /\ writes \in Nat
    /\ entry \in Entries
    /\ source \in Seq(Files) \ {<<>>}
    /\ phase \in Phases
    /\ stream \in Streams
    /\ buffer \in Datas
    /\ copies \in Copies
    /\ digests \in Seq(Ended)

\* What a file holds it has had, and no file is newer than the last write.
DiskInv ==
    \A f \in Files : disk[f].data \in been[f] /\ disk[f].time <= writes

\* What has been read of a file that has not been written since it was opened.
Faithful ==
    /\ stream.data \in been[stream.file]
    /\ Len(buffer) <= Len(stream.data)
    /\ \A i \in 1 .. Len(buffer) : buffer[i] = stream.data[i]

StreamInv ==
    phase \in {"reading", "checking"} =>
        /\ stream.file \in Files
        /\ stream.since <= writes
        /\ Len(buffer) <= MaxBytes
        /\ stream.time = stream.since => Faithful

CopyInv == CopiesAreOneState /\ CopiesAreBounded

Count == Len(digests)

\* Which calls have ended: the second is the router's, and a binding is accepted between two of the same digest.
CallInv ==
    /\ Count \in 0 .. 2
    /\ Count = 0 => phase \notin {"converted", "bound", "done"}
    /\ Count = 1 /\ phase # "converted" => entry = "native" /\ phase \notin {"bound", "done"}
    /\ Count = 2 => phase \in {"converted", "bound", "done"} /\ digests[2].entry = "native"
    /\ phase = "bound" => SameSource(digests[1], digests[2])

IInv == Types /\ DiskInv /\ StreamInv /\ CopyInv /\ CallInv

-----------------------------------------------------------------------------
(* The start.                                                              *)

\* The invariant holds at the start.
LEMMA InitInv == ASSUME SnapshotAssumption, SnapshotInit PROVE IInv
<1>1. <<0>> \in Datas /\ <<>> \in Datas
  BY DEF Datas
<1>2. disk \in [Files -> [data : Datas, time : Nat]] /\ been \in [Files -> SUBSET Datas]
  BY <1>1 DEF SnapshotInit
<1>3. Closed \in Streams
  BY <1>1 DEF Closed, Streams
<1>4. source \in Seq(Files) \ {<<>>} /\ writes \in Nat
  BY DEF SnapshotInit, SnapshotAssumption
<1>5. entry \in Entries /\ phase \in Phases /\ phase = "called"
  BY DEF SnapshotInit, Entries, Phases
<1>6. copies \in Copies /\ digests \in Seq(Ended)
  BY DEF SnapshotInit, Copies
<1>7. Types
  BY <1>1, <1>2, <1>3, <1>4, <1>5, <1>6 DEF SnapshotInit, Types
<1>8. DiskInv
  BY DEF SnapshotInit, DiskInv
<1>9. StreamInv /\ CallInv
  BY <1>5 DEF SnapshotInit, StreamInv, CallInv, Count
<1>10. CopyInv
  BY DEF SnapshotInit, CopyInv, CopiesAreOneState, CopiesAreBounded
<1> QED BY <1>7, <1>8, <1>9, <1>10 DEF IInv

-----------------------------------------------------------------------------
(* The call.                                                               *)

\* An error leaves the copies and the ended calls as they are.
LEMMA RaiseInv ==
    ASSUME SnapshotAssumption, IInv, phase \in {"called", "next", "reading", "checking"}, Raise,
           UNCHANGED <<theDisk, theCall>>
    PROVE  IInv'
<1> USE DEF IInv
<1>0. /\ phase' = "raised" /\ stream' = Closed
      /\ buffer' = buffer /\ copies' = copies /\ digests' = digests
      /\ disk' = disk /\ been' = been /\ writes' = writes /\ entry' = entry /\ source' = source
  BY DEF Raise, theDisk, theCall
<1>1. Closed \in Streams /\ "raised" \in Phases
  BY DEF Closed, Streams, Datas, Phases
<1>2. Types'
  BY <1>0, <1>1 DEF Types
<1>3. DiskInv' /\ StreamInv' /\ CopyInv'
  BY <1>0 DEF DiskInv, StreamInv, CopyInv, CopiesAreOneState, CopiesAreBounded
<1>4. CallInv'
  BY <1>0 DEF CallInv, Count
<1> QED BY <1>2, <1>3, <1>4

\* Resolving a source keeps the invariant.
LEMMA ResolveInv == ASSUME SnapshotAssumption, IInv, Resolve PROVE IInv'
<1> USE DEF IInv
<1>1. CASE Raise
  BY <1>1, RaiseInv DEF Resolve
<1>2. CASE ~Raise
  <2>0. /\ phase = "called" /\ phase' = "next" /\ stream' = stream
        /\ buffer' = buffer /\ copies' = copies /\ digests' = digests
        /\ disk' = disk /\ been' = been /\ writes' = writes /\ entry' = entry /\ source' = source
    BY <1>2 DEF Resolve, theDisk, theCall
  <2>1. Types'
    BY <2>0 DEF Types, Phases
  <2>2. DiskInv' /\ StreamInv' /\ CopyInv'
    BY <2>0 DEF DiskInv, StreamInv, CopyInv, CopiesAreOneState, CopiesAreBounded
  <2>3. CallInv'
    BY <2>0 DEF CallInv, Count
  <2> QED BY <2>1, <2>2, <2>3
<1> QED BY <1>1, <1>2

\* An opened file is read from its beginning; its content is one it has.
LEMMA OpenInv == ASSUME SnapshotAssumption, IInv, Open PROVE IInv'
<1> USE DEF IInv
<1>1. CASE Raise
  BY <1>1, RaiseInv DEF Open
<1>2. CASE ~Raise
  <2> DEFINE now == disk[Current]
  <2>0. /\ phase = "next" /\ phase' = "reading" /\ Len(copies) < Len(source)
        /\ stream' = [file |-> Current, data |-> now.data, time |-> now.time,
                      size |-> Len(now.data), since |-> now.time, same |-> TRUE]
        /\ buffer' = <<>> /\ copies' = copies /\ digests' = digests
        /\ disk' = disk /\ been' = been /\ writes' = writes /\ entry' = entry /\ source' = source
    BY <1>2 DEF Open, theDisk, theCall
  <2>1. Current \in Files
    BY <2>0 DEF Current, Types, Copies
  <2>2. now \in [data : Datas, time : Nat] /\ now.data \in been[Current] /\ now.time <= writes
    BY <2>1 DEF Types, DiskInv
  <2>3. stream' \in Streams
    BY <2>0, <2>1, <2>2 DEF Streams, Datas
  <2>4. <<>> \in Datas /\ "reading" \in Phases
    BY DEF Datas, Phases
  <2>5. Types'
    BY <2>0, <2>3, <2>4 DEF Types
  <2>6. StreamInv'
    BY <2>0, <2>1, <2>2 DEF StreamInv, Faithful, SnapshotAssumption, Datas
  <2>7. DiskInv' /\ CopyInv'
    BY <2>0 DEF DiskInv, CopyInv, CopiesAreOneState, CopiesAreBounded
  <2>8. CallInv'
    BY <2>0 DEF CallInv, Count
  <2> QED BY <2>5, <2>6, <2>7, <2>8
<1> QED BY <1>1, <1>2

\* A read takes over what the open file holds there now.
LEMMA ReadInv == ASSUME SnapshotAssumption, IInv, Read PROVE IInv'
<1> USE DEF IInv
<1>0. /\ phase = "reading"
      /\ disk' = disk /\ been' = been /\ writes' = writes /\ entry' = entry /\ source' = source
  BY DEF Read, theDisk, theCall
<1>1. CASE Raise
  BY <1>0, <1>1, RaiseInv DEF theDisk, theCall
<1>2. CASE Len(buffer) < Len(stream.data) /\ ~Raise
  <2>0. /\ Len(buffer) + 1 <= MaxBytes
        /\ buffer' = Append(buffer, stream.data[Len(buffer) + 1])
        /\ phase' = phase /\ stream' = stream /\ copies' = copies /\ digests' = digests
    BY <1>2 DEF Read, Fits
  <2>1. buffer \in Seq(Nat) /\ stream.data \in Seq(Nat)
    BY DEF Types, Streams, Datas
  <2>2. stream.data[Len(buffer) + 1] \in Nat
    BY <1>2, <2>1
  <2>3. /\ buffer' \in Seq(Nat)
        /\ Len(buffer') = Len(buffer) + 1
        /\ buffer'[Len(buffer) + 1] = stream.data[Len(buffer) + 1]
        /\ \A i \in 1 .. Len(buffer) : buffer'[i] = buffer[i]
    BY <2>0, <2>1, <2>2
  <2>4. Types'
    BY <1>0, <2>0, <2>3 DEF Types, Datas
  <2>5. ASSUME Faithful PROVE Faithful'
    BY <1>0, <1>2, <2>0, <2>1, <2>3, <2>5 DEF Faithful
  <2>6. StreamInv'
    BY <1>0, <2>0, <2>3, <2>5 DEF StreamInv
  <2>7. DiskInv' /\ CopyInv'
    BY <1>0, <2>0 DEF DiskInv, CopyInv, CopiesAreOneState, CopiesAreBounded
  <2>8. CallInv'
    BY <1>0, <2>0 DEF CallInv, Count
  <2> QED BY <2>4, <2>6, <2>7, <2>8
<1>3. CASE ~(Len(buffer) < Len(stream.data)) /\ ~Raise
  <2>0. phase' = "checking" /\ stream' = stream /\ buffer' = buffer /\ copies' = copies /\ digests' = digests
    BY <1>3 DEF Read
  <2>1. Types'
    BY <1>0, <2>0 DEF Types, Phases
  <2>2. DiskInv' /\ StreamInv' /\ CopyInv'
    BY <1>0, <2>0 DEF DiskInv, StreamInv, Faithful, CopyInv, CopiesAreOneState, CopiesAreBounded
  <2>3. CallInv'
    BY <1>0, <2>0 DEF CallInv, Count
  <2> QED BY <2>1, <2>2, <2>3
<1> QED BY <1>1, <1>2, <1>3

\* A file that is as it was at the opening has been read as a whole.
LEMMA CheckInv == ASSUME SnapshotAssumption, IInv, Check PROVE IInv'
<1> USE DEF IInv
<1>1. CASE Raise
  BY <1>1, RaiseInv DEF Check
<1>2. CASE ~Raise
  <2>0. /\ phase = "checking" /\ phase' = "next" /\ stream' = Closed
        /\ stream.since = stream.time /\ Len(stream.data) = Len(buffer)
        /\ copies' = Append(copies, [name |-> stream.file, data |-> buffer])
        /\ buffer' = buffer /\ digests' = digests
        /\ disk' = disk /\ been' = been /\ writes' = writes /\ entry' = entry /\ source' = source
    BY <1>2 DEF Check, Unchanged, theDisk, theCall
  <2>1. /\ stream.file \in Files /\ Len(buffer) <= MaxBytes /\ Faithful
    BY <2>0 DEF StreamInv
  <2>2. buffer \in Seq(Nat) /\ stream.data \in Seq(Nat)
    BY DEF Types, Streams, Datas
  <2>3. buffer = stream.data
    BY <2>0, <2>1, <2>2, SeqEqual DEF Faithful
  <2>4. [name |-> stream.file, data |-> buffer] \in [name : Files, data : Datas]
    BY <2>1, <2>2 DEF Datas
  <2>5. copies \in Seq([name : Files, data : Datas])
    BY DEF Types, Copies
  <2>6. /\ copies' \in Copies
        /\ \A k \in DOMAIN copies' : \/ k \in DOMAIN copies /\ copies'[k] = copies[k]
                                     \/ copies'[k] = [name |-> stream.file, data |-> buffer]
    BY <2>0, <2>4, <2>5 DEF Copies
  <2>7. Closed \in Streams /\ "next" \in Phases
    BY DEF Closed, Streams, Datas, Phases
  <2>8. Types'
    BY <2>0, <2>6, <2>7 DEF Types
  <2>9. CopyInv'
    <3> SUFFICES ASSUME NEW k \in DOMAIN copies'
                 PROVE  copies'[k].data \in been[copies'[k].name] /\ Len(copies'[k].data) <= MaxBytes
      BY <2>0 DEF CopyInv, CopiesAreOneState, CopiesAreBounded
    <3>1. CASE k \in DOMAIN copies /\ copies'[k] = copies[k]
      BY <3>1 DEF CopyInv, CopiesAreOneState, CopiesAreBounded
    <3>2. CASE copies'[k] = [name |-> stream.file, data |-> buffer]
      BY <2>1, <2>3, <3>2 DEF Faithful
    <3> QED BY <2>6, <3>1, <3>2
  <2>10. DiskInv' /\ StreamInv'
    BY <2>0 DEF DiskInv, StreamInv
  <2>11. CallInv'
    BY <2>0 DEF CallInv, Count
  <2> QED BY <2>8, <2>9, <2>10, <2>11
<1> QED BY <1>1, <1>2

\* A conversion ends with the copies the checks accepted.
LEMMA ConvertInv == ASSUME SnapshotAssumption, IInv, Convert PROVE IInv'
<1> USE DEF IInv
<1>1. CASE Raise
  BY <1>1, RaiseInv DEF Convert
<1>2. CASE ~Raise
  <2> DEFINE call == [entry |-> entry, digest |-> DigestOf(entry, copies), copies |-> copies]
  <2>0. /\ phase = "next" /\ phase' = "converted" /\ Len(copies) = Len(source)
        /\ stream' = stream /\ buffer' = buffer /\ copies' = copies
        /\ disk' = disk /\ been' = been /\ writes' = writes /\ entry' = entry /\ source' = source
    BY <1>2 DEF Convert, theDisk, theCall
  <2>1. digests' = Append(digests, call)
    BY <1>2 DEF Convert, Digest, DigestOf
  <2>2. copies \in Copies \ {<<>>}
    BY <2>0 DEF Types, Copies
  <2>3. call \in Ended
    BY <2>2 DEF Ended, Types
  <2> HIDE DEF call
  <2>4. /\ digests \in Seq(Ended) /\ digests' \in Seq(Ended)
        /\ Len(digests') = Len(digests) + 1
        /\ digests'[Len(digests) + 1] = call
    BY <2>1, <2>3 DEF Types
  <2>5. Types'
    BY <2>0, <2>4 DEF Types, Phases
  <2>6. DiskInv' /\ StreamInv' /\ CopyInv'
    BY <2>0 DEF DiskInv, StreamInv, CopyInv, CopiesAreOneState, CopiesAreBounded
  <2>7. call.entry = entry
    BY DEF call
  <2>8. Count' = Count + 1 /\ digests'[Count + 1] = call
    BY <2>4 DEF Count
  <2>9. Count \in 0 .. 1 /\ (Count = 1 => entry = "native")
    BY <2>0 DEF CallInv
  <2>10. digests'[Count + 1].entry = entry
    BY <2>7, <2>8
  <2>11. CallInv'
    BY <2>0, <2>8, <2>9, <2>10 DEF CallInv
  <2> QED BY <2>5, <2>6, <2>11
<1> QED BY <1>1, <1>2

\* The router starts a conversion of its own.
LEMMA RouteAgainInv == ASSUME SnapshotAssumption, IInv, RouteAgain PROVE IInv'
<1> USE DEF IInv
<1>0. /\ phase = "converted" /\ phase' = "called" /\ Count = 1 /\ Count' = Count /\ entry' = "native"
      /\ source' \in Seq(Files) \ {<<>>} /\ copies' = <<>> /\ buffer' = <<>>
      /\ disk' = disk /\ been' = been /\ writes' = writes /\ stream' = stream /\ digests' = digests
  BY DEF RouteAgain, theDisk, SnapshotAssumption, Count
<1>1. <<>> \in Copies /\ <<>> \in Datas /\ "native" \in Entries /\ "called" \in Phases
  BY DEF Copies, Datas, Entries, Phases
<1>2. Types'
  BY <1>0, <1>1 DEF Types
<1>3. DiskInv' /\ StreamInv' /\ CopyInv'
  BY <1>0 DEF DiskInv, StreamInv, CopyInv, CopiesAreOneState, CopiesAreBounded
<1>4. CallInv'
  BY <1>0 DEF CallInv, SameSource
<1> QED BY <1>2, <1>3, <1>4

\* Comparing the bindings changes no copy.
LEMMA CompareInv == ASSUME SnapshotAssumption, IInv, Compare PROVE IInv'
<1> USE DEF IInv
<1>0. /\ phase = "converted" /\ phase' \in {"bound", "done"} /\ Count = 2 /\ Count' = Count
      /\ phase' = "bound" => SameSource(digests[1], digests[2])
      /\ disk' = disk /\ been' = been /\ writes' = writes /\ entry' = entry /\ source' = source
      /\ stream' = stream /\ buffer' = buffer /\ copies' = copies /\ digests' = digests
  BY DEF Compare, theDisk, theCall, Count
<1>1. Types'
  BY <1>0 DEF Types, Phases
<1>2. DiskInv' /\ StreamInv' /\ CopyInv'
  BY <1>0 DEF DiskInv, StreamInv, CopyInv, CopiesAreOneState, CopiesAreBounded
<1>3. CallInv'
  BY <1>0 DEF CallInv, SameSource
<1> QED BY <1>1, <1>2, <1>3

-----------------------------------------------------------------------------
(* The writer.                                                             *)

\* What a write leaves true, if the open file is either as it was or has got a later time.
LEMMA PutInv ==
    ASSUME SnapshotAssumption, IInv, NEW f \in Files, NEW new \in Datas, Put(f, new), stream' \in Streams,
           stream'.file = stream.file, stream'.since = stream.since,
           \/ stream'.time = stream.time /\ stream'.data = stream.data
           \/ stream'.time = writes + 1
    PROVE  IInv'
<1> USE DEF IInv
<1>0. /\ writes' = writes + 1
      /\ disk' = [disk EXCEPT ![f] = [data |-> new, time |-> writes + 1]]
      /\ been' = [been EXCEPT ![f] = @ \cup {new}]
      /\ entry' = entry /\ source' = source /\ phase' = phase /\ buffer' = buffer
      /\ copies' = copies /\ digests' = digests
  BY DEF Put, theCall
<1>1. writes \in Nat /\ writes' \in Nat
  BY <1>0 DEF Types
<1>2. /\ disk' \in [Files -> [data : Datas, time : Nat]]
      /\ been' \in [Files -> SUBSET Datas]
  BY <1>0, <1>1 DEF Types
<1>3. Types'
  BY <1>0, <1>1, <1>2 DEF Types
<1>4. \A g \in Files : been[g] \subseteq been'[g]
  BY <1>0 DEF Types
<1>5. DiskInv'
  <2> SUFFICES ASSUME NEW g \in Files PROVE disk'[g].data \in been'[g] /\ disk'[g].time <= writes'
    BY DEF DiskInv
  <2>1. CASE g = f
    BY <1>0, <1>1, <2>1 DEF Types
  <2>2. CASE g # f
    <3>1. disk'[g] = disk[g] /\ disk[g].time \in Nat
      BY <1>0, <2>2 DEF Types
    <3> QED BY <1>0, <1>1, <1>4, <3>1 DEF DiskInv
  <2> QED BY <2>1, <2>2
<1>6. StreamInv'
  <2> SUFFICES ASSUME phase \in {"reading", "checking"} PROVE StreamInv!2'
    BY <1>0 DEF StreamInv
  <2>1. /\ stream.file \in Files /\ stream.since <= writes /\ Len(buffer) <= MaxBytes
        /\ stream.time = stream.since => Faithful
    BY DEF StreamInv
  <2>2. stream.since \in Nat
    BY DEF Types, Streams
  <2>3. stream'.time = stream'.since => stream'.time = stream.time /\ stream'.data = stream.data
    BY <1>1, <2>1, <2>2
  <2>4. stream'.time = stream'.since => Faithful'
    BY <1>0, <1>4, <2>1, <2>3 DEF Faithful
  <2> QED BY <1>0, <1>1, <2>1, <2>2, <2>4
<1>7. CopyInv'
  <2> SUFFICES ASSUME NEW k \in DOMAIN copies
               PROVE  copies[k].data \in been'[copies[k].name] /\ Len(copies[k].data) <= MaxBytes
    BY <1>0 DEF CopyInv, CopiesAreOneState, CopiesAreBounded
  <2>1. copies[k].name \in Files
    <3>1. copies \in Seq([name : Files, data : Datas])
      BY DEF Types, Copies
    <3>2. k \in 1 .. Len(copies)
      BY <3>1
    <3>3. copies[k] \in [name : Files, data : Datas]
      BY <3>1, <3>2, ElementOfSeq
    <3> QED BY <3>3
  <2> QED BY <1>4, <2>1 DEF CopyInv, CopiesAreOneState, CopiesAreBounded
<1>8. CallInv'
  BY <1>0 DEF CallInv, Count
<1> QED BY <1>3, <1>5, <1>6, <1>7, <1>8

\* The writer's changes in place.
LEMMA WriteInv == ASSUME SnapshotAssumption, IInv, Write PROVE IInv'
<1>1. PICK f \in Files :
        \E new \in {Append(disk[f].data, writes + 1)}
                     \cup {[disk[f].data EXCEPT ![i] = writes + 1] : i \in DOMAIN disk[f].data}
                     \cup {Front(disk[f].data) : t \in {1} \cap DOMAIN disk[f].data} :
            Put(f, new) /\ stream' = Shown(f, new)
  BY DEF Write
<1> DEFINE data == disk[f].data
<1>2. PICK new : /\ \/ new = Append(data, writes + 1)
                    \/ \E i \in DOMAIN data : new = [data EXCEPT ![i] = writes + 1]
                    \/ 1 \in DOMAIN data /\ new = Front(data)
                 /\ Put(f, new) /\ stream' = Shown(f, new)
  BY <1>1
<1>3. data \in Seq(Nat) /\ writes + 1 \in Nat
  BY DEF IInv, Types, Datas
<1>4. new \in Seq(Nat)
  <2>1. CASE new = Append(data, writes + 1)
    BY <1>3, <2>1
  <2>2. CASE \E i \in DOMAIN data : new = [data EXCEPT ![i] = writes + 1]
    BY <1>3, <2>2, ExceptSeq
  <2>3. CASE 1 \in DOMAIN data /\ new = Front(data)
    BY <1>3, <2>3 DEF Front
  <2> QED BY <1>2, <2>1, <2>2, <2>3
<1>5. stream \in Streams
  BY DEF IInv, Types
<1>6. stream' = stream \/ stream' = [stream EXCEPT !.data = new, !.time = writes + 1]
  BY <1>2 DEF Shown
<1>7. /\ stream' \in Streams /\ stream'.file = stream.file /\ stream'.since = stream.since
      /\ stream' = stream \/ stream'.time = writes + 1
  BY <1>3, <1>4, <1>5, <1>6 DEF Streams, Datas
<1> QED BY <1>2, <1>4, <1>7, PutInv DEF Datas

\* The writer's replacement of a file.
LEMMA ReplaceInv == ASSUME SnapshotAssumption, IInv, Replace PROVE IInv'
<1>1. PICK f \in Files : /\ Put(f, <<writes + 1>>)
                         /\ stream' = stream \/ stream' = [stream EXCEPT !.same = FALSE]
  BY DEF Replace
<1>2. <<writes + 1>> \in Datas
  BY DEF IInv, Types, Datas
<1>3. stream \in Streams
  BY DEF IInv, Types
<1>4. /\ stream' \in Streams /\ stream'.file = stream.file /\ stream'.since = stream.since
      /\ stream'.time = stream.time /\ stream'.data = stream.data
  BY <1>1, <1>3 DEF Streams
<1> QED BY <1>1, <1>2, <1>4, PutInv

-----------------------------------------------------------------------------
(* The theorems.                                                           *)

\* The inductive invariant holds however the writer's steps fall between those of the calls.
THEOREM SnapshotInvariant == ASSUME SnapshotAssumption PROVE SnapshotSpec => []IInv
<1>1. SnapshotInit => IInv
  BY InitInv
<1>2. IInv /\ [SnapshotNext]_snapshotVars => IInv'
  <2> SUFFICES ASSUME IInv, [SnapshotNext]_snapshotVars PROVE IInv'
    OBVIOUS
  <2>1. CASE Call
    BY <2>1, ResolveInv, OpenInv, ReadInv, CheckInv, ConvertInv, RouteAgainInv, CompareInv DEF Call
  <2>2. CASE Write
    BY <2>2, WriteInv
  <2>3. CASE Replace
    BY <2>3, ReplaceInv
  <2>4. CASE UNCHANGED snapshotVars
    BY <2>4 DEF snapshotVars, IInv, Types, DiskInv, StreamInv, Faithful, CopyInv, CopiesAreOneState, CopiesAreBounded,
                CallInv, Count, SameSource
  <2> QED BY <2>1, <2>2, <2>3, <2>4 DEF SnapshotNext
<1> QED BY <1>1, <1>2, PTL DEF SnapshotSpec

\* Two ended calls with one digest, the later one the router's, copied the same files.
LEMMA SameDigest ==
    ASSUME NEW a \in Ended, NEW b \in Ended, b.entry = "native", SameSource(a, b)
    PROVE  a.copies = b.copies
<1>1. PICK c \in Copies \ {<<>>} : a = [entry |-> a.entry, digest |-> DigestOf(a.entry, c), copies |-> c]
  BY DEF Ended
<1>2. PICK d \in Copies \ {<<>>} : b = [entry |-> b.entry, digest |-> DigestOf(b.entry, d), copies |-> d]
  BY DEF Ended
<1>3. a.entry = "native" /\ a.digest = b.digest
  BY DEF SameSource
<1>4. /\ a.digest = [primary |-> c[1], companions |-> Tail(c)]
      /\ b.digest = [primary |-> d[1], companions |-> Tail(d)]
  BY <1>1, <1>2, <1>3 DEF DigestOf
<1>5. c[1] = d[1] /\ Tail(c) = Tail(d)
  <2>1. a.digest.primary = c[1] /\ a.digest.companions = Tail(c)
    BY <1>4
  <2>2. b.digest.primary = d[1] /\ b.digest.companions = Tail(d)
    BY <1>4
  <2> QED BY <1>3, <2>1, <2>2
<1>6. c = <<Head(c)>> \o Tail(c) /\ d = <<Head(d)>> \o Tail(d)
  BY HeadTailProperties DEF Copies
<1>7. Head(c) = Head(d)
  BY <1>5 DEF Copies
<1>8. c = d
  BY <1>5, <1>6, <1>7
<1> QED BY <1>1, <1>2, <1>8

\* sources/base.py and sources/registry.py: what is converted is a bounded state each file once had, whatever is
\* written meanwhile, and a binding the router accepts was made of the very files it converted.
THEOREM SnapshotIsTheSourceAlways == ASSUME SnapshotAssumption PROVE SnapshotSpec => []SnapshotIsTheSource
<1>1. IInv => SnapshotIsTheSource
  <2> SUFFICES ASSUME IInv PROVE SnapshotIsTheSource
    OBVIOUS
  <2>1. CopiesAreOneState /\ CopiesAreBounded
    BY DEF IInv, CopyInv
  <2>2. ASSUME phase = "bound" PROVE digests[1].copies = digests[2].copies
    <3>0. digests \in Seq(Ended) /\ SameSource(digests[1], digests[2])
      BY <2>2 DEF IInv, Types, CallInv
    <3>1. Count = 2 /\ digests[2].entry = "native"
      BY <2>2, <3>0 DEF IInv, CallInv
    <3>2. digests[1] \in Ended /\ digests[2] \in Ended
      BY <3>0, <3>1 DEF Count
    <3> QED BY <3>0, <3>1, <3>2, SameDigest
  <2> QED BY <2>1, <2>2 DEF BindingTellsTheFiles, SnapshotIsTheSource
<1> QED BY <1>1, SnapshotInvariant, PTL

-----------------------------------------------------------------------------
(* QualityPolicy.  Its three properties are inductive with the order of    *)
(* the records: the kept ones only grow, each is of a chunk not after the  *)
(* last record taken and cites blocks of that chunk, so that a later chunk *)
(* shares a block with it only by repeating it.                            *)

KeptRecords == [name : Names, question : Questions, chunk : Chunks, cites : SUBSET Chunks, review : BOOLEAN]

\* A kept record cites blocks of its chunk, and was taken no later than the last one.
KeptInOrder ==
    \A i \in DOMAIN kept :
        /\ kept[i].cites \subseteq BlocksOf(kept[i].chunk)
        /\ taken # <<>> /\ kept[i].chunk <= Last(taken).chunk

\* What is taken and kept are sequences in the order of the chunks, and the twins are marked at the end.
PolicyInv ==
    /\ taken \in Seq(Records) /\ kept \in Seq(KeptRecords)
    /\ KeptInOrder
    /\ QuestionsAreKept

\* Two chunks of which the later is j have a block in common only if it is one that j repeats.
LEMMA SharedIsRepeated ==
  ASSUME NEW i \in Nat, NEW j \in Nat, i < j
  PROVE  BlocksOf(i) \cap BlocksOf(j) \subseteq Overlap(j)
  BY DEF BlocksOf, Overlap

\* What is in a sequence stays at its place when one more is appended.
LEMMA Appended ==
  ASSUME NEW S, NEW s \in Seq(S), NEW x \in S
  PROVE  /\ Append(s, x) \in Seq(S)
         /\ DOMAIN Append(s, x) = DOMAIN s \cup {Len(s) + 1} /\ Len(s) + 1 \notin DOMAIN s
         /\ \A i \in DOMAIN s : Append(s, x)[i] = s[i] /\ i < Len(s) + 1
         /\ Append(s, x)[Len(s) + 1] = x
  OBVIOUS

\* Taking one more record of this chunk or a later one leaves the kept ones in order, and before it.
LEMMA StaysInOrder ==
  ASSUME KeptInOrder, taken \in Seq(Records), kept \in Seq(KeptRecords),
         NEW r \in Records, Follows(r), overlapping' = overlapping
  PROVE  /\ taken' # <<>> /\ Last(taken') = r
         /\ \A c : BlocksOf(c)' = BlocksOf(c)
         /\ \A i \in DOMAIN kept : kept[i].chunk <= r.chunk /\ kept[i].cites \subseteq BlocksOf(kept[i].chunk)
<1>1. taken' = Append(taken, r) /\ (taken # <<>> => r.chunk >= Last(taken).chunk)
  BY DEF Follows
<1>2. taken' # <<>> /\ Last(taken') = r
  BY <1>1 DEF Last
<1>3. ASSUME NEW i \in DOMAIN kept PROVE kept[i].chunk <= r.chunk
  <2>1. taken # <<>> /\ kept[i].chunk <= Last(taken).chunk
    BY <1>3 DEF KeptInOrder
  <2>2. taken[Len(taken)] \in Records
    BY <2>1
  <2>3. Last(taken).chunk \in Nat /\ r.chunk \in Nat /\ kept[i].chunk \in Nat
    <3>1. kept[i] \in KeptRecords /\ Last(taken) \in Records
      BY <1>3, <2>2 DEF Last
    <3> QED BY <3>1 DEF Records, KeptRecords, Chunks
  <2> QED BY <1>1, <2>1, <2>3
<1>4. \A c : BlocksOf(c)' = BlocksOf(c)
  BY DEF BlocksOf, Overlap
<1> QED BY <1>2, <1>3, <1>4 DEF KeptInOrder

\* No question has been processed at the start.
LEMMA InitPolicy == PolicyInit => PolicyInv
  BY DEF PolicyInit, PolicyInv, KeptInOrder, QuestionsAreKept, NoQuestionVanishes, BlocksCountOnce, TwinsReviewed

\* Each step of a pass keeps what is told of the questions.
LEMMA NextPolicy == PolicyInv /\ [PolicyNext]_policyVars => PolicyInv'
<1> SUFFICES ASSUME PolicyInv, [PolicyNext]_policyVars PROVE PolicyInv'
  OBVIOUS
<1>a. /\ taken \in Seq(Records) /\ kept \in Seq(KeptRecords)
      /\ KeptInOrder /\ NoQuestionVanishes /\ BlocksCountOnce /\ TwinsReviewed
  BY DEF PolicyInv, QuestionsAreKept
<1>b. overlapping' = overlapping => Records' = Records /\ \A c : Overlap(c)' = Overlap(c)
  BY DEF Records, BlocksOf, Overlap, Chunks
<1>1. ASSUME NEW r \in Records, Exclude(r)
      PROVE  PolicyInv'
  <2>1. ~done /\ done' = done /\ taken' = Append(taken, r) /\ failed' = failed \cup {r.chunk} /\ UNCHANGED <<overlapping, kept, removed>>
    BY <1>1 DEF Exclude, Follows
  <2>2. (taken \in Seq(Records))' /\ kept' \in Seq(KeptRecords)
    BY <1>a, <1>b, <2>1, Appended
  <2>3. NoQuestionVanishes'
    BY <1>a, <2>1, Appended DEF NoQuestionVanishes
  <2>4. BlocksCountOnce' /\ TwinsReviewed'
    BY <1>a, <2>1 DEF BlocksCountOnce, TwinsReviewed, SameName, Alike, Overlap
  <2>5. KeptInOrder'
    BY <1>a, <1>1, <2>1, StaysInOrder DEF KeptInOrder, Exclude
  <2>. QED BY <2>2, <2>3, <2>4, <2>5 DEF PolicyInv, QuestionsAreKept
<1>2. ASSUME NEW r \in Records, Dedupe(r)
      PROVE  PolicyInv'
  <2>1. ~done /\ done' = done /\ taken' = Append(taken, r) /\ removed' = removed \cup {r} /\ UNCHANGED <<overlapping, kept, failed>>
    BY <1>2 DEF Dedupe, Follows
  <2>2. (taken \in Seq(Records))' /\ kept' \in Seq(KeptRecords)
    BY <1>a, <1>b, <2>1, Appended
  <2>3. PICK i \in DOMAIN kept : kept[i].name = r.name /\ kept[i].question = r.question /\ kept[i].cites \cap Overlap(r.chunk) # {}
    BY <1>2 DEF Dedupe, Duplicate
  <2>4. NoQuestionVanishes'
    BY <1>a, <2>1, <2>3, Appended DEF NoQuestionVanishes
  <2>5. KeptInOrder'
    BY <1>a, <1>2, <2>1, StaysInOrder DEF KeptInOrder, Dedupe
  <2>6. BlocksCountOnce' /\ TwinsReviewed'
    BY <1>a, <2>1, <2>3 DEF BlocksCountOnce, TwinsReviewed, SameName, Alike, Overlap
  <2>. QED BY <2>2, <2>4, <2>5, <2>6 DEF PolicyInv, QuestionsAreKept
<1>3. ASSUME NEW r \in Records, Keep(r)
      PROVE  PolicyInv'
  <2> DEFINE one == [name |-> r.name, question |-> r.question, chunk |-> r.chunk, cites |-> r.cites, review |-> r.grade = "doubtful"]
  <2> DEFINE n == Len(kept) + 1
  <2>1. ~done /\ done' = done /\ taken' = Append(taken, r) /\ kept' = Append(kept, one) /\ UNCHANGED <<overlapping, removed, failed>>
    BY <1>3 DEF Keep, Follows
  <2>2. one \in KeptRecords
    BY DEF KeptRecords, Records
  <2>3. (taken \in Seq(Records))'
    BY <1>a, <1>b, <2>1, Appended
  <2>4. /\ kept' \in Seq(KeptRecords)
        /\ DOMAIN kept' = DOMAIN kept \cup {n} /\ n \notin DOMAIN kept
        /\ \A i \in DOMAIN kept : kept'[i] = kept[i] /\ i < n
        /\ kept'[n] = one
    BY <1>a, <2>1, <2>2, Appended
  <2>5. one.name = r.name /\ one.question = r.question /\ one.chunk = r.chunk /\ one.cites = r.cites
    OBVIOUS
  <2>6. DOMAIN kept \subseteq Nat /\ n \in Nat
    BY <1>a
  <2> HIDE DEF one, n
  <2>7. NoQuestionVanishes'
    <3>1. ASSUME NEW i \in DOMAIN taken
          PROVE  taken[i].chunk \in failed' \/ \E k \in DOMAIN kept' : kept'[k].name = taken[i].name /\ kept'[k].question = taken[i].question
      BY <1>a, <2>1, <2>4 DEF NoQuestionVanishes
    <3>2. \E k \in DOMAIN kept' : kept'[k].name = r.name /\ kept'[k].question = r.question
      BY <2>4, <2>5
    <3>. QED BY <1>a, <2>1, <3>1, <3>2, Appended DEF NoQuestionVanishes
  <2>8. \A i \in DOMAIN kept : kept[i].chunk <= r.chunk /\ kept[i].cites \subseteq BlocksOf(kept[i].chunk)
    BY <1>a, <1>3, <2>1, StaysInOrder DEF Keep
  <2>9. KeptInOrder'
    <3>1. taken' # <<>> /\ Last(taken') = r /\ \A c : BlocksOf(c)' = BlocksOf(c)
      BY <1>3, <1>a, <2>1, StaysInOrder DEF Keep, BlocksOf, Overlap
    <3>2. r.cites \subseteq BlocksOf(r.chunk) /\ r.chunk \in Nat
      BY DEF Records, Chunks
    <3>3. ASSUME NEW i \in DOMAIN kept'
          PROVE  kept'[i].cites \subseteq BlocksOf(kept'[i].chunk) /\ kept'[i].chunk <= r.chunk
      BY <2>4, <2>5, <2>8, <3>2
    <3> QED BY <3>1, <3>3 DEF KeptInOrder
  <2>10. BlocksCountOnce'
    <3>1. ASSUME NEW i \in DOMAIN kept', NEW j \in DOMAIN kept', i < j, SameName(i, j)', kept'[i].question = kept'[j].question,
                 kept'[i].chunk # kept'[j].chunk
          PROVE  kept'[i].cites \cap kept'[j].cites = {}
      <4>1. i \in DOMAIN kept
        BY <2>4, <2>6, <3>1
      <4>2. CASE j \in DOMAIN kept
        BY <1>a, <2>4, <3>1, <4>1, <4>2 DEF BlocksCountOnce, SameName
      <4>3. CASE j = n
        <5>1. kept[i].chunk \in Nat /\ r.chunk \in Nat /\ kept[i].chunk < r.chunk
          <6>1. kept[i] \in KeptRecords /\ kept[i].chunk # r.chunk /\ kept[i].chunk <= r.chunk
            BY <1>a, <2>4, <2>5, <2>8, <3>1, <4>1, <4>3
          <6> QED BY <6>1 DEF KeptRecords, Records, Chunks
        <5>2. kept[i].cites \subseteq BlocksOf(kept[i].chunk) /\ r.cites \subseteq BlocksOf(r.chunk)
          BY <2>8, <4>1 DEF Records
        <5>3. kept[i].cites \cap Overlap(r.chunk) = {}
          BY <1>3, <2>4, <2>5, <3>1, <4>1, <4>3 DEF Keep, Duplicate, SameName
        <5>4. BlocksOf(kept[i].chunk) \cap BlocksOf(r.chunk) \subseteq Overlap(r.chunk)
          BY <5>1, SharedIsRepeated
        <5>5. kept[i].cites \cap r.cites = {}
          BY <5>2, <5>3, <5>4
        <5> QED BY <2>4, <2>5, <4>1, <4>3, <5>5
      <4>. QED BY <2>4, <4>2, <4>3
    <3>2. ASSUME NEW d \in removed'
          PROVE  \E k \in DOMAIN kept' :
                     kept'[k].name = d.name /\ kept'[k].question = d.question /\ kept'[k].cites \cap Overlap(d.chunk)' # {}
      <4>1. PICK k \in DOMAIN kept :
                     kept[k].name = d.name /\ kept[k].question = d.question /\ kept[k].cites \cap Overlap(d.chunk) # {}
        BY <1>a, <2>1, <3>2 DEF BlocksCountOnce
      <4> QED BY <1>b, <2>1, <2>4, <4>1
    <3>. QED BY <3>1, <3>2 DEF BlocksCountOnce
  <2>11. TwinsReviewed'
    BY <2>1 DEF TwinsReviewed
  <2>. QED BY <2>3, <2>4, <2>7, <2>9, <2>10, <2>11 DEF PolicyInv, QuestionsAreKept
<1>4. CASE MarkTwins
  <2>1. /\ kept' = [i \in DOMAIN kept |-> [kept[i] EXCEPT !.review = @ \/ Twin(i)]]
        /\ UNCHANGED <<overlapping, taken, removed, failed>>
    BY <1>4 DEF MarkTwins
  <2>2. DOMAIN kept' = DOMAIN kept /\ UNCHANGED <<overlapping, taken, removed, failed>>
    BY <2>1
  <2>3. ASSUME NEW i \in DOMAIN kept
        PROVE  /\ kept'[i].name = kept[i].name /\ kept'[i].question = kept[i].question
               /\ kept'[i].chunk = kept[i].chunk /\ kept'[i].cites = kept[i].cites
               /\ kept'[i] \in KeptRecords
               /\ Twin(i) => kept'[i].review
    <3>1. kept[i] \in KeptRecords
      BY <1>a
    <3>2. kept'[i] = [kept[i] EXCEPT !.review = kept[i].review \/ Twin(i)]
      BY <2>1
    <3> DEFINE mark == kept[i].review \/ Twin(i)
    <3>3. mark \in BOOLEAN
      BY <3>1 DEF KeptRecords, Twin
    <3>4. Twin(i) => mark
      OBVIOUS
    <3>5. kept'[i] = [kept[i] EXCEPT !.review = mark]
      BY <3>2
    <3> HIDE DEF mark
    <3>. QED BY <3>1, <3>3, <3>4, <3>5 DEF KeptRecords
  <2>4. kept' \in Seq(KeptRecords)
    <3> DEFINE marked(i) == [kept[i] EXCEPT !.review = @ \/ Twin(i)]
    <3>1. PICK n \in Nat : DOMAIN kept = 1 .. n
      BY <1>a
    <3>2. kept' = [i \in 1 .. n |-> marked(i)]
      BY <2>1, <3>1
    <3> HIDE DEF marked
    <3>3. \A i \in 1 .. n : marked(i) \in KeptRecords
      BY <2>3, <3>1, <3>2
    <3>. QED BY <3>2, <3>3
  <2>5. NoQuestionVanishes'
    BY <1>a, <2>2, <2>3 DEF NoQuestionVanishes
  <2>6. BlocksCountOnce'
    <3>. QED BY <1>a, <1>b, <2>2, <2>3 DEF BlocksCountOnce, SameName
  <2>7. TwinsReviewed'
    <3>1. ASSUME NEW i \in DOMAIN kept, NEW j \in DOMAIN kept, i # j, SameName(i, j) \/ Alike(i, j)
          PROVE  Twin(i) /\ Twin(j)
      <4>1. SameName(j, i) \/ Alike(j, i)
        <5>1. {kept[j].question, kept[i].question} = {kept[i].question, kept[j].question}
          OBVIOUS
        <5>. QED BY <3>1, <5>1 DEF SameName, Alike
      <4>. QED BY <3>1, <4>1 DEF Twin
    <3>2. \A i, j \in DOMAIN kept : (SameName(i, j)' <=> SameName(i, j)) /\ (Alike(i, j)' <=> Alike(i, j))
      BY <2>2, <2>3 DEF SameName, Alike
    <3>. QED BY <2>2, <2>3, <3>1, <3>2 DEF TwinsReviewed
  <2>8. (taken \in Seq(Records))'
    BY <1>a, <1>b, <2>2
  <2>9. KeptInOrder'
    BY <1>a, <2>2, <2>3 DEF KeptInOrder, BlocksOf, Overlap
  <2>. QED BY <2>4, <2>5, <2>6, <2>7, <2>8, <2>9 DEF PolicyInv, QuestionsAreKept
<1>5. CASE UNCHANGED policyVars
  <2>1. NoQuestionVanishes' /\ BlocksCountOnce'
    BY <1>5, <1>a DEF policyVars, NoQuestionVanishes, BlocksCountOnce, SameName, Overlap
  <2>2. TwinsReviewed'
    BY <1>5, <1>a DEF policyVars, TwinsReviewed, SameName, Alike
  <2>3. (taken \in Seq(Records) /\ kept \in Seq(KeptRecords))'
    BY <1>5, <1>a, <1>b DEF policyVars
  <2>4. KeptInOrder'
    BY <1>5, <1>a DEF policyVars, KeptInOrder, BlocksOf, Overlap
  <2>. QED BY <2>1, <2>2, <2>3, <2>4 DEF PolicyInv, QuestionsAreKept
<1>. QED BY <1>1, <1>2, <1>3, <1>4, <1>5 DEF PolicyNext

\* pipeline.py apply_quality_policy: however the records of overlapping chunks repeat each other, a question is kept
\* or its chunk is reported, two chunks never count one block both, a record is removed only when a kept one of its
\* question stands in a block its chunk repeats, and records that resemble each other are marked for review.
THEOREM QuestionsAreKeptAlways == PolicySpec => []QuestionsAreKept
<1>1. PolicyInv => QuestionsAreKept
  BY DEF PolicyInv
<1>. QED BY <1>1, InitPolicy, NextPolicy, PTL DEF PolicySpec

-----------------------------------------------------------------------------
(* DocumentInventory.  The items are made in one step of the candidates,   *)
(* which are all the lines read that match; a name is linked when one      *)
(* candidate claims it.                                                    *)

\* The variables a line names.
Mentioned(line) == {v \in DOMAIN survey : Mentions(line, v)}

\* The candidates that match a name.
Claimants(name) == {k \in DOMAIN candidates : name \in Matches(lines[candidates[k]])}

\* A set of one member, with its cardinality.
LEMMA OneMember ==
  ASSUME NEW S, IsFiniteSet(S)
  PROVE  /\ Cardinality(S) = 1 <=> \E x : S = {x}
         /\ Cardinality(S) <= 1 <=> \A x, y \in S : x = y
<1>1. Cardinality(S) = 1 <=> \E x : S = {x}
  BY FS_Singleton
<1>2. Cardinality(S) = 0 <=> S = {}
  BY FS_EmptySet
<1>3. Cardinality(S) \in Nat
  BY FS_CardinalityType
<1>4. (\A x, y \in S : x = y) <=> S = {} \/ \E x : S = {x}
  OBVIOUS
<1> DEFINE c == Cardinality(S)
<1>5. c \in Nat /\ (c = 1 <=> \E x : S = {x}) /\ (c = 0 <=> S = {})
  BY <1>1, <1>2, <1>3
<1> HIDE DEF c
<1>6. c <= 1 <=> c = 0 \/ c = 1
  BY <1>5
<1>7. (c <= 1) <=> (\A x, y \in S : x = y)
  BY <1>4, <1>5, <1>6
<1>. QED BY <1>1, <1>7 DEF c

\* Documents and surveys are sequences.
LEMMA Sequences ==
  ASSUME DocumentAssumption
  PROVE  /\ \A d \in Documents : Len(d) \in Nat /\ DOMAIN d = 1 .. Len(d)
         /\ \A s \in Surveys : Len(s) \in Nat /\ DOMAIN s = 1 .. Len(s)
<1> DEFINE L == [number : STRING, text : STRING]
           V == [name : STRING, texts : SUBSET STRING, module : STRING]
<1>1. Documents \subseteq Seq(L) /\ Surveys \subseteq Seq(V)
  BY DEF DocumentAssumption
<1> HIDE DEF L, V
<1>. QED BY <1>1

\* A line that matches names one variable name, and matches it when the number printed on it is of one variable.
LEMMA MatchesNames ==
  ASSUME DocumentAssumption, survey \in Surveys, NEW line
  PROVE  /\ \A name \in Matches(line) :
               /\ \E v \in Mentioned(line) : survey[v].name = name
               /\ \A v \in Mentioned(line) : survey[v].name = name
               /\ Matches(line) = {name}
         /\ \A v \in Mentioned(line) :
               Rivals(line, v) = {} /\ Cardinality(ByNumber(line)) <= 1 => Matches(line) = {survey[v].name}
<1> DEFINE names == {survey[v].name : v \in Mentioned(line)}
<1>1. PICK n \in Nat : DOMAIN survey = 1 .. n
  BY Sequences
<1>2. ByNumber(line) \subseteq DOMAIN survey /\ ByText(line) \subseteq DOMAIN survey
  BY DEF ByNumber, ByText
<1>3. Mentioned(line) = IF ByNumber(line) # {} THEN ByNumber(line) ELSE ByText(line)
  BY <1>2 DEF Mentioned, Mentions
<1>4. IsFiniteSet(DOMAIN survey)
  BY <1>1, FS_Interval
<1>5. IsFiniteSet(Mentioned(line)) /\ IsFiniteSet(ByNumber(line))
  BY <1>2, <1>4, FS_Subset DEF Mentioned
<1>6. IsFiniteSet(names)
  <2> DEFINE f == [v \in Mentioned(line) |-> survey[v].name]
  <2>1. f \in Surjection(Mentioned(line), names)
    BY DEF Surjection
  <2>. QED BY <1>5, <2>1, FS_Surjection
<1>7. Matches(line) = IF Cardinality(names) = 1 /\ Cardinality(ByNumber(line)) <= 1 THEN names ELSE {}
  BY <1>3 DEF Matches
<1>8. Cardinality(names) = 1 <=> \E x : names = {x}
  BY <1>6, OneMember
<1>9. ASSUME NEW name \in Matches(line)
      PROVE  /\ \E v \in Mentioned(line) : survey[v].name = name
             /\ \A v \in Mentioned(line) : survey[v].name = name
             /\ Matches(line) = {name}
  <2>1. names = {name} /\ Matches(line) = names
    BY <1>7, <1>8, <1>9
  <2>. QED BY <2>1
<1>10. ASSUME NEW v \in Mentioned(line), Rivals(line, v) = {}, Cardinality(ByNumber(line)) <= 1
       PROVE  Matches(line) = {survey[v].name}
  <2>1. \A u \in Mentioned(line) : survey[u].name = survey[v].name
    BY <1>10 DEF Rivals, Mentioned
  <2>2. names = {survey[v].name}
    BY <2>1
  <2>. QED BY <1>7, <1>8, <1>10, <2>2
<1>. QED BY <1>9, <1>10

\* The numbers of a line are of one variable or of several.
LEMMA NumbersAreFew ==
  ASSUME DocumentAssumption, survey \in Surveys, NEW line
  PROVE  /\ Cardinality(ByNumber(line)) \in Nat
         /\ Cardinality(ByNumber(line)) <= 1 <=> \A x, y \in ByNumber(line) : x = y
         /\ ~(Cardinality(ByNumber(line)) > 1) <=> Cardinality(ByNumber(line)) <= 1
<1>1. PICK n \in Nat : DOMAIN survey = 1 .. n
  BY Sequences
<1>2. IsFiniteSet(DOMAIN survey)
  BY <1>1, FS_Interval
<1>3. IsFiniteSet(ByNumber(line))
  BY <1>2, FS_Subset DEF ByNumber
<1>4. Cardinality(ByNumber(line)) \in Nat
  BY <1>3, FS_CardinalityType
<1>. QED BY <1>3, <1>4, OneMember

-----------------------------------------------------------------------------

\* The candidates are different lines, and every line read that matches is one.
CandidatesInv ==
    /\ lines \in Documents /\ survey \in Surveys /\ at \in 0 .. Len(lines)
    /\ candidates \in Seq(1 .. at)
    /\ \A j, k \in DOMAIN candidates : candidates[j] = candidates[k] => j = k
    /\ \A l \in 1 .. at : Matches(lines[l]) # {} => \E k \in DOMAIN candidates : candidates[k] = l

\* The items are made of all candidates, in their order, between two that link nothing.
ItemsInv ==
    items # <<>> =>
        /\ at = Len(lines)
        /\ \A i \in DOMAIN items :
              \/ items[i].names = {} /\ items[i].path = <<>>
              \/ \E k \in DOMAIN candidates :
                    /\ i = k + 1 /\ items[i].line = candidates[k]
                    /\ items[i].names = Linked(lines[candidates[k]])
                    /\ items[i].path = Section(lines[candidates[k]])
        /\ \A k \in DOMAIN candidates :
              /\ k + 1 \in DOMAIN items /\ items[k + 1].line = candidates[k]
              /\ items[k + 1].names = Linked(lines[candidates[k]])

\* A sequence between two elements.
LEMMA Framed ==
  ASSUME NEW n \in Nat, NEW f, f = [k \in 1 .. n |-> f[k]], NEW a, NEW b
  PROVE  LET s == <<a>> \o f \o <<b>> IN
         /\ s # <<>> /\ DOMAIN s = 1 .. n + 2
         /\ s[1] = a /\ s[n + 2] = b /\ \A k \in 1 .. n : s[k + 1] = f[k]
<1> DEFINE S == {f[k] : k \in 1 .. n} \cup {a, b}
<1>1. f \in Seq(S) /\ Len(f) = n
  OBVIOUS
<1>2. a \in S /\ b \in S
  OBVIOUS
<1> HIDE DEF S
<1>3. <<a>> \o f \in Seq(S) /\ Len(<<a>> \o f) = n + 1 /\ (<<a>> \o f)[1] = a
      /\ \A k \in 1 .. n : (<<a>> \o f)[k + 1] = f[k]
  BY <1>1, <1>2
<1> DEFINE t == <<a>> \o f
<1> HIDE DEF t
<1>4. t \in Seq(S) /\ Len(t) = n + 1 /\ t[1] = a /\ \A k \in 1 .. n : t[k + 1] = f[k]
  BY <1>3 DEF t
<1>5. t \o <<b>> # <<>> /\ DOMAIN (t \o <<b>>) = 1 .. n + 2 /\ (t \o <<b>>)[n + 2] = b
      /\ \A k \in 1 .. n + 1 : (t \o <<b>>)[k] = t[k]
  BY <1>2, <1>4
<1>6. 1 \in 1 .. n + 1 /\ \A k \in 1 .. n : k + 1 \in 1 .. n + 1
  OBVIOUS
<1>7. (t \o <<b>>)[1] = a /\ \A k \in 1 .. n : (t \o <<b>>)[k + 1] = f[k]
  BY <1>4, <1>5, <1>6
<1>. QED BY <1>5, <1>7 DEF t

\* A sequence over a set is one over any larger set.
LEMMA WiderSeq ==
  ASSUME NEW S, NEW T, S \subseteq T, NEW s \in Seq(S)
  PROVE  s \in Seq(T)
  OBVIOUS

\* There are neither candidates nor items at the start.
LEMMA InitDocument == DocumentAssumption /\ DocumentInit => CandidatesInv /\ ItemsInv
  BY Sequences DEF DocumentInit, CandidatesInv, ItemsInv

\* Each step keeps what is told of the candidates and items.
LEMMA NextDocument ==
  ASSUME DocumentAssumption, CandidatesInv, ItemsInv, [DocumentNext]_documentVars
  PROVE  CandidatesInv' /\ ItemsInv'
<1>a. UNCHANGED <<lines, survey>> => \A line : Matches(line)' = Matches(line)
  BY DEF Matches, ByNumber, ByText, Label, Norm
<1>b. UNCHANGED <<lines, survey, candidates>> => \A line : Linked(line)' = Linked(line) /\ Section(line)' = Section(line)
  <2>1. SUFFICES ASSUME UNCHANGED <<lines, survey, candidates>>
                 PROVE  \A line : Linked(line)' = Linked(line) /\ Section(line)' = Section(line)
    OBVIOUS
  <2>2. \A name : Claims(name)' = Claims(name)
    BY <1>a, <2>1 DEF Claims
  <2>3. \A line : Linked(line)' = Linked(line)
    BY <1>a, <2>1, <2>2 DEF Linked
  <2>4. ASSUME NEW line
        PROVE  Section(line)' = Section(line)
    <3> DEFINE M == {survey[v].module : v \in {u \in DOMAIN survey : survey[u].name \in Linked(line)}} \ {""}
    <3>1. M' = M
      BY <2>1, <2>3
    <3>2. /\ Section(line) = IF Cardinality(M) = 1 THEN <<CHOOSE m \in M : TRUE>> ELSE <<>>
          /\ Section(line)' = IF Cardinality(M') = 1 THEN <<CHOOSE m \in M' : TRUE>> ELSE <<>>
      BY DEF Section
    <3> HIDE DEF M
    <3>. QED BY <3>1, <3>2
  <2>. QED BY <2>3, <2>4
<1>1. CASE ReadLine
  <2> DEFINE l == at + 1
  <2> DEFINE noted == lines[l].number # "" \/ Matches(lines[l]) # {}
  <2>1. /\ items = <<>> /\ items' = <<>> /\ at < Len(lines) /\ at' = l
        /\ lines' = lines /\ survey' = survey
        /\ candidates' = IF noted THEN Append(candidates, l) ELSE candidates
    BY <1>1 DEF ReadLine
  <2>2. /\ at \in Nat /\ at' \in 0 .. Len(lines) /\ 1 .. at' = 1 .. at \cup {l} /\ l \notin 1 .. at
    <3>1. Len(lines) \in Nat /\ at \in 0 .. Len(lines)
      BY Sequences DEF CandidatesInv
    <3>2. at < Len(lines) /\ at' = at + 1
      BY <2>1
    <3>. QED BY <3>1, <3>2
  <2>3. candidates \in Seq(1 .. at') /\ \A k \in DOMAIN candidates : candidates[k] # l
    <3>1. candidates \in Seq(1 .. at) /\ 1 .. at \subseteq 1 .. at'
      BY <2>2 DEF CandidatesInv
    <3>. QED BY <2>2, <3>1, WiderSeq
  <2>4. Matches(lines[l]) # {} => noted
    OBVIOUS
  <2> HIDE DEF noted
  <2>5. CASE noted
    <3>1. /\ candidates' \in Seq(1 .. at')
          /\ DOMAIN candidates' = DOMAIN candidates \cup {Len(candidates) + 1} /\ Len(candidates) + 1 \notin DOMAIN candidates
          /\ candidates'[Len(candidates) + 1] = l
          /\ \A k \in DOMAIN candidates : candidates'[k] = candidates[k]
      BY <2>1, <2>2, <2>3, <2>5
    <3>2. \A j, k \in DOMAIN candidates' : candidates'[j] = candidates'[k] => j = k
      BY <2>3, <3>1 DEF CandidatesInv
    <3>3. \A m \in 1 .. at' : Matches(lines[m]) # {} => \E k \in DOMAIN candidates' : candidates'[k] = m
      BY <2>2, <3>1 DEF CandidatesInv
    <3>. QED BY <1>a, <2>1, <2>2, <3>1, <3>2, <3>3 DEF CandidatesInv, ItemsInv
  <2>6. CASE ~noted
    <3>1. candidates' = candidates
      BY <2>1, <2>6
    <3>2. \A m \in 1 .. at' : Matches(lines[m]) # {} => \E k \in DOMAIN candidates : candidates[k] = m
      BY <2>2, <2>4, <2>6 DEF CandidatesInv
    <3>3. /\ candidates' \in Seq(1 .. at')
          /\ \A j, k \in DOMAIN candidates' : candidates'[j] = candidates'[k] => j = k
          /\ \A m \in 1 .. at' : Matches(lines[m]) # {} => \E k \in DOMAIN candidates' : candidates'[k] = m
      BY <2>3, <3>1, <3>2 DEF CandidatesInv
    <3>. QED BY <1>a, <2>1, <2>2, <3>3 DEF CandidatesInv, ItemsInv
  <2>. QED BY <2>5, <2>6
<1>2. CASE BuildItems
  <2>1. at = Len(lines) /\ UNCHANGED <<lines, survey, at, candidates>>
    BY <1>2 DEF BuildItems
  <2>2. CandidatesInv'
    BY <1>a, <2>1 DEF CandidatesInv
  <2>3. PICK n \in Nat : DOMAIN candidates = 1 .. n
    BY DEF CandidatesInv
  <2> DEFINE first == Bare("entry", 1, 0)
             last == Bare("terminal", Len(lines), Len(candidates) + 1)
             made == [k \in DOMAIN candidates |->
                         [Bare("question", candidates[k], k) EXCEPT
                             !.names = Linked(lines[candidates[k]]), !.path = Section(lines[candidates[k]])]]
  <2>4. items' = <<first>> \o made \o <<last>>
    BY <1>2 DEF BuildItems
  <2>5. first.names = {} /\ first.path = <<>> /\ last.names = {} /\ last.path = <<>>
    BY DEF Bare
  <2>6. \A k \in 1 .. n : /\ made[k].line = candidates[k] /\ made[k].names = Linked(lines[candidates[k]])
                          /\ made[k].path = Section(lines[candidates[k]])
    BY <2>3 DEF Bare
  <2>7. made = [k \in 1 .. n |-> made[k]]
    BY <2>3
  <2> HIDE DEF first, last, made
  <2>8. /\ items' # <<>> /\ DOMAIN items' = 1 .. n + 2
        /\ items'[1] = first /\ items'[n + 2] = last /\ \A k \in 1 .. n : items'[k + 1] = made[k]
    BY <2>4, <2>7, Framed
  <2>9. ASSUME NEW i \in 1 .. n + 2
        PROVE  i = 1 \/ i = n + 2 \/ \E k \in 1 .. n : i = k + 1
    <3>1. CASE i # 1 /\ i # n + 2
      <4>1. i - 1 \in 1 .. n /\ i = (i - 1) + 1
        BY <3>1
      <4>. QED BY <4>1
    <3>. QED BY <3>1
  <2>10. \A i \in DOMAIN items' :
            \/ items'[i].names = {} /\ items'[i].path = <<>>
            \/ \E k \in DOMAIN candidates :
                  /\ i = k + 1 /\ items'[i].line = candidates[k]
                  /\ items'[i].names = Linked(lines[candidates[k]]) /\ items'[i].path = Section(lines[candidates[k]])
    <3>1. ASSUME NEW i \in 1 .. n + 2
          PROVE  \/ items'[i].names = {} /\ items'[i].path = <<>>
                 \/ \E k \in 1 .. n :
                       /\ i = k + 1 /\ items'[i].line = candidates[k]
                       /\ items'[i].names = Linked(lines[candidates[k]]) /\ items'[i].path = Section(lines[candidates[k]])
      <4>1. CASE i = 1 \/ i = n + 2
        BY <2>5, <2>8, <4>1
      <4>2. ASSUME NEW k \in 1 .. n, i = k + 1
            PROVE  /\ items'[i].line = candidates[k]
                   /\ items'[i].names = Linked(lines[candidates[k]]) /\ items'[i].path = Section(lines[candidates[k]])
        BY <2>6, <2>8, <4>2
      <4>. QED BY <2>9, <4>1, <4>2
    <3>. QED BY <2>3, <2>8, <3>1
  <2>11. \A k \in DOMAIN candidates :
            /\ k + 1 \in DOMAIN items' /\ items'[k + 1].line = candidates[k]
            /\ items'[k + 1].names = Linked(lines[candidates[k]])
    BY <2>3, <2>6, <2>8
  <2>12. ItemsInv'
    BY <1>b, <2>1, <2>10, <2>11 DEF ItemsInv
  <2>. QED BY <2>2, <2>12
<1>3. CASE UNCHANGED documentVars
  <2>1. UNCHANGED <<lines, survey, at, candidates, items>>
    BY <1>3 DEF documentVars
  <2>2. CandidatesInv'
    BY <1>a, <2>1 DEF CandidatesInv
  <2>3. ItemsInv'
    BY <1>b, <2>1 DEF ItemsInv
  <2>. QED BY <2>2, <2>3
<1>. QED BY <1>1, <1>2, <1>3 DEF DocumentNext

-----------------------------------------------------------------------------
(* What follows for the links.                                             *)

\* A variable is linked to the one candidate that matches its name.
LEMMA LinkedOnce ==
  ASSUME CandidatesInv, NEW name
  PROVE  Claims(name) = 1 <=> \E k : Claimants(name) = {k}
<1>1. PICK n \in Nat : DOMAIN candidates = 1 .. n
  BY DEF CandidatesInv
<1>2. IsFiniteSet(DOMAIN candidates)
  BY <1>1, FS_Interval
<1>3. IsFiniteSet(Claimants(name))
  BY <1>2, FS_Subset DEF Claimants
<1>4. Claims(name) = Cardinality(Claimants(name))
  BY DEF Claims, Claimants
<1>. QED BY <1>3, <1>4, OneMember

\* Where a linked variable's item comes from.
LEMMA LinkComesFrom ==
  ASSUME CandidatesInv, ItemsInv, NEW i \in DOMAIN items, NEW v \in Links(i)
  PROVE  /\ items # <<>> /\ at = Len(lines)
         /\ \E k \in DOMAIN candidates :
               /\ i = k + 1 /\ items[i].line = candidates[k]
               /\ items[i].names = Linked(lines[candidates[k]]) /\ items[i].path = Section(lines[candidates[k]])
               /\ survey[v].name \in Matches(lines[candidates[k]])
               /\ Claimants(survey[v].name) = {k}
<1>1. items # <<>>
  OBVIOUS
<1>2. v \in DOMAIN survey /\ survey[v].name \in items[i].names
  BY DEF Links
<1>3. PICK k \in DOMAIN candidates :
        /\ i = k + 1 /\ items[i].line = candidates[k]
        /\ items[i].names = Linked(lines[candidates[k]]) /\ items[i].path = Section(lines[candidates[k]])
  BY <1>1, <1>2 DEF ItemsInv
<1>4. survey[v].name \in Matches(lines[candidates[k]]) /\ Claims(survey[v].name) = 1
  BY <1>2, <1>3 DEF Linked
<1>5. k \in Claimants(survey[v].name)
  BY <1>4 DEF Claimants
<1>6. Claimants(survey[v].name) = {k}
  BY <1>4, <1>5, LinkedOnce
<1>. QED BY <1>1, <1>3, <1>4, <1>6 DEF ItemsInv

\* A link is of one item and one variable.
LEMMA SingleLinks == CandidatesInv /\ ItemsInv => LinksAreSingle
<1> SUFFICES ASSUME CandidatesInv, ItemsInv, NEW i \in DOMAIN items, NEW j \in DOMAIN items,
                    NEW v \in Links(i), v \in Links(j)
             PROVE  i = j
  BY DEF LinksAreSingle
<1>1. PICK k \in DOMAIN candidates : i = k + 1 /\ Claimants(survey[v].name) = {k}
  BY LinkComesFrom
<1>2. PICK m \in DOMAIN candidates : j = m + 1 /\ Claimants(survey[v].name) = {m}
  BY LinkComesFrom
<1>. QED BY <1>1, <1>2

\* A link has a reason: the name or the number printed on the line.
LEMMA EarnedLinks ==
  ASSUME DocumentAssumption, CandidatesInv, ItemsInv
  PROVE  LinksAreEarned
<1> SUFFICES ASSUME NEW i \in DOMAIN items, NEW v \in Links(i)
             PROVE  /\ \E u \in Namesakes(v) : Mentions(lines[items[i].line], u)
                    /\ Rivals(lines[items[i].line], v) = {}
                    /\ \A l \in DOMAIN lines \ {items[i].line} :
                           (\E u \in Namesakes(v) : Mentions(lines[l], u))
                               => Rivals(lines[l], v) # {} \/ Cardinality(ByNumber(lines[l])) > 1
  BY DEF LinksAreEarned
<1> DEFINE name == survey[v].name
           line == lines[items[i].line]
<1>1. survey \in Surveys /\ v \in DOMAIN survey
  BY DEF CandidatesInv, Links
<1>2. PICK k \in DOMAIN candidates :
        /\ items[i].line = candidates[k] /\ name \in Matches(lines[candidates[k]]) /\ Claimants(name) = {k}
  BY LinkComesFrom
<1>3. at = Len(lines) /\ at \in 0 .. Len(lines) /\ DOMAIN lines = 1 .. Len(lines)
  BY LinkComesFrom, Sequences DEF CandidatesInv
<1>4. (\E u \in Mentioned(line) : survey[u].name = name) /\ \A u \in Mentioned(line) : survey[u].name = name
  BY <1>1, <1>2, MatchesNames
<1>5. \E u \in Namesakes(v) : Mentions(line, u)
  BY <1>4 DEF Namesakes, Mentioned
<1>6. Rivals(line, v) = {}
  BY <1>4 DEF Rivals, Mentioned
<1>7. ASSUME NEW l \in DOMAIN lines, l # items[i].line, NEW u \in Namesakes(v), Mentions(lines[l], u),
             Rivals(lines[l], v) = {}, ~(Cardinality(ByNumber(lines[l])) > 1)
      PROVE  FALSE
  <2>1. u \in Mentioned(lines[l]) /\ survey[u].name = name
    BY <1>7 DEF Namesakes, Mentioned
  <2>2. Rivals(lines[l], u) = {}
    BY <1>7, <2>1 DEF Rivals
  <2>3. Cardinality(ByNumber(lines[l])) <= 1
    BY <1>1, <1>7, NumbersAreFew
  <2>4. Matches(lines[l]) = {name}
    BY <1>1, <2>1, <2>2, <2>3, MatchesNames
  <2>5. PICK m \in DOMAIN candidates : candidates[m] = l
    BY <1>3, <2>4 DEF CandidatesInv
  <2>6. m \in Claimants(name)
    BY <2>4, <2>5 DEF Claimants
  <2>. QED BY <1>2, <1>7, <2>5, <2>6
<1>. QED BY <1>5, <1>6, <1>7

\* A name that only one item and one variable have is linked.
LEMMA UniqueLinks ==
  ASSUME DocumentAssumption, CandidatesInv, ItemsInv
  PROVE  UniqueNamesAreLinked
<1> SUFFICES ASSUME items # <<>>, NEW v \in DOMAIN survey, NEW l \in DOMAIN lines,
                    Namesakes(v) = {v},
                    \A u \in DOMAIN survey : Mentions(lines[l], u) <=> u = v,
                    \A m \in DOMAIN lines \ {l} : ~Mentions(lines[m], v)
             PROVE  \E i \in DOMAIN items : items[i].line = l /\ v \in Links(i)
  BY DEF UniqueNamesAreLinked
<1> DEFINE name == survey[v].name
<1>1. survey \in Surveys /\ lines \in Documents
  BY DEF CandidatesInv
<1>2. at = Len(lines) /\ DOMAIN lines = 1 .. at
  BY <1>1, Sequences DEF ItemsInv
<1>3. Mentioned(lines[l]) = {v}
  BY DEF Mentioned
<1>4. Rivals(lines[l], v) = {}
  BY DEF Rivals
<1>5. \A x, y \in ByNumber(lines[l]) : x = y
  BY DEF Mentions, ByNumber
<1>6. Cardinality(ByNumber(lines[l])) <= 1
  BY <1>1, <1>5, NumbersAreFew
<1>7. Matches(lines[l]) = {name}
  BY <1>1, <1>3, <1>4, <1>6, MatchesNames
<1>8. PICK k \in DOMAIN candidates : candidates[k] = l
  BY <1>2, <1>7 DEF CandidatesInv
<1>9. ASSUME NEW m \in Claimants(name)
      PROVE  m = k
  <2>1. m \in DOMAIN candidates /\ name \in Matches(lines[candidates[m]]) /\ candidates[m] \in DOMAIN lines
    BY <1>2 DEF Claimants, CandidatesInv
  <2>2. PICK u \in Mentioned(lines[candidates[m]]) : survey[u].name = name
    BY <1>1, <2>1, MatchesNames
  <2>3. u = v /\ Mentions(lines[candidates[m]], v)
    BY <2>2 DEF Namesakes, Mentioned
  <2>4. candidates[m] = l
    BY <2>1, <2>3
  <2>. QED BY <1>8, <2>1, <2>4 DEF CandidatesInv
<1>10. Claimants(name) = {k}
  BY <1>7, <1>8, <1>9 DEF Claimants
<1>11. name \in Linked(lines[candidates[k]])
  BY <1>7, <1>8, <1>10, LinkedOnce DEF Linked
<1>12. k + 1 \in DOMAIN items /\ items[k + 1].line = l /\ items[k + 1].names = Linked(lines[candidates[k]])
  BY <1>8 DEF ItemsInv
<1>. QED BY <1>11, <1>12 DEF Links

\* The section of an item is the module of the variables linked to it.
LEMMA SharedSections ==
  ASSUME DocumentAssumption, CandidatesInv, ItemsInv
  PROVE  SectionsAreShared
<1> SUFFICES ASSUME NEW i \in DOMAIN items, NEW v \in Links(i), items[i].path # <<>>
             PROVE  survey[v].module \in {items[i].path[1], ""}
  BY DEF SectionsAreShared
<1>1. PICK k \in DOMAIN candidates :
        items[i].names = Linked(lines[candidates[k]]) /\ items[i].path = Section(lines[candidates[k]])
  BY LinkComesFrom
<1> DEFINE modules ==
      {survey[u].module : u \in {w \in DOMAIN survey : survey[w].name \in Linked(lines[candidates[k]])}} \ {""}
<1>2. survey[v].module \in modules \cup {""}
  BY <1>1 DEF Links
<1>3. Section(lines[candidates[k]]) =
        IF Cardinality(modules) = 1 THEN <<CHOOSE m \in modules : TRUE>> ELSE <<>>
  BY DEF Section
<1>4. IsFiniteSet(modules)
  <2> DEFINE all == {survey[u].module : u \in DOMAIN survey}
             f == [u \in DOMAIN survey |-> survey[u].module]
  <2>1. survey \in Surveys
    BY DEF CandidatesInv
  <2>2. PICK n \in Nat : DOMAIN survey = 1 .. n
    BY <2>1, Sequences
  <2>3. IsFiniteSet(DOMAIN survey)
    BY <2>2, FS_Interval
  <2>4. f \in Surjection(DOMAIN survey, all)
    BY DEF Surjection
  <2>5. modules \subseteq all
    OBVIOUS
  <2>6. IsFiniteSet(all)
    BY <2>3, <2>4, FS_Surjection
  <2> HIDE DEF all, modules
  <2>. QED BY <2>5, <2>6, FS_Subset
<1> HIDE DEF modules
<1>5. Cardinality(modules) = 1 => \E m : modules = {m}
  BY <1>4, OneMember
<1>6. PICK m : modules = {m}
  BY <1>1, <1>3, <1>5
<1>7. items[i].path = <<m>>
  BY <1>1, <1>3, <1>6
<1>8. items[i].path[1] = m
  BY <1>7
<1>. QED BY <1>2, <1>6, <1>8

\* Items and variables of a document are linked one to one and for a reason, and a unique name is linked
\* (_document_semantics, routing/pipeline.py).
THEOREM LinksAreSoundAlways == ASSUME DocumentAssumption PROVE DocumentSpec => []LinksAreSound
<1>1. DocumentInit => CandidatesInv /\ ItemsInv
  BY InitDocument
<1>2. CandidatesInv /\ ItemsInv /\ [DocumentNext]_documentVars => CandidatesInv' /\ ItemsInv'
  BY NextDocument
<1>3. CandidatesInv /\ ItemsInv => LinksAreSound
  BY SingleLinks, EarnedLinks, UniqueLinks, SharedSections DEF LinksAreSound
<1>. QED BY <1>1, <1>2, <1>3, PTL DEF DocumentSpec
=============================================================================
