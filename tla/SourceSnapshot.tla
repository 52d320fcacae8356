---------------------------- MODULE SourceSnapshot -----------------------------
(***************************************************************************)
(* The private snapshot of a source (sources/base.py) and the digest it    *)
(* gives a document (sources/registry.py).  A registry call resolves its   *)
(* files, copies them one after the other, a chunk at a time, and converts *)
(* the copies; a writer may change, grow, shrink or replace any file       *)
(* between two steps.  A first call produces the digest a caller binds to, *)
(* a second one is the router's.                                           *)
(*                                                                         *)
(* Simplifications: a chunk is the number of the write that made it, a     *)
(* size the number of chunks, a digest what it is the digest of.  Every    *)
(* write gets its own modification time: two within the granularity of a   *)
(* file system's clock are not told apart by the code.                     *)
(***************************************************************************)
EXTENDS Naturals, Sequences, SequencesExt

CONSTANTS
    Files,     \* files on the disk
    Sources,   \* the sources a call may be given: a primary file, then companions
    MaxBytes,  \* max_source_bytes
    MaxWrites  \* bound on the writer's steps

SnapshotAssumption == Sources \subseteq Seq(Files) \ {<<>>} /\ MaxBytes \in Nat /\ MaxWrites \in Nat

VARIABLES
    disk,    \* file -> [data, time]
    been,    \* file -> the contents it has had
    writes,  \* number of writes
    entry,   \* "plain" for convert, "native" for convert_with_native and convert_for_svis
    source,  \* the files of the call, the primary first
    phase,   \* "called", "next", "reading", "checking", "converted", "bound", "done", "raised"
    stream,  \* the open file: [file, data, time, size, since, same], what it is, what it was at the opening
    buffer,  \* chunks read from it
    copies,  \* the copied files, in order: [name, data]
    digests  \* of the calls that have ended: [entry, digest, copies]

snapshotVars == <<disk, been, writes, entry, source, phase, stream, buffer, copies, digests>>

theDisk == <<disk, been, writes>>
theCall == <<entry, source>>

Closed == [file |-> "none", data |-> <<>>, time |-> 0, size |-> 0, since |-> 0, same |-> FALSE]

SnapshotInit ==
    /\ disk = [f \in Files |-> [data |-> <<0>>, time |-> 0]]
    /\ been = [f \in Files |-> {<<0>>}] /\ writes = 0
    /\ entry \in {"plain", "native"} /\ source \in Sources
    /\ phase = "called" /\ stream = Closed /\ buffer = <<>> /\ copies = <<>> /\ digests = <<>>

Raise == phase' = "raised" /\ stream' = Closed /\ UNCHANGED <<buffer, copies, digests>>

-----------------------------------------------------------------------------
(* A call.                                                                 *)

\* resolve_local_source: every file is of an acceptable size, now.
Resolve ==
    /\ phase = "called"
    /\ IF \E k \in DOMAIN source : Len(disk[source[k]].data) > MaxBytes
       THEN Raise
       ELSE phase' = "next" /\ UNCHANGED <<stream, buffer, copies, digests>>
    /\ UNCHANGED <<theDisk, theCall>>

Current == source[Len(copies) + 1]

\* A copy is made anew: the same companion twice is an error.
Open ==
    /\ phase = "next" /\ Len(copies) < Len(source)
    /\ \/ Raise
       \/ /\ \A k \in DOMAIN copies : copies[k].name # Current
          /\ LET now == disk[Current]
             IN stream' = [file |-> Current, data |-> now.data, time |-> now.time,
                           size |-> Len(now.data), since |-> now.time, same |-> TRUE]
          /\ buffer' = <<>> /\ phase' = "reading" /\ UNCHANGED <<copies, digests>>
    /\ UNCHANGED <<theDisk, theCall>>

Fits(n) == n <= MaxBytes

Read ==
    /\ phase = "reading"
    /\ IF Len(buffer) < Len(stream.data)
       THEN IF Fits(Len(buffer) + 1)
            THEN buffer' = Append(buffer, stream.data[Len(buffer) + 1]) /\ UNCHANGED <<phase, stream, copies, digests>>
            ELSE Raise
       ELSE phase' = "checking" /\ UNCHANGED <<stream, buffer, copies, digests>>
    /\ UNCHANGED <<theDisk, theCall>>

\* Mutant: a change that keeps the size is not noticed.
UnchangedSize(s, total) == s.size = Len(s.data) /\ Len(s.data) = total

\* The open file is what it was at the opening, as far as fstat tells.
Unchanged(s, total) == s.size = Len(s.data) /\ s.since = s.time /\ Len(s.data) = total

Check ==
    /\ phase = "checking"
    /\ IF Unchanged(stream, Len(buffer))
       THEN /\ copies' = Append(copies, [name |-> stream.file, data |-> buffer])
            /\ phase' = "next" /\ stream' = Closed /\ UNCHANGED <<buffer, digests>>
       ELSE Raise
    /\ UNCHANGED <<theDisk, theCall>>

\* convert: the digest of the primary; otherwise of each file's role, place, name and digest.
Digest == IF entry = "plain" THEN [primary |-> copies[1].data] ELSE [primary |-> copies[1], companions |-> Tail(copies)]

\* The signature and the adapter, on the copies alone; then the copies are removed.
Convert ==
    /\ phase = "next" /\ Len(copies) = Len(source)
    /\ \/ Raise
       \/ /\ phase' = "converted"
          /\ digests' = Append(digests, [entry |-> entry, digest |-> Digest, copies |-> copies])
          /\ UNCHANGED <<stream, buffer, copies>>
    /\ UNCHANGED <<theDisk, theCall>>

\* The router's call, of a source the caller names again.
RouteAgain ==
    /\ phase = "converted" /\ Len(digests) = 1
    /\ entry' = "native" /\ source' \in Sources
    /\ phase' = "called" /\ copies' = <<>> /\ buffer' = <<>>
    /\ UNCHANGED <<theDisk, stream, digests>>

SameSource(a, b) == a.entry = b.entry /\ a.digest = b.digest

\* The router compares the binding it was given with the one it made.
Compare ==
    /\ phase = "converted" /\ Len(digests) = 2
    /\ phase' = IF SameSource(digests[1], digests[2]) THEN "bound" ELSE "done"
    /\ UNCHANGED <<theDisk, theCall, stream, buffer, copies, digests>>

-----------------------------------------------------------------------------
(* The writer.                                                             *)

\* An open file shows what is written to it, unless its name was given to another one.
Shown(f, data) == IF stream.file = f /\ stream.same THEN [stream EXCEPT !.data = data, !.time = writes + 1] ELSE stream

Put(f, data) ==
    /\ writes < MaxWrites /\ writes' = writes + 1
    /\ disk' = [disk EXCEPT ![f] = [data |-> data, time |-> writes + 1]]
    /\ been' = [been EXCEPT ![f] = @ \cup {data}]
    /\ UNCHANGED <<theCall, phase, buffer, copies, digests>>

Write ==
    \E f \in Files :
        LET data == disk[f].data
        IN \E new \in {Append(data, writes + 1)} \cup {[data EXCEPT ![i] = writes + 1] : i \in DOMAIN data}
                      \cup {Front(data) : t \in {1} \cap DOMAIN data} :
               Put(f, new) /\ stream' = Shown(f, new)

\* Another file takes the name; the open one stays as it is.
Replace ==
    \E f \in Files : /\ Put(f, <<writes + 1>>)
                     /\ stream' = IF stream.file = f THEN [stream EXCEPT !.same = FALSE] ELSE stream

Call == Resolve \/ Open \/ Read \/ Check \/ Convert \/ RouteAgain \/ Compare

SnapshotNext == Call \/ Write \/ Replace

SnapshotSpec == SnapshotInit /\ [][SnapshotNext]_snapshotVars

-----------------------------------------------------------------------------
(* Properties.                                                             *)

\* What is copied, and so what is converted, is a content the file once had as a whole: no copy mixes two states
\* of a file that is written meanwhile, however the writes fall between the chunks.
CopiesAreOneState == \A k \in DOMAIN copies : copies[k].data \in been[copies[k].name]

\* No copy exceeds the limit, though its file may have grown since its size was checked.
CopiesAreBounded == \A k \in DOMAIN copies : Len(copies[k].data) <= MaxBytes

\* A router that accepts a binding has converted the very files, in the very order, that the binding was made of:
\* a companion renamed, replaced or in another place is noticed.
BindingTellsTheFiles == phase = "bound" => digests[1].copies = digests[2].copies

\* All of it: what is converted is a bounded state each file once had, and a binding tells which files.
SnapshotIsTheSource == CopiesAreOneState /\ CopiesAreBounded /\ BindingTellsTheFiles
=============================================================================
