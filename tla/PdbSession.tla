------------------------------ MODULE PdbSession ------------------------------
(***************************************************************************)
(* A program that opens a PDB, adds named streams to it and makes them     *)
(* durable: Pdb (pdb/src/lib.rs), Pdb::add_or_replace_named_stream         *)
(* (pdb/src/embedded_sources.rs) and `pdbtool add-src`, on top of the      *)
(* container as AtomicStore describes it.                                  *)
(*                                                                         *)
(* Stream 1, the PDB Information Stream, holds the map from names to       *)
(* stream numbers.  The editor keeps a copy of the map, adds to the copy,  *)
(* and writes it back in flush_all; Msf::commit makes all streams durable. *)
(* The layout of the map in the stream is NamedStreamTable's subject.      *)
(***************************************************************************)
EXTENDS Integers, FiniteSets

CONSTANTS
  Names,        \* the names of streams
  Contents,     \* what a stream can be given
  Malformed,    \* the contents that NamesStream::parse rejects
  NamesStream,  \* the name of the Names Stream, "/names"
  EmptyNames,   \* EMPTY_NAMES_STREAM_DATA
  Torn,         \* the contents of a stream whose writing failed
  Closed,       \* no Pdb is open
  Empty,        \* an empty OnceCell
  FirstStream,  \* the number of the first stream that is not a fixed one
  MaxStreams    \* bound of the model: the number of streams

PdbStream == 1

ASSUME StreamsAssumption ==
  /\ FirstStream \in Nat /\ FirstStream > PdbStream
  /\ MaxStreams \in Nat /\ MaxStreams > FirstStream

ASSUME ContentsAssumption ==
  /\ EmptyNames \in Contents
  /\ Torn \notin Contents
  /\ Malformed \subseteq Contents
  /\ NamesStream \in Names

(* The maps from names to streams, what they show of the streams, and the  *)
(* open Pdb: its map with the mark, and the cell that caches the names.    *)
Numbers == FirstStream .. (MaxStreams - 1)

Maps == UNION {[S -> Numbers] : S \in SUBSET Names}
Views == UNION {[S -> Contents \cup {Torn}] : S \in SUBSET Names}

Sessions ==
  [client : {"library", "add-src"}, mode : {"Read", "ReadWrite"}, names : Maps,
   modified : BOOLEAN, namesCell : Contents \cup {Empty}, touched : BOOLEAN]

(* The values that stand for nothing are none of these.                    *)
ASSUME ClosedAssumption ==
  /\ Closed # Empty
  /\ Closed \notin Sessions \cup Views
  /\ Torn \notin Maps \cup Views
  /\ \A S \in SUBSET Names : Torn # S

VARIABLES
  flavor,   \* what_flavor(file): "Pdb" or "Pdz"
  stable,   \* the streams on disk
  working,  \* the streams as the open container shows them
  session,  \* the open Pdb, or Closed
  job,      \* what the last add-src was asked for and how it ended, or Closed
  mishaps   \* what went wrong so far: "add", "flush", "unflushed"

vars == <<flavor, stable, working, session, job, mishaps>>

(* The container, as the MSF specifications show it to behave.             *)
Store == INSTANCE AtomicStore
           WITH NoStore <- Closed, NewStore <- Closed, Nil <- Torn

(* The streams that a map names, and what it shows of a table of streams.  *)
Image(map) == {map[n] : n \in DOMAIN map}
View(streams, map) == [n \in DOMAIN map |-> streams[map[n]]]

With(f, x, y) == [z \in DOMAIN f \cup {x} |-> IF z = x THEN y ELSE f[z]]

IsOpen == session # Closed
Writable == IsOpen /\ session.mode = "ReadWrite"
AddSrcRuns == IsOpen /\ session.client = "add-src"
Known(n) == n \in DOMAIN session.names
Adding == IsOpen /\ (AddSrcRuns => ~job.flushed)

(* Streams are numbered one after the other (Msf::new_stream).             *)
IsNextStream(s) ==
  s \notin DOMAIN working /\ \A t \in FirstStream .. (s - 1) : t \in DOMAIN working

(***************************************************************************)
(* Opening: from_file_access.  A compressed file opens for reading only; a *)
(* damaged map does not open.                                              *)
(***************************************************************************)
NewSession(client, mode) ==
  [client |-> client, mode |-> mode, names |-> stable[PdbStream],
   modified |-> FALSE, namesCell |-> Empty, touched |-> FALSE]

NewJob == [before |-> View(stable, stable[PdbStream]), asked |-> [n \in {} |-> Torn],
           flushed |-> FALSE, exit |-> "running"]

Open(client, mode) ==
  /\ ~IsOpen
  /\ mode = "ReadWrite" => flavor = "Pdb"
  /\ stable[PdbStream] # Torn
  /\ session' = NewSession(client, mode)
  /\ Store!Rollback
  /\ job' = IF client = "add-src" THEN NewJob ELSE Closed
  /\ UNCHANGED <<flavor, mishaps>>

OpenLibrary == \E mode \in {"Read", "ReadWrite"} : Open("library", mode)
OpenAddSrc == Open("add-src", "ReadWrite")

(***************************************************************************)
(* Dropping the Pdb, dying, and a failing commit all end the session.  The *)
(* command add-src leaves at the first error.                              *)
(***************************************************************************)
EndWith(exit) ==
  /\ session' = Closed
  /\ job' = IF AddSrcRuns THEN [job EXCEPT !.exit = exit] ELSE job

Drop ==
  /\ IsOpen
  /\ EndWith("error")
  /\ Store!Rollback
  /\ UNCHANGED <<flavor, mishaps>>

AfterError(streams, mishap) ==
  IF AddSrcRuns THEN Drop
  ELSE /\ working' = streams
       /\ mishaps' = mishaps \cup {mishap}
       /\ UNCHANGED <<flavor, stable, session, job>>

(***************************************************************************)
(* add_or_replace_named_stream.                                            *)
(***************************************************************************)
Asks(n, d) ==
  job' = IF AddSrcRuns THEN [job EXCEPT !.asked = With(@, n, d)] ELSE job

Touch(n) == session.touched \/ n = NamesStream

AddUnchanged(n, d) ==
  /\ Adding /\ Known(n)
  /\ working[session.names[n]] = d
  /\ Asks(n, d)
  /\ UNCHANGED <<flavor, stable, working, session, mishaps>>

AddReplaces(n, d) ==
  /\ Adding /\ Writable /\ Known(n)
  /\ working[session.names[n]] # d
  /\ working' = [working EXCEPT ![session.names[n]] = d]
  /\ session' = [session EXCEPT !.touched = Touch(n)]
  /\ Asks(n, d)
  /\ UNCHANGED <<flavor, stable, mishaps>>

AddReplaceFails(n) ==
  /\ Adding /\ Writable /\ Known(n)
  /\ AfterError([working EXCEPT ![session.names[n]] = Torn], "add")

(* Slip: insert does not mark the map as modified.                         *)
AddNewUnmarked(n, d) ==
  /\ Adding /\ Writable /\ ~Known(n)
  /\ \E s \in Numbers :
       /\ IsNextStream(s)
       /\ working' = With(working, s, d)
       /\ session' = [session EXCEPT !.names = With(@, n, s), !.touched = Touch(n)]
  /\ Asks(n, d)
  /\ UNCHANGED <<flavor, stable, mishaps>>

AddNew(n, d) ==
  /\ Adding /\ Writable /\ ~Known(n)
  /\ \E s \in Numbers :
       /\ IsNextStream(s)
       /\ working' = With(working, s, d)
       /\ session' = [session EXCEPT !.names = With(@, n, s),
                                     !.modified = TRUE, !.touched = Touch(n)]
  /\ Asks(n, d)
  /\ UNCHANGED <<flavor, stable, mishaps>>

(* Slips: the name is inserted before the contents are written; the stream *)
(* is taken back but its name is not.                                      *)
AddNewNamedFirst(n) ==
  /\ Adding /\ Writable /\ ~Known(n)
  /\ \E s \in Numbers :
       /\ IsNextStream(s)
       /\ working' = With(working, s, Torn)
       /\ session' = [session EXCEPT !.names = With(@, n, s), !.modified = TRUE]
  /\ mishaps' = mishaps \cup {"add"}
  /\ UNCHANGED <<flavor, stable, job>>

AddNewDangling(n) ==
  /\ Adding /\ Writable /\ ~Known(n)
  /\ \E s \in Numbers :
       /\ IsNextStream(s)
       /\ session' = [session EXCEPT !.names = With(@, n, s), !.modified = TRUE]
  /\ mishaps' = mishaps \cup {"add"}
  /\ UNCHANGED <<flavor, stable, working, job>>

AddNewFails(n) ==
  /\ Adding /\ Writable /\ ~Known(n)
  /\ \E s \in Numbers :
       IsNextStream(s) /\ AfterError(With(working, s, Torn), "add")

(***************************************************************************)
(* flush_all, and Msf::commit.                                             *)
(***************************************************************************)
Flushed == job' = IF AddSrcRuns THEN [job EXCEPT !.flushed = TRUE] ELSE job

FlushAll ==
  /\ Writable /\ session.modified
  /\ working' = [working EXCEPT ![PdbStream] = session.names]
  /\ session' = [session EXCEPT !.modified = FALSE]
  /\ Flushed
  /\ UNCHANGED <<flavor, stable, mishaps>>

FlushNothing ==
  /\ Writable /\ ~session.modified
  /\ Flushed
  /\ UNCHANGED <<flavor, stable, working, session, mishaps>>

FlushFails ==
  /\ Writable /\ session.modified
  /\ AfterError([working EXCEPT ![PdbStream] = Torn], "flush")

(* Slip: the container is committed without the map.                       *)
CommitWithoutFlush ==
  /\ Writable
  /\ Store!Commit
  /\ IF AddSrcRuns THEN EndWith("ok") ELSE UNCHANGED <<session, job>>
  /\ mishaps' = mishaps \cup (IF session.modified THEN {"unflushed"} ELSE {})
  /\ UNCHANGED flavor

Commit ==
  /\ Writable /\ (AddSrcRuns => job.flushed)
  /\ Store!Commit
  /\ IF AddSrcRuns THEN EndWith("ok") ELSE UNCHANGED <<session, job>>
  /\ mishaps' = mishaps \cup (IF session.modified THEN {"unflushed"} ELSE {})
  /\ UNCHANGED flavor

(***************************************************************************)
(* Pdb::names, through get_or_init_err: the cell is filled once; an error  *)
(* leaves it empty.                                                        *)
(***************************************************************************)
ReadNames ==
  IF Known(NamesStream) THEN working[session.names[NamesStream]] ELSE EmptyNames

(* Slip: a stream that does not parse leaves the empty table in the cell.  *)
LoadNamesOrDefault ==
  /\ IsOpen /\ session.namesCell = Empty
  /\ session' = [session EXCEPT !.touched = FALSE, !.namesCell =
                   IF ReadNames \in Malformed \cup {Torn} THEN EmptyNames ELSE ReadNames]
  /\ UNCHANGED <<flavor, stable, working, job, mishaps>>

LoadNames ==
  /\ IsOpen /\ session.namesCell = Empty
  /\ ReadNames \notin Malformed \cup {Torn}
  /\ session' = [session EXCEPT !.namesCell = ReadNames, !.touched = FALSE]
  /\ UNCHANGED <<flavor, stable, working, job, mishaps>>

(***************************************************************************)
(* A linker has written the file, or pdz-encode has compressed it.         *)
(***************************************************************************)
FirstStreams ==
  { [s \in {PdbStream} |-> [n \in {} |-> s]],
    [s \in {PdbStream, FirstStream} |->
       IF s = PdbStream THEN [n \in {NamesStream} |-> FirstStream] ELSE EmptyNames] }

Init ==
  /\ flavor \in {"Pdb", "Pdz"}
  /\ stable \in FirstStreams
  /\ working = stable
  /\ session = Closed
  /\ job = Closed
  /\ mishaps = {}

Next ==
  \/ OpenLibrary \/ OpenAddSrc \/ Drop
  \/ \E n \in Names, d \in Contents :
       AddUnchanged(n, d) \/ AddReplaces(n, d) \/ AddNew(n, d)
  \/ \E n \in Names : AddReplaceFails(n) \/ AddNewFails(n)
  \/ FlushAll \/ FlushNothing \/ FlushFails
  \/ Commit
  \/ LoadNames

Spec == Init /\ [][Next]_vars

(***************************************************************************)
(* Properties.                                                             *)
(***************************************************************************)

(* Every named stream exists, no two names share one, and none is the map  *)
(* itself, in the editor and on disk: new_stream, the map of the editor    *)
(* and the map that flush_all writes never disagree, whatever fails.       *)
Resolves(streams, map) ==
  /\ Image(map) \subseteq DOMAIN streams \ {PdbStream}
  /\ \A m, n \in DOMAIN map : map[m] = map[n] => m = n

NamesResolve ==
  /\ stable[PdbStream] # Torn => Resolves(stable, stable[PdbStream])
  /\ IsOpen => /\ Resolves(working, session.names)
               /\ working[PdbStream] # Torn => Resolves(working, working[PdbStream])

(* A stream without a name comes only from an add that failed, a flush     *)
(* that failed, or a commit between an add and its flush (the order of     *)
(* the calls in add_or_replace_named_stream and in add-src).               *)
NoOrphans ==
  mishaps = {} =>
    /\ stable[PdbStream] # Torn
    /\ DOMAIN stable = {PdbStream} \cup Image(stable[PdbStream])
    /\ IsOpen => DOMAIN working = {PdbStream} \cup Image(session.names)

(* add-src embeds all the files it was given or, failing at any point,     *)
(* none: every other named stream keeps its contents and the file on disk  *)
(* never shows a part of the list.                                         *)
AddSrcAllOrNothing ==
  job # Closed =>
    /\ stable[PdbStream] # Torn
    /\ View(stable, stable[PdbStream]) =
         IF job.exit = "ok"
         THEN [n \in DOMAIN job.before \cup DOMAIN job.asked |->
                 IF n \in DOMAIN job.asked THEN job.asked[n] ELSE job.before[n]]
         ELSE job.before

(* Pdb::names answers with what the Names Stream holds, read when it was   *)
(* first asked; it is out of date only if add_or_replace_named_stream has  *)
(* since changed that stream, and a failing load is never remembered.      *)
NamesCurrent ==
  IsOpen /\ session.namesCell # Empty /\ ~session.touched /\ "add" \notin mishaps =>
    session.namesCell = ReadNames

(* The named streams as whoever opens the file finds them, as the open Pdb *)
(* shows them, and the names in the container's map.                       *)
Durable == IF stable[PdbStream] = Torn THEN Torn ELSE View(stable, stable[PdbStream])

Current == IF IsOpen THEN View(working, session.names) ELSE Closed

Listed ==
  IF ~IsOpen THEN {}
  ELSE IF working[PdbStream] = Torn THEN Torn ELSE DOMAIN working[PdbStream]

(* The named streams behave as their documentation describes them.         *)
Named ==
  INSTANCE NamedStore WITH
    Unreadable <- Torn, durable <- Durable, current <- Current, listed <- Listed

ImplementsNamedStore == Named!Spec
=============================================================================
