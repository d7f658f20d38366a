--------------------------- MODULE PdbSessionProofs ---------------------------
(***************************************************************************)
(* Proofs about PdbSession: its safety properties, and that it implements  *)
(* NamedStore, for every set of names and contents and every number of     *)
(* streams.  The first part shows that IInv is an inductive invariant, one *)
(* lemma to an action; the second that every step is one of NamedStore.    *)
(* The third is about McpServer, the server beside the session.            *)
(***************************************************************************)
EXTENDS MCPdbSession, TLAPS

(* A table of streams: stream 1 holds a map, or the ruins of one.          *)
Table(t) ==
  /\ PdbStream \in DOMAIN t
  /\ t[PdbStream] \in Maps \cup {Torn}
  /\ \A s \in DOMAIN t \ {PdbStream} : t[s] \in Contents \cup {Torn}

(* The values of the variables that the other parts need to know.          *)
TypeOK ==
  /\ Table(stable) /\ Table(working)
  /\ session \in Sessions \cup {Closed}

(* The map in the container is a part of the editor's map, and all of it   *)
(* unless the editor's is marked as modified.                              *)
MapKept ==
  IsOpen =>
    /\ working[PdbStream] # Torn =>
         \A n \in DOMAIN working[PdbStream] :
           Known(n) /\ session.names[n] = working[PdbStream][n]
    /\ ~session.modified => working[PdbStream] = session.names

(* What is known of an add-src.                                            *)
Jobs == [before : Views, asked : Views, flushed : BOOLEAN, exit : {"running", "ok", "error"}]

(* The file with the contents that were asked for laid over it.            *)
Overlaid(j) ==
  [n \in DOMAIN j.before \cup DOMAIN j.asked |->
     IF n \in DOMAIN j.asked THEN j.asked[n] ELSE j.before[n]]

(* While add-src runs the editor shows what was asked for over what there  *)
(* was, the disk what there was, and after its flush nothing is left to    *)
(* flush.                                                                  *)
JobKept ==
  /\ IsOpen /\ job # Closed => AddSrcRuns
  /\ AddSrcRuns =>
       /\ job \in Jobs /\ job.exit = "running"
       /\ job.flushed => ~session.modified
       /\ View(working, session.names) = Overlaid(job)
       /\ stable[PdbStream] # Torn
       /\ View(stable, stable[PdbStream]) = job.before

(* The inductive invariant. MapKept is what connects the three maps:       *)
(* without it a commit after a flush that did nothing could lose a name.   *)
(* JobKept is AddSrcAllOrNothing before the commit.                        *)
IInv ==
  TypeOK /\ NamesResolve /\ MapKept /\ JobKept /\ NoOrphans /\ AddSrcAllOrNothing /\ NamesCurrent

(* A map of names is a function from some of the names to stream numbers.  *)
LEMMA MapsShape ==
  ASSUME NEW m
  PROVE  m \in Maps <=> DOMAIN m \subseteq Names /\ m \in [DOMAIN m -> Numbers]
BY DEF Maps

(* What a map shows is a function from some of the names to contents.      *)
LEMMA ViewsShape ==
  ASSUME NEW v
  PROVE  v \in Views <=> /\ DOMAIN v \subseteq Names
                          /\ v \in [DOMAIN v -> Contents \cup {Torn}]
BY DEF Views

(* Inserting a name (NamedStreams::insert) gives a map again.              *)
LEMMA WithInMaps ==
  ASSUME NEW m \in Maps, NEW n \in Names, NEW s \in Numbers
  PROVE  With(m, n, s) \in Maps
<1>1. DOMAIN m \subseteq Names /\ m \in [DOMAIN m -> Numbers]
  BY MapsShape
<1>2. With(m, n, s) \in [DOMAIN m \cup {n} -> Numbers]
  BY <1>1 DEF With
<1>. QED  BY <1>1, <1>2, MapsShape

(* What a map shows of a table of streams, if every stream it names        *)
(* exists.                                                                 *)
LEMMA ViewInViews ==
  ASSUME NEW t, NEW m \in Maps, Table(t), Image(m) \subseteq DOMAIN t \ {PdbStream}
  PROVE  View(t, m) \in Views
<1>1. DOMAIN m \subseteq Names
  BY MapsShape
<1>2. \A n \in DOMAIN m : t[m[n]] \in Contents \cup {Torn}
  BY DEF Table, Image
<1>. QED  BY <1>1, <1>2, ViewsShape DEF View

-----------------------------------------------------------------------------
(* The file that a linker, or pdz-encode, has written satisfies the        *)
(* invariant.                                                              *)
LEMMA InitInvariant == Init => IInv
<1> SUFFICES ASSUME Init  PROVE IInv
  OBVIOUS
<1>1. PICK map : /\ map \in Maps /\ stable[PdbStream] = map
                 /\ DOMAIN stable = {PdbStream} \cup Image(map)
                 /\ \A m, n \in DOMAIN map : map[m] = map[n] => m = n
                 /\ Image(map) \subseteq DOMAIN stable \ {PdbStream}
                 /\ \A s \in DOMAIN stable \ {PdbStream} : stable[s] \in Contents
  <2>1. CASE stable = [s \in {PdbStream} |-> [n \in {} |-> s]]
    <3>1. [n \in {} |-> PdbStream] \in Maps
      BY MapsShape
    <3>. QED  BY <2>1, <3>1 DEF Image
  <2>2. CASE stable = [s \in {PdbStream, FirstStream} |->
               IF s = PdbStream THEN [n \in {NamesStream} |-> FirstStream] ELSE EmptyNames]
    <3>1. [n \in {NamesStream} |-> FirstStream] \in Maps
      BY MapsShape, ContentsAssumption, StreamsAssumption DEF Numbers
    <3>2. PdbStream # FirstStream
      BY StreamsAssumption DEF PdbStream
    <3>3. stable[PdbStream] = [n \in {NamesStream} |-> FirstStream]
      BY <2>2
    <3>4. Image([n \in {NamesStream} |-> FirstStream]) = {FirstStream}
      BY DEF Image
    <3>. QED  BY <2>2, <3>1, <3>2, <3>3, <3>4, ContentsAssumption
  <2>. QED  BY <2>1, <2>2 DEF Init, FirstStreams
<1>2. stable[PdbStream] # Torn
  BY <1>1, ClosedAssumption
<1>. ~IsOpen /\ job = Closed /\ working = stable /\ ~AddSrcRuns
  BY DEF Init, IsOpen, AddSrcRuns
<1>3. TypeOK
  BY <1>1 DEF TypeOK, Table, Init
<1>4. NamesResolve
  BY <1>1 DEF NamesResolve, Resolves
<1>5. MapKept /\ JobKept /\ AddSrcAllOrNothing /\ NamesCurrent
  BY DEF MapKept, JobKept, AddSrcAllOrNothing, NamesCurrent
<1>6. NoOrphans
  BY <1>1, <1>2 DEF NoOrphans
<1>. QED  BY <1>3, <1>4, <1>5, <1>6 DEF IInv

(* Opening gives a Pdb with the map that is on disk and an empty cache.    *)
LEMMA NewSessionShape ==
  ASSUME TypeOK, stable[PdbStream] # Torn,
         NEW client \in {"library", "add-src"}, NEW mode \in {"Read", "ReadWrite"}
  PROVE  /\ NewSession(client, mode) \in Sessions
         /\ NewSession(client, mode).client = client
         /\ NewSession(client, mode).names = stable[PdbStream]
         /\ NewSession(client, mode).modified = FALSE
         /\ NewSession(client, mode).namesCell = Empty
BY DEF TypeOK, Table, NewSession, Sessions

(* Opening (from_file_access) preserves the invariant: the map that is     *)
(* read becomes the map of the editor, and what it shows is what add-src   *)
(* starts from.                                                            *)
LEMMA OpenStep ==
  ASSUME IInv, NEW client \in {"library", "add-src"},
         NEW mode \in {"Read", "ReadWrite"}, Open(client, mode)
  PROVE  IInv'
<1>. DEFINE map == stable[PdbStream]
<1>1. /\ session' \in Sessions /\ session'.client = client /\ session'.names = map
      /\ session'.modified = FALSE /\ session'.namesCell = Empty
  BY NewSessionShape DEF IInv, Open
<1>2. map \in Maps /\ map # Torn /\ working' = stable /\ stable' = stable /\ mishaps' = mishaps
  BY DEF IInv, TypeOK, Table, Open, Store!Rollback
<1>3. Resolves(stable, map)
  BY <1>2 DEF IInv, NamesResolve
<1>4. View(stable, map) \in Views
  BY <1>2, <1>3, ViewInViews DEF IInv, TypeOK, Resolves
<1>5. TypeOK'
  BY <1>1, <1>2 DEF IInv, TypeOK, Table
<1>6. NamesResolve'
  BY <1>1, <1>2, <1>3 DEF NamesResolve, Resolves, Image
<1>7. MapKept'
  BY <1>1, <1>2 DEF MapKept, Known
<1>8. JobKept' /\ AddSrcAllOrNothing'
  <2>1. CASE client = "library"
    BY <2>1, <1>1 DEF Open, JobKept, AddSrcRuns, AddSrcAllOrNothing
  <2>2. CASE client = "add-src"
    <3>1. job' = NewJob
      BY <2>2 DEF Open
    <3>2. [n \in {} |-> Torn] \in Views
      BY ViewsShape
    <3>3. job' \in Jobs /\ job'.exit = "running" /\ job'.before = View(stable, map)
      BY <3>1, <3>2, <1>4 DEF NewJob, Jobs
    <3>4. Overlaid(job') = View(stable, map)
      BY <3>1 DEF NewJob, Overlaid, View
    <3>5. JobKept'
      BY <3>3, <3>4, <2>2, <1>1, <1>2 DEF JobKept, AddSrcRuns
    <3>6. AddSrcAllOrNothing'
      BY <3>3, <1>2 DEF AddSrcAllOrNothing
    <3>. QED  BY <3>5, <3>6
  <2>. QED  BY <2>1, <2>2
<1>9. NoOrphans'
  BY <1>1, <1>2 DEF IInv, NoOrphans, Image
<1>10. NamesCurrent'
  BY <1>1 DEF NamesCurrent
<1>. QED  BY <1>5, <1>6, <1>7, <1>8, <1>9, <1>10 DEF IInv

(* What the invariant says of an open Pdb: every name leads to a stream    *)
(* other than the map itself.                                              *)
LEMMA OpenFacts ==
  ASSUME IInv, IsOpen
  PROVE  /\ session \in Sessions
         /\ session.names \in Maps
         /\ session.names \in [DOMAIN session.names -> Numbers]
         /\ DOMAIN session.names \subseteq Names
         /\ session.names # Torn
         /\ Table(working) /\ Table(stable)
         /\ Resolves(working, session.names)
         /\ \A n \in DOMAIN session.names :
              /\ session.names[n] \in DOMAIN working
              /\ session.names[n] # PdbStream
         /\ ~AddSrcRuns => job = Closed
<1>1. session \in Sessions /\ session.names \in Maps
  BY DEF IInv, TypeOK, IsOpen, Sessions
<1>2. Resolves(working, session.names)
  BY DEF IInv, NamesResolve
<1>. QED  BY <1>1, <1>2, MapsShape, ClosedAssumption
          DEF IInv, TypeOK, JobKept, Resolves, Image

(* Closing without a commit, dying and failing commits preserve the        *)
(* invariant: the container goes back to the disk, and an add-src that is  *)
(* cut off has done nothing.                                               *)
LEMMA DropStep ==
  ASSUME IInv, Drop
  PROVE  IInv'
<1>1. session' = Closed /\ working' = stable /\ stable' = stable /\ mishaps' = mishaps
  BY DEF Drop, EndWith, Store!Rollback
<1>2. ~IsOpen' /\ ~AddSrcRuns'
  BY <1>1 DEF IsOpen, AddSrcRuns
<1>3. TypeOK' /\ NamesResolve' /\ MapKept' /\ NoOrphans' /\ NamesCurrent'
  BY <1>1, <1>2 DEF IInv, TypeOK, Table, NamesResolve, Resolves, Image, MapKept,
                    NoOrphans, NamesCurrent
<1>4. JobKept'
  BY <1>2 DEF JobKept
<1>5. AddSrcAllOrNothing'
  <2>1. CASE AddSrcRuns
    <3>1. job' = [job EXCEPT !.exit = "error"]
      BY <2>1 DEF Drop, EndWith
    <3>2. job'.exit = "error" /\ job'.before = job.before
      BY <3>1, <2>1 DEF IInv, JobKept, Jobs
    <3>. QED  BY <3>2, <2>1, <1>1 DEF IInv, JobKept, AddSrcAllOrNothing, View
  <2>2. CASE ~AddSrcRuns
    BY <2>2, OpenFacts DEF Drop, EndWith, AddSrcAllOrNothing
  <2>. QED  BY <2>1, <2>2
<1>. QED  BY <1>3, <1>4, <1>5 DEF IInv

-----------------------------------------------------------------------------
(* New contents for the stream of one name leave the map, the other        *)
(* streams and the agreement of the map with the container alone.          *)
LEMMA StreamReplaced ==
  ASSUME IInv, IsOpen, NEW n \in DOMAIN session.names, NEW d \in Contents \cup {Torn},
         working' = [working EXCEPT ![session.names[n]] = d],
         stable' = stable,
         session' \in Sessions,
         session'.names = session.names, session'.modified = session.modified
  PROVE  /\ TypeOK' /\ NamesResolve' /\ MapKept'
         /\ DOMAIN working' = DOMAIN working
         /\ \A t \in DOMAIN working : t # session.names[n] => working'[t] = working[t]
         /\ working'[session.names[n]] = d
         /\ working'[PdbStream] = working[PdbStream]
<1>1. /\ session.names[n] \in DOMAIN working /\ session.names[n] # PdbStream
      /\ PdbStream \in DOMAIN working
  BY OpenFacts DEF Table
<1>2. /\ DOMAIN working' = DOMAIN working
      /\ \A t \in DOMAIN working : t # session.names[n] => working'[t] = working[t]
      /\ working'[session.names[n]] = d
      /\ working'[PdbStream] = working[PdbStream]
  BY <1>1
<1>3. TypeOK'
  BY <1>2 DEF IInv, TypeOK, Table
<1>4. NamesResolve'
  BY <1>2 DEF IInv, NamesResolve, Resolves, Image, IsOpen
<1>5. MapKept'
  BY <1>2 DEF IInv, MapKept, Known, IsOpen
<1>. QED  BY <1>2, <1>3, <1>4, <1>5

(* A new stream (Msf::new_stream), named or not, leaves every stream that  *)
(* there was alone, and no other name leads to it.                         *)
LEMMA StreamAdded ==
  ASSUME IInv, IsOpen, NEW s \in Numbers, s \notin DOMAIN working,
         NEW d \in Contents \cup {Torn},
         working' = With(working, s, d),
         stable' = stable,
         session' \in Sessions,
         \/ session'.names = session.names /\ session'.modified = session.modified
         \/ \E n \in Names \ DOMAIN session.names :
              session'.names = With(session.names, n, s) /\ session'.modified = TRUE
  PROVE  /\ TypeOK' /\ NamesResolve' /\ MapKept'
         /\ DOMAIN working' = DOMAIN working \cup {s}
         /\ \A t \in DOMAIN working : working'[t] = working[t]
         /\ working'[s] = d
         /\ working'[PdbStream] = working[PdbStream]
<1>1. /\ DOMAIN working' = DOMAIN working \cup {s}
      /\ \A t \in DOMAIN working : working'[t] = working[t]
      /\ working'[s] = d
      /\ PdbStream \in DOMAIN working
      /\ working'[PdbStream] = working[PdbStream]
  BY OpenFacts DEF Table, With
<1>2. TypeOK'
  BY <1>1 DEF IInv, TypeOK, Table
<1>3. /\ working[PdbStream] # Torn => Resolves(working, working[PdbStream])
      /\ Resolves(working, session.names)
      /\ stable[PdbStream] # Torn => Resolves(stable, stable[PdbStream])
  BY DEF IInv, NamesResolve
<1>4. working'[PdbStream] # Torn => Resolves(working, working[PdbStream])'
  BY <1>1, <1>3 DEF Resolves, Image
<1>5. Resolves(working, session.names)' /\ MapKept'
  <2>1. CASE session'.names = session.names /\ session'.modified = session.modified
    BY <2>1, <1>1, <1>3 DEF IInv, MapKept, Known, IsOpen, Resolves, Image
  <2>2. CASE \E n \in Names \ DOMAIN session.names :
               session'.names = With(session.names, n, s) /\ session'.modified = TRUE
    <3>1. PICK n \in Names \ DOMAIN session.names :
            session'.names = With(session.names, n, s) /\ session'.modified = TRUE
      BY <2>2
    <3>2. /\ DOMAIN session'.names = DOMAIN session.names \cup {n}
          /\ session'.names[n] = s
          /\ \A m \in DOMAIN session.names : session'.names[m] = session.names[m]
      BY <3>1 DEF With
    <3>3. Resolves(working, session.names)'
      BY <3>2, <1>1, <1>3 DEF Resolves, Image
    <3>4. MapKept'
      BY <3>1, <3>2, <1>1 DEF IInv, MapKept, Known, IsOpen
    <3>. QED  BY <3>3, <3>4
  <2>. QED  BY <2>1, <2>2
<1>6. NamesResolve'
  BY <1>3, <1>4, <1>5 DEF NamesResolve, Resolves, Image
<1>. QED  BY <1>1, <1>2, <1>5, <1>6

(* A call of add_or_replace_named_stream by add-src shows one name with    *)
(* the contents that were asked for and nothing else changed.              *)
LEMMA JobAsks ==
  ASSUME IInv, IsOpen, NEW n \in Names, NEW d \in Contents, Adding, Asks(n, d),
         stable' = stable,
         session' \in Sessions, session'.client = session.client,
         session.modified => session'.modified,
         DOMAIN session'.names = DOMAIN session.names \cup {n},
         working'[session'.names[n]] = d,
         \A m \in DOMAIN session.names :
           m # n => working'[session'.names[m]] = working[session.names[m]]
  PROVE  JobKept' /\ AddSrcAllOrNothing'
<1>1. CASE ~AddSrcRuns
  <2>1. job = Closed /\ job' = Closed
    BY <1>1, OpenFacts DEF Asks
  <2>. QED  BY <2>1, <1>1 DEF JobKept, AddSrcAllOrNothing, AddSrcRuns, IsOpen
<1>2. CASE AddSrcRuns
  <2>1. /\ job \in Jobs /\ job.exit = "running" /\ ~job.flushed
        /\ View(working, session.names) = Overlaid(job)
        /\ stable[PdbStream] # Torn /\ View(stable, stable[PdbStream]) = job.before
    BY <1>2 DEF IInv, JobKept, Adding
  <2>2. job' = [job EXCEPT !.asked = With(job.asked, n, d)]
    BY <1>2 DEF Asks
  <2>3. job.asked \in Views /\ DOMAIN job.asked \subseteq Names
    BY <2>1, ViewsShape DEF Jobs
  <2>4. With(job.asked, n, d) \in Views
    <3>1. With(job.asked, n, d) \in [DOMAIN job.asked \cup {n} -> Contents \cup {Torn}]
      BY <2>3, ViewsShape DEF With
    <3>. QED  BY <3>1, <2>3, ViewsShape
  <2>5. /\ job' \in Jobs /\ job'.exit = "running" /\ ~job'.flushed
        /\ job'.before = job.before /\ job'.asked = With(job.asked, n, d)
    BY <2>1, <2>2, <2>4 DEF Jobs
  <2>6. /\ DOMAIN session.names = DOMAIN job.before \cup DOMAIN job.asked
        /\ \A m \in DOMAIN session.names :
             working[session.names[m]] =
               IF m \in DOMAIN job.asked THEN job.asked[m] ELSE job.before[m]
    BY <2>1 DEF View, Overlaid
  <2>7. /\ DOMAIN job'.asked = DOMAIN job.asked \cup {n} /\ job'.asked[n] = d
        /\ \A m \in DOMAIN job.asked : m # n => job'.asked[m] = job.asked[m]
    BY <2>5 DEF With
  <2>8. DOMAIN session'.names = DOMAIN job'.before \cup DOMAIN job'.asked
    BY <2>5, <2>6, <2>7
  <2>9. \A m \in DOMAIN session'.names :
          working'[session'.names[m]] =
            IF m \in DOMAIN job'.asked THEN job'.asked[m] ELSE job'.before[m]
    BY <2>5, <2>6, <2>7
  <2>10. View(working', session'.names) = Overlaid(job')
    BY <2>8, <2>9 DEF View, Overlaid
  <2>11. JobKept'
    BY <1>2, <2>1, <2>5, <2>10 DEF JobKept, AddSrcRuns, View, Overlaid
  <2>12. AddSrcAllOrNothing'
    BY <2>1, <2>5 DEF AddSrcAllOrNothing, View
  <2>. QED  BY <2>11, <2>12
<1>. QED  BY <1>1, <1>2

(* Adding what is there already preserves the invariant.                   *)
LEMMA AddUnchangedStep ==
  ASSUME IInv, NEW n \in Names, NEW d \in Contents, AddUnchanged(n, d)
  PROVE  IInv'
<1>1. IsOpen /\ Known(n) /\ working[session.names[n]] = d
  BY DEF AddUnchanged, Adding
<1>2. UNCHANGED <<stable, working, session, mishaps>>
  BY DEF AddUnchanged
<1>3. TypeOK' /\ NamesResolve' /\ MapKept' /\ NoOrphans' /\ NamesCurrent'
  BY <1>2 DEF IInv, TypeOK, Table, NamesResolve, Resolves, Image, MapKept, Known, NoOrphans,
              NamesCurrent, IsOpen, ReadNames
<1>4. JobKept' /\ AddSrcAllOrNothing'
  BY <1>1, <1>2, JobAsks, OpenFacts DEF AddUnchanged, Known
<1>. QED  BY <1>3, <1>4 DEF IInv

(* Replacing a named stream preserves the invariant.                       *)
LEMMA AddReplacesStep ==
  ASSUME IInv, NEW n \in Names, NEW d \in Contents, AddReplaces(n, d)
  PROVE  IInv'
<1>1. IsOpen /\ n \in DOMAIN session.names
  BY DEF AddReplaces, Adding, Known
<1>2. /\ working' = [working EXCEPT ![session.names[n]] = d]
      /\ stable' = stable /\ mishaps' = mishaps
      /\ session' = [session EXCEPT !.touched = session.touched \/ n = NamesStream]
  BY DEF AddReplaces, Touch
<1>3. /\ session' \in Sessions /\ session'.names = session.names
      /\ session'.client = session.client /\ session'.modified = session.modified
      /\ session'.namesCell = session.namesCell
      /\ session'.touched = (session.touched \/ n = NamesStream)
  BY <1>1, <1>2, OpenFacts DEF Sessions
<1>4. /\ TypeOK' /\ NamesResolve' /\ MapKept'
      /\ DOMAIN working' = DOMAIN working
      /\ \A t \in DOMAIN working : t # session.names[n] => working'[t] = working[t]
      /\ working'[session.names[n]] = d
      /\ working'[PdbStream] = working[PdbStream]
  BY <1>1, <1>2, <1>3, StreamReplaced
<1>5. \A m \in DOMAIN session.names :
        m # n => working'[session.names[m]] = working[session.names[m]]
  BY <1>1, <1>4, OpenFacts DEF Resolves
<1>6. JobKept' /\ AddSrcAllOrNothing'
  BY <1>1, <1>2, <1>3, <1>4, <1>5, JobAsks DEF AddReplaces
<1>7. NoOrphans'
  BY <1>1, <1>2, <1>3, <1>4 DEF IInv, NoOrphans, Image, IsOpen
<1>8. NamesCurrent'
  BY <1>1, <1>2, <1>3, <1>5 DEF IInv, NamesCurrent, ReadNames, Known, IsOpen
<1>. QED  BY <1>4, <1>6, <1>7, <1>8 DEF IInv

(* Adding a named stream preserves the invariant: the stream is written    *)
(* before its name is inserted.                                            *)
LEMMA AddNewStep ==
  ASSUME IInv, NEW n \in Names, NEW d \in Contents, AddNew(n, d)
  PROVE  IInv'
<1>1. IsOpen /\ n \in Names \ DOMAIN session.names
  BY DEF AddNew, Adding, Known
<1>2. PICK s \in Numbers :
        /\ s \notin DOMAIN working /\ working' = With(working, s, d)
        /\ session' = [session EXCEPT !.names = With(session.names, n, s), !.modified = TRUE,
                                      !.touched = session.touched \/ n = NamesStream]
  BY DEF AddNew, IsNextStream, Touch
<1>3. stable' = stable /\ mishaps' = mishaps
  BY DEF AddNew
<1>4. With(session.names, n, s) \in Maps
  BY <1>1, WithInMaps, OpenFacts
<1>5. /\ session' \in Sessions /\ session'.names = With(session.names, n, s)
      /\ session'.client = session.client /\ session'.modified = TRUE
      /\ session'.namesCell = session.namesCell
      /\ session'.touched = (session.touched \/ n = NamesStream)
  BY <1>1, <1>2, <1>4, OpenFacts DEF Sessions
<1>6. /\ TypeOK' /\ NamesResolve' /\ MapKept'
      /\ DOMAIN working' = DOMAIN working \cup {s}
      /\ \A t \in DOMAIN working : working'[t] = working[t]
      /\ working'[s] = d
      /\ working'[PdbStream] = working[PdbStream]
  BY <1>1, <1>2, <1>3, <1>5, StreamAdded
<1>7. /\ DOMAIN session'.names = DOMAIN session.names \cup {n}
      /\ session'.names[n] = s
      /\ \A m \in DOMAIN session.names : session'.names[m] = session.names[m]
  BY <1>1, <1>5 DEF With
<1>8. \A m \in DOMAIN session.names :
        working'[session'.names[m]] = working[session.names[m]]
  BY <1>1, <1>6, <1>7, OpenFacts
<1>9. JobKept' /\ AddSrcAllOrNothing'
  BY <1>1, <1>3, <1>5, <1>6, <1>7, <1>8, JobAsks DEF AddNew
<1>10. NoOrphans'
  BY <1>1, <1>3, <1>6, <1>7 DEF IInv, NoOrphans, Image, IsOpen
<1>11. NamesCurrent'
  BY <1>1, <1>3, <1>5, <1>7, <1>8 DEF IInv, NamesCurrent, ReadNames, Known, IsOpen
<1>. QED  BY <1>6, <1>9, <1>10, <1>11 DEF IInv

(* A replacement that fails half way preserves the invariant.              *)
LEMMA AddReplaceFailsStep ==
  ASSUME IInv, NEW n \in Names, AddReplaceFails(n)
  PROVE  IInv'
<1>1. CASE AddSrcRuns
  BY <1>1, DropStep DEF AddReplaceFails, AfterError
<1>2. CASE ~AddSrcRuns
  <2>1. IsOpen /\ n \in DOMAIN session.names
    BY DEF AddReplaceFails, Adding, Known
  <2>2. /\ working' = [working EXCEPT ![session.names[n]] = Torn]
        /\ mishaps' = mishaps \cup {"add"}
        /\ stable' = stable /\ session' = session /\ job' = job
    BY <1>2 DEF AddReplaceFails, AfterError
  <2>3. TypeOK' /\ NamesResolve' /\ MapKept'
    BY <2>1, <2>2, StreamReplaced, OpenFacts
  <2>4. JobKept' /\ AddSrcAllOrNothing'
    BY <1>2, <2>1, <2>2, OpenFacts DEF JobKept, AddSrcAllOrNothing, AddSrcRuns, IsOpen
  <2>5. NoOrphans' /\ NamesCurrent'
    BY <2>2 DEF NoOrphans, NamesCurrent
  <2>. QED  BY <2>3, <2>4, <2>5 DEF IInv
<1>. QED  BY <1>1, <1>2

(* An addition that fails half way preserves the invariant: it leaves a    *)
(* stream without a name, and records that it did.                         *)
LEMMA AddNewFailsStep ==
  ASSUME IInv, NEW n \in Names, AddNewFails(n)
  PROVE  IInv'
<1>1. CASE AddSrcRuns
  BY <1>1, DropStep DEF AddNewFails, AfterError
<1>2. CASE ~AddSrcRuns
  <2>1. IsOpen
    BY DEF AddNewFails, Adding
  <2>2. PICK s \in Numbers :
          /\ s \notin DOMAIN working
          /\ working' = With(working, s, Torn)
          /\ mishaps' = mishaps \cup {"add"}
          /\ stable' = stable /\ session' = session /\ job' = job
    BY <1>2 DEF AddNewFails, AfterError, IsNextStream
  <2>3. TypeOK' /\ NamesResolve' /\ MapKept'
    BY <2>1, <2>2, StreamAdded, OpenFacts
  <2>4. JobKept' /\ AddSrcAllOrNothing'
    BY <1>2, <2>1, <2>2, OpenFacts DEF JobKept, AddSrcAllOrNothing, AddSrcRuns, IsOpen
  <2>5. NoOrphans' /\ NamesCurrent'
    BY <2>2 DEF NoOrphans, NamesCurrent
  <2>. QED  BY <2>3, <2>4, <2>5 DEF IInv
<1>. QED  BY <1>1, <1>2

-----------------------------------------------------------------------------
(* flush_all preserves the invariant when the map has changed: the         *)
(* container then holds the map of the editor.                             *)
LEMMA FlushAllStep ==
  ASSUME IInv, FlushAll
  PROVE  IInv'
<1>1. IsOpen
  BY DEF FlushAll, Writable
<1>2. /\ working' = [working EXCEPT ![PdbStream] = session.names]
      /\ session' = [session EXCEPT !.modified = FALSE]
      /\ stable' = stable /\ mishaps' = mishaps
  BY DEF FlushAll
<1>3. /\ DOMAIN working' = DOMAIN working
      /\ working'[PdbStream] = session.names
      /\ \A s \in DOMAIN working \ {PdbStream} : working'[s] = working[s]
  BY <1>1, <1>2, OpenFacts DEF Table
<1>4. /\ session' \in Sessions /\ session'.names = session.names
      /\ session'.client = session.client /\ session'.modified = FALSE
      /\ session'.namesCell = session.namesCell /\ session'.touched = session.touched
  BY <1>1, <1>2, OpenFacts DEF Sessions
<1>5. \A m \in DOMAIN session.names : working'[session.names[m]] = working[session.names[m]]
  BY <1>1, <1>3, OpenFacts
<1>6. TypeOK'
  BY <1>1, <1>2, <1>3, <1>4, OpenFacts DEF IInv, TypeOK, Table
<1>7. NamesResolve'
  BY <1>1, <1>2, <1>3, <1>4, OpenFacts DEF IInv, NamesResolve, Resolves, Image
<1>8. MapKept'
  BY <1>1, <1>3, <1>4, OpenFacts DEF MapKept, Known
<1>9. JobKept' /\ AddSrcAllOrNothing'
  <2>1. CASE ~AddSrcRuns
    BY <2>1, <1>1, <1>2, <1>4, OpenFacts
       DEF FlushAll, Flushed, JobKept, AddSrcAllOrNothing, AddSrcRuns, IsOpen
  <2>2. CASE AddSrcRuns
    <3>1. /\ job \in Jobs /\ job.exit = "running"
          /\ View(working, session.names) = Overlaid(job)
          /\ stable[PdbStream] # Torn /\ View(stable, stable[PdbStream]) = job.before
      BY <2>2 DEF IInv, JobKept
    <3>2. /\ job' \in Jobs /\ job'.exit = "running"
          /\ job'.before = job.before /\ job'.asked = job.asked
      BY <3>1, <2>2 DEF FlushAll, Flushed, Jobs
    <3>3. View(working', session'.names) = View(working, session.names)
      BY <1>4, <1>5 DEF View
    <3>4. Overlaid(job') = Overlaid(job)
      BY <3>2 DEF Overlaid
    <3>5. JobKept'
      BY <1>2, <1>4, <2>2, <3>1, <3>2, <3>3, <3>4 DEF JobKept, AddSrcRuns, View
    <3>6. AddSrcAllOrNothing'
      BY <1>2, <3>1, <3>2 DEF AddSrcAllOrNothing, View
    <3>. QED  BY <3>5, <3>6
  <2>. QED  BY <2>1, <2>2
<1>10. NoOrphans'
  BY <1>1, <1>2, <1>3, <1>4 DEF IInv, NoOrphans, Image, IsOpen
<1>11. NamesCurrent'
  BY <1>1, <1>2, <1>4, <1>5 DEF IInv, NamesCurrent, ReadNames, Known, IsOpen
<1>. QED  BY <1>6, <1>7, <1>8, <1>9, <1>10, <1>11 DEF IInv

(* flush_all preserves the invariant when the map has not changed: that is *)
(* right because an unmarked map is the one in the container.              *)
LEMMA FlushNothingStep ==
  ASSUME IInv, FlushNothing
  PROVE  IInv'
<1>1. IsOpen /\ ~session.modified /\ UNCHANGED <<stable, working, session, mishaps>>
  BY DEF FlushNothing, Writable
<1>2. TypeOK' /\ NamesResolve' /\ MapKept' /\ NoOrphans' /\ NamesCurrent'
  BY <1>1 DEF IInv, TypeOK, Table, NamesResolve, Resolves, Image, MapKept, Known, NoOrphans,
              NamesCurrent, IsOpen, ReadNames
<1>3. JobKept' /\ AddSrcAllOrNothing'
  <2>1. CASE ~AddSrcRuns
    BY <2>1, <1>1, OpenFacts
       DEF FlushNothing, Flushed, JobKept, AddSrcAllOrNothing, AddSrcRuns, IsOpen
  <2>2. CASE AddSrcRuns
    <3>1. /\ job \in Jobs /\ job.exit = "running"
          /\ View(working, session.names) = Overlaid(job)
          /\ stable[PdbStream] # Torn /\ View(stable, stable[PdbStream]) = job.before
      BY <2>2 DEF IInv, JobKept
    <3>2. /\ job' \in Jobs /\ job'.exit = "running"
          /\ job'.before = job.before /\ job'.asked = job.asked
      BY <3>1, <2>2 DEF FlushNothing, Flushed, Jobs
    <3>3. Overlaid(job') = Overlaid(job)
      BY <3>2 DEF Overlaid
    <3>4. JobKept'
      BY <1>1, <2>2, <3>1, <3>2, <3>3 DEF JobKept, AddSrcRuns, View
    <3>5. AddSrcAllOrNothing'
      BY <1>1, <3>1, <3>2 DEF AddSrcAllOrNothing, View
    <3>. QED  BY <3>4, <3>5
  <2>. QED  BY <2>1, <2>2
<1>. QED  BY <1>2, <1>3 DEF IInv

(* A flush that fails preserves the invariant; the map stays marked.       *)
LEMMA FlushFailsStep ==
  ASSUME IInv, FlushFails
  PROVE  IInv'
<1>1. CASE AddSrcRuns
  BY <1>1, DropStep DEF FlushFails, AfterError
<1>2. CASE ~AddSrcRuns
  <2>1. IsOpen /\ session.modified
    BY DEF FlushFails, Writable
  <2>2. /\ working' = [working EXCEPT ![PdbStream] = Torn]
        /\ mishaps' = mishaps \cup {"flush"}
        /\ stable' = stable /\ session' = session /\ job' = job
    BY <1>2 DEF FlushFails, AfterError
  <2>3. /\ DOMAIN working' = DOMAIN working
        /\ working'[PdbStream] = Torn
        /\ \A s \in DOMAIN working \ {PdbStream} : working'[s] = working[s]
    BY <2>1, <2>2, OpenFacts DEF Table
  <2>4. TypeOK'
    BY <2>2, <2>3 DEF IInv, TypeOK, Table
  <2>5. NamesResolve'
    BY <2>1, <2>2, <2>3 DEF IInv, NamesResolve, Resolves, Image, IsOpen
  <2>6. MapKept'
    BY <2>1, <2>2, <2>3 DEF MapKept
  <2>7. JobKept' /\ AddSrcAllOrNothing'
    BY <1>2, <2>1, <2>2, OpenFacts DEF JobKept, AddSrcAllOrNothing, AddSrcRuns, IsOpen
  <2>8. NoOrphans'
    BY <2>2 DEF NoOrphans
  <2>9. ReadNames' = ReadNames
    BY <2>1, <2>2, <2>3, OpenFacts DEF ReadNames, Known
  <2>10. NamesCurrent'
    BY <2>2, <2>9 DEF IInv, NamesCurrent, IsOpen
  <2>. QED  BY <2>4, <2>5, <2>6, <2>7, <2>8, <2>10 DEF IInv
<1>. QED  BY <1>1, <1>2

(* A commit (Msf::commit) preserves the invariant: an add-src that reaches *)
(* it has flushed, so the disk gets the map with every name asked for.     *)
LEMMA CommitStep ==
  ASSUME IInv, Commit
  PROVE  IInv'
<1>1. IsOpen /\ (AddSrcRuns => job.flushed)
  BY DEF Commit, Writable
<1>2. stable' = working /\ working' = working
  BY DEF Commit, Store!Commit
<1>3. mishaps' = {} => mishaps = {} /\ ~session.modified
  BY DEF Commit
<1>4. "add" \in mishaps => "add" \in mishaps'
  BY DEF Commit
<1>5. ~session.modified => working[PdbStream] = session.names /\ working[PdbStream] # Torn
  BY <1>1, OpenFacts DEF IInv, MapKept
<1>6. Table(stable)' /\ Table(working)'
  BY <1>2 DEF IInv, TypeOK, Table
<1>7. stable'[PdbStream] # Torn => Resolves(stable, stable[PdbStream])'
  BY <1>1, <1>2 DEF IInv, NamesResolve, Resolves, Image
<1>8. mishaps' = {} => /\ stable'[PdbStream] # Torn
                       /\ DOMAIN stable' = {PdbStream} \cup Image(stable[PdbStream])'
  BY <1>1, <1>2, <1>3, <1>5 DEF IInv, NoOrphans, Image
<1>9. CASE ~AddSrcRuns
  <2>1. session' = session /\ job' = job /\ job = Closed
    BY <1>1, <1>9, OpenFacts DEF Commit
  <2>2. TypeOK' /\ JobKept' /\ AddSrcAllOrNothing'
    BY <1>6, <1>9, <2>1 DEF IInv, TypeOK, JobKept, AddSrcAllOrNothing, AddSrcRuns, IsOpen
  <2>3. NamesResolve' /\ MapKept'
    BY <1>1, <1>2, <1>7, <2>1
       DEF IInv, NamesResolve, Resolves, Image, MapKept, Known, IsOpen
  <2>4. NoOrphans'
    BY <1>1, <1>2, <1>3, <1>8, <2>1 DEF IInv, NoOrphans, Image, IsOpen
  <2>5. NamesCurrent'
    BY <1>1, <1>2, <1>4, <2>1 DEF IInv, NamesCurrent, ReadNames, Known, IsOpen
  <2>. QED  BY <2>2, <2>3, <2>4, <2>5 DEF IInv
<1>10. CASE AddSrcRuns
  <2>1. /\ job \in Jobs /\ ~session.modified
        /\ View(working, session.names) = Overlaid(job)
    BY <1>1, <1>10 DEF IInv, JobKept
  <2>2. session' = Closed /\ job' = [job EXCEPT !.exit = "ok"]
    BY <1>10 DEF Commit, EndWith
  <2>3. ~IsOpen' /\ ~AddSrcRuns'
    BY <2>2 DEF IsOpen, AddSrcRuns
  <2>4. job'.exit = "ok" /\ job'.before = job.before /\ job'.asked = job.asked
    BY <2>1, <2>2 DEF Jobs
  <2>5. stable'[PdbStream] = session.names /\ stable'[PdbStream] # Torn
    BY <1>2, <1>5, <2>1
  <2>6. View(stable', stable'[PdbStream]) = Overlaid(job)
    BY <1>2, <2>1, <2>5
  <2>7. AddSrcAllOrNothing'
    BY <2>4, <2>5, <2>6 DEF AddSrcAllOrNothing, Overlaid, View
  <2>8. TypeOK' /\ NamesResolve' /\ MapKept' /\ JobKept' /\ NoOrphans' /\ NamesCurrent'
    BY <1>6, <1>7, <1>8, <2>2, <2>3
       DEF TypeOK, NamesResolve, MapKept, JobKept, NoOrphans, NamesCurrent
  <2>. QED  BY <2>7, <2>8 DEF IInv
<1>. QED  BY <1>9, <1>10

(* Filling the cache of Pdb::names preserves the invariant.                *)
LEMMA LoadNamesStep ==
  ASSUME IInv, LoadNames
  PROVE  IInv'
<1>1. IsOpen /\ ReadNames # Torn
  BY DEF LoadNames
<1>2. /\ session' = [session EXCEPT !.namesCell = ReadNames, !.touched = FALSE]
      /\ UNCHANGED <<stable, working, job, mishaps>>
  BY DEF LoadNames
<1>3. ReadNames \in Contents
  BY <1>1, OpenFacts, ContentsAssumption DEF ReadNames, Known, Table
<1>4. /\ session' \in Sessions /\ session'.names = session.names
      /\ session'.client = session.client /\ session'.modified = session.modified
      /\ session'.namesCell = ReadNames
  BY <1>1, <1>2, <1>3, OpenFacts DEF Sessions
<1>5. IsOpen' /\ (AddSrcRuns' <=> AddSrcRuns)
  BY <1>1, <1>4, ClosedAssumption DEF IsOpen, AddSrcRuns
<1>6. TypeOK' /\ NamesResolve' /\ MapKept' /\ NoOrphans'
  BY <1>1, <1>2, <1>4 DEF IInv, TypeOK, Table, NamesResolve, Resolves, Image, MapKept, Known,
                          NoOrphans
<1>7. JobKept' /\ AddSrcAllOrNothing'
  BY <1>1, <1>2, <1>4, <1>5 DEF IInv, JobKept, AddSrcAllOrNothing, View, Overlaid
<1>8. NamesCurrent'
  BY <1>2, <1>4 DEF NamesCurrent, ReadNames, Known
<1>. QED  BY <1>6, <1>7, <1>8 DEF IInv

(* Every step preserves the invariant.                                     *)
LEMMA NextInvariant ==
  ASSUME IInv, [Next]_vars
  PROVE  IInv'
<1>1. CASE OpenLibrary
  BY <1>1, OpenStep DEF OpenLibrary
<1>2. CASE OpenAddSrc
  BY <1>2, OpenStep DEF OpenAddSrc
<1>3. CASE Drop
  BY <1>3, DropStep
<1>4. ASSUME NEW n \in Names, NEW d \in Contents,
             AddUnchanged(n, d) \/ AddReplaces(n, d) \/ AddNew(n, d)
      PROVE  IInv'
  BY <1>4, AddUnchangedStep, AddReplacesStep, AddNewStep
<1>5. ASSUME NEW n \in Names, AddReplaceFails(n) \/ AddNewFails(n)
      PROVE  IInv'
  BY <1>5, AddReplaceFailsStep, AddNewFailsStep
<1>6. CASE FlushAll \/ FlushNothing \/ FlushFails
  BY <1>6, FlushAllStep, FlushNothingStep, FlushFailsStep
<1>7. CASE Commit
  BY <1>7, CommitStep
<1>8. CASE LoadNames
  BY <1>8, LoadNamesStep
<1>9. CASE UNCHANGED vars
  BY <1>9 DEF vars, IInv, TypeOK, Table, NamesResolve, Resolves, Image, MapKept, Known, JobKept,
              AddSrcRuns, Overlaid, View, NoOrphans, AddSrcAllOrNothing, NamesCurrent,
              ReadNames, IsOpen
<1>. QED
  BY <1>1, <1>2, <1>3, <1>4, <1>5, <1>6, <1>7, <1>8, <1>9 DEF Next

(* The invariant holds in every state that can be reached.                 *)
THEOREM SessionInvariant == Spec => []IInv
BY InitInvariant, NextInvariant, PTL DEF Spec

(* On disk and in the editor every name leads to a stream of its own,      *)
(* whatever calls fail and wherever the program dies (insert, flush_all    *)
(* and new_stream never disagree).                                         *)
THEOREM NamesAlwaysResolve == Spec => []NamesResolve
<1>. IInv => NamesResolve
  BY DEF IInv
<1>. QED  BY SessionInvariant, PTL

(* A stream without a name exists only after an add or a flush that        *)
(* failed, or a commit before the flush.                                   *)
THEOREM OrphansComeFromMishaps == Spec => []NoOrphans
<1>. IInv => NoOrphans
  BY DEF IInv
<1>. QED  BY SessionInvariant, PTL

(* add-src embeds all its files or none, for every set of names, contents  *)
(* and streams and every point of failure.                                 *)
THEOREM AddSrcIsAllOrNothing == Spec => []AddSrcAllOrNothing
<1>. IInv => AddSrcAllOrNothing
  BY DEF IInv
<1>. QED  BY SessionInvariant, PTL

(* Pdb::names answers with what the Names Stream holds until               *)
(* add_or_replace_named_stream changes that stream.                        *)
THEOREM NamesStayCurrent == Spec => []NamesCurrent
<1>. IInv => NamesCurrent
  BY DEF IInv
<1>. QED  BY SessionInvariant, PTL

-----------------------------------------------------------------------------
(* A step of the store of named streams, or none.                          *)
NamedNext == [Named!Next]_<<Durable, Current, Listed>>

(* The named streams of an open Pdb are those that its map shows.          *)
LEMMA CurrentShape ==
  ASSUME IInv, IsOpen
  PROVE  /\ Current = View(working, session.names)
         /\ Current \in Views /\ Current # Closed
         /\ DOMAIN Current = DOMAIN session.names
         /\ \A n \in DOMAIN session.names : Current[n] = working[session.names[n]]
<1>1. Current = View(working, session.names)
  BY DEF Current
<1>2. View(working, session.names) \in Views
  BY OpenFacts, ViewInViews DEF Resolves
<1>. QED  BY <1>1, <1>2, ClosedAssumption DEF View

(* They are not taken for the absence of a Pdb.                            *)
LEMMA CurrentNotClosed == IInv /\ IsOpen => Current # Closed
BY CurrentShape

(* A fresh file is a fresh store.                                          *)
LEMMA InitNamed == Init => Named!Init
<1> SUFFICES ASSUME Init  PROVE Named!Init
  OBVIOUS
<1>. ~IsOpen
  BY DEF Init, IsOpen
<1>1. Current = Closed /\ Listed = {}
  BY DEF Current, Listed
<1>2. Durable \in UNION {[S -> Contents] : S \in SUBSET Names}
  <2>1. stable[PdbStream] # Torn /\ stable[PdbStream] \in Maps
    BY InitInvariant DEF IInv, NoOrphans, Init, TypeOK, Table
  <2>2. Durable = View(stable, stable[PdbStream])
    BY <2>1 DEF Durable
  <2>3. \A s \in DOMAIN stable \ {PdbStream} : stable[s] \in Contents
    BY ContentsAssumption, StreamsAssumption DEF Init, FirstStreams, PdbStream
  <2>4. Resolves(stable, stable[PdbStream])
    BY <2>1, InitInvariant DEF IInv, NamesResolve
  <2>5. Durable \in [DOMAIN stable[PdbStream] -> Contents]
    BY <2>2, <2>3, <2>4 DEF View, Resolves, Image
  <2>. QED  BY <2>1, <2>5, MapsShape
<1>. QED  BY <1>1, <1>2 DEF Named!Init

(* Opening the file opens the store.                                       *)
LEMMA OpenNamed ==
  ASSUME IInv, IInv', NEW client \in {"library", "add-src"},
         NEW mode \in {"Read", "ReadWrite"}, Open(client, mode)
  PROVE  NamedNext
<1>1. ~IsOpen /\ stable[PdbStream] # Torn /\ stable' = stable /\ working' = stable
  BY DEF Open, Store!Rollback
<1>2. session' \in Sessions /\ session'.names = stable[PdbStream]
  BY <1>1, NewSessionShape DEF IInv, Open
<1>3. IsOpen'
  BY <1>2, ClosedAssumption DEF IsOpen
<1>4. Durable = View(stable, stable[PdbStream]) /\ Durable' = Durable
  BY <1>1 DEF Durable, View
<1>5. stable[PdbStream] \in Maps /\ Durable \in Views
  BY <1>1, <1>4, ViewInViews DEF IInv, TypeOK, Table, NamesResolve, Resolves
<1>6. Current = Closed /\ Current' = Durable
  BY <1>1, <1>2, <1>3, <1>4 DEF Current, View
<1>7. Listed' = DOMAIN Durable
  BY <1>1, <1>3, <1>4 DEF Listed, View
<1>8. Named!Open
  BY <1>4, <1>5, <1>6, <1>7, ClosedAssumption DEF Named!Open
<1>. QED  BY <1>8 DEF NamedNext, Named!Next

(* Ending the session without a commit closes the store.                   *)
LEMMA DropNamed ==
  ASSUME Drop
  PROVE  NamedNext
<1>1. ~IsOpen' /\ stable' = stable
  BY DEF Drop, EndWith, Store!Rollback, IsOpen
<1>2. Named!Close
  BY <1>1 DEF Named!Close, Current, Listed, Durable, View
<1>. QED  BY <1>2 DEF NamedNext, Named!Next

(* A step that gives one name its contents, and leaves the map in the      *)
(* container and the other names alone, is a Put of the store.             *)
LEMMA PutNamed ==
  ASSUME IInv, IInv', IsOpen, IsOpen', NEW n \in Names, NEW d \in Contents,
         stable' = stable, working'[PdbStream] = working[PdbStream],
         DOMAIN session'.names = DOMAIN session.names \cup {n},
         working'[session'.names[n]] = d,
         \A m \in DOMAIN session.names :
           m # n => working'[session'.names[m]] = working[session.names[m]]
  PROVE  NamedNext
<1>1. Durable' = Durable /\ Listed' = Listed
  BY DEF Durable, View, Listed
<1>2. Current # Closed /\ Current' # Closed
  <2>1. Current # Closed
    BY CurrentNotClosed
  <2>2. (IInv /\ IsOpen => Current # Closed)'
    BY CurrentNotClosed, PTL
  <2>. QED  BY <2>1, <2>2
<1>3. Current' = [m \in DOMAIN Current \cup {n} |-> IF m = n THEN d ELSE Current[m]]
  BY CurrentShape DEF Current, View
<1>4. Named!Put
  BY <1>1, <1>2, <1>3 DEF Named!Put
<1>. QED  BY <1>4 DEF NamedNext, Named!Next

(* A call of add_or_replace_named_stream is a Put, or changes nothing.     *)
LEMMA AddNamed ==
  ASSUME IInv, IInv', NEW n \in Names, NEW d \in Contents,
         AddUnchanged(n, d) \/ AddReplaces(n, d) \/ AddNew(n, d)
  PROVE  NamedNext
<1>1. CASE AddUnchanged(n, d)
  BY <1>1 DEF AddUnchanged, NamedNext, Durable, Current, Listed, View, IsOpen
<1>2. CASE AddReplaces(n, d)
  <2>1. /\ IsOpen /\ n \in DOMAIN session.names /\ stable' = stable
        /\ working' = [working EXCEPT ![session.names[n]] = d]
        /\ session' = [session EXCEPT !.touched = Touch(n)]
    BY <1>2 DEF AddReplaces, Adding, Known
  <2>2. session'.names = session.names /\ session' \in Sessions
    BY <2>1, OpenFacts DEF Sessions, Touch
  <2>3. IsOpen'
    BY <2>2, ClosedAssumption DEF IsOpen
  <2>4. /\ session.names[n] \in DOMAIN working /\ session.names[n] # PdbStream
        /\ PdbStream \in DOMAIN working
    BY <2>1, OpenFacts DEF Table
  <2>5. \A m \in DOMAIN session.names :
          m # n => working'[session'.names[m]] = working[session.names[m]]
    BY <2>1, <2>2, <2>4, OpenFacts DEF Resolves
  <2>. QED  BY <2>1, <2>2, <2>3, <2>4, <2>5, PutNamed
<1>3. CASE AddNew(n, d)
  <2>1. IsOpen /\ n \in Names \ DOMAIN session.names /\ stable' = stable
    BY <1>3 DEF AddNew, Adding, Known
  <2>2. PICK s \in Numbers :
          /\ s \notin DOMAIN working /\ working' = With(working, s, d)
          /\ session' = [session EXCEPT !.names = With(session.names, n, s), !.modified = TRUE,
                                        !.touched = session.touched \/ n = NamesStream]
    BY <1>3 DEF AddNew, IsNextStream, Touch
  <2>3. session' \in Sessions /\ session'.names = With(session.names, n, s)
    BY <2>1, <2>2, WithInMaps, OpenFacts DEF Sessions
  <2>4. IsOpen'
    BY <2>3, ClosedAssumption DEF IsOpen
  <2>5. working'[s] = d /\ \A t \in DOMAIN working : working'[t] = working[t]
    BY <2>2 DEF With
  <2>6. /\ DOMAIN session'.names = DOMAIN session.names \cup {n} /\ session'.names[n] = s
        /\ \A m \in DOMAIN session.names : session'.names[m] = session.names[m]
    BY <2>1, <2>3 DEF With
  <2>7. \A m \in DOMAIN session.names :
          working'[session'.names[m]] = working[session.names[m]]
    BY <2>1, <2>5, <2>6, OpenFacts
  <2>8. working'[PdbStream] = working[PdbStream]
    BY <2>1, <2>5, OpenFacts DEF Table
  <2>. QED  BY <2>1, <2>4, <2>5, <2>6, <2>7, <2>8, PutNamed
<1>. QED  BY <1>1, <1>2, <1>3

(* A replacement that fails spoils one name.                               *)
LEMMA AddReplaceFailsNamed ==
  ASSUME IInv, IInv', NEW n \in Names, AddReplaceFails(n)
  PROVE  NamedNext
<1>1. CASE AddSrcRuns
  BY <1>1, DropNamed DEF AddReplaceFails, AfterError
<1>2. CASE ~AddSrcRuns
  <2>1. /\ IsOpen /\ n \in DOMAIN session.names
        /\ working' = [working EXCEPT ![session.names[n]] = Torn]
        /\ stable' = stable /\ session' = session
    BY <1>2 DEF AddReplaceFails, AfterError, Adding, Known
  <2>2. IsOpen'
    BY <2>1 DEF IsOpen
  <2>3. /\ session.names[n] \in DOMAIN working /\ session.names[n] # PdbStream
        /\ PdbStream \in DOMAIN working
    BY <2>1, OpenFacts DEF Table
  <2>4. Durable' = Durable /\ Listed' = Listed
    BY <2>1, <2>2, <2>3 DEF Durable, View, Listed
  <2>5. \A m \in DOMAIN session.names :
          working'[session.names[m]] =
            IF m = n THEN Torn ELSE working[session.names[m]]
    BY <2>1, <2>3, OpenFacts DEF Resolves
  <2>6. Current' = [Current EXCEPT ![n] = Torn]
    BY <2>1, <2>2, <2>5 DEF Current, View
  <2>7. Current # Closed /\ Current' # Closed /\ n \in DOMAIN Current
    <3>1. Current # Closed /\ n \in DOMAIN Current
      BY <2>1, CurrentShape
    <3>2. (IInv /\ IsOpen => Current # Closed)'
      BY CurrentNotClosed, PTL
    <3>. QED  BY <2>2, <3>1, <3>2
  <2>8. Named!Spoil
    BY <2>4, <2>6, <2>7 DEF Named!Spoil
  <2>. QED  BY <2>8 DEF NamedNext, Named!Next
<1>. QED  BY <1>1, <1>2

(* An addition that fails changes no named stream.                         *)
LEMMA AddNewFailsNamed ==
  ASSUME IInv, NEW n \in Names, AddNewFails(n)
  PROVE  NamedNext
<1>1. CASE AddSrcRuns
  BY <1>1, DropNamed DEF AddNewFails, AfterError
<1>2. CASE ~AddSrcRuns
  <2>1. IsOpen
    BY DEF AddNewFails, Adding
  <2>2. PICK s \in Numbers :
          /\ s \notin DOMAIN working /\ working' = With(working, s, Torn)
          /\ stable' = stable /\ session' = session
    BY <1>2 DEF AddNewFails, AfterError, IsNextStream
  <2>3. \A t \in DOMAIN working : working'[t] = working[t]
    BY <2>2 DEF With
  <2>4. Durable' = Durable
    BY <2>2 DEF Durable, View
  <2>5. Current' = Current
    BY <2>1, <2>2, <2>3, OpenFacts DEF Current, View, IsOpen
  <2>6. Listed' = Listed
    BY <2>1, <2>2, <2>3, OpenFacts DEF Listed, IsOpen, Table
  <2>. QED  BY <2>4, <2>5, <2>6 DEF NamedNext
<1>. QED  BY <1>1, <1>2

(* A flush lists the names; one that fails spoils the list.                *)
LEMMA FlushNamed ==
  ASSUME IInv, IInv', FlushAll \/ FlushNothing \/ FlushFails
  PROVE  NamedNext
<1>1. CASE FlushAll
  <2>1. /\ IsOpen /\ stable' = stable
        /\ working' = [working EXCEPT ![PdbStream] = session.names]
        /\ session' = [session EXCEPT !.modified = FALSE]
    BY <1>1 DEF FlushAll, Writable
  <2>2. session'.names = session.names /\ session' \in Sessions
    BY <2>1, OpenFacts DEF Sessions
  <2>3. IsOpen'
    BY <2>2, ClosedAssumption DEF IsOpen
  <2>4. /\ working'[PdbStream] = session.names
        /\ \A s \in DOMAIN working \ {PdbStream} : working'[s] = working[s]
    BY <2>1, OpenFacts DEF Table
  <2>5. Durable' = Durable
    BY <2>1 DEF Durable, View
  <2>6. Current' = Current
    BY <2>1, <2>2, <2>3, <2>4, OpenFacts DEF Current, View
  <2>7. Listed' = DOMAIN Current /\ Current # Closed
    BY <2>1, <2>3, <2>4, OpenFacts, CurrentShape DEF Listed
  <2>8. Named!Flush
    BY <2>5, <2>6, <2>7 DEF Named!Flush
  <2>. QED  BY <2>8 DEF NamedNext, Named!Next
<1>2. CASE FlushNothing
  BY <1>2 DEF FlushNothing, NamedNext, Durable, Current, Listed, View, IsOpen
<1>3. CASE FlushFails /\ AddSrcRuns
  BY <1>3, DropNamed DEF FlushFails, AfterError
<1>4. CASE FlushFails /\ ~AddSrcRuns
  <2>1. /\ IsOpen /\ stable' = stable /\ session' = session
        /\ working' = [working EXCEPT ![PdbStream] = Torn]
    BY <1>4 DEF FlushFails, AfterError, Writable
  <2>2. IsOpen'
    BY <2>1 DEF IsOpen
  <2>3. /\ working'[PdbStream] = Torn
        /\ \A s \in DOMAIN working \ {PdbStream} : working'[s] = working[s]
    BY <2>1, OpenFacts DEF Table
  <2>4. Durable' = Durable /\ Listed' = Torn
    BY <2>1, <2>2, <2>3 DEF Durable, View, Listed
  <2>5. Current' = Current /\ Current # Closed
    BY <2>1, <2>2, <2>3, OpenFacts, CurrentShape DEF Current, View
  <2>6. Named!SpoilList
    BY <2>4, <2>5 DEF Named!SpoilList
  <2>. QED  BY <2>6 DEF NamedNext, Named!Next
<1>. QED  BY <1>1, <1>2, <1>3, <1>4

(* A commit makes the listed names durable in one step: a name that was    *)
(* not flushed is not among them.                                          *)
LEMMA CommitNamed ==
  ASSUME IInv, Commit
  PROVE  NamedNext
<1>1. IsOpen /\ stable' = working /\ working' = working
  BY DEF Commit, Writable, Store!Commit
<1>2. Current # Closed
  BY <1>1, CurrentShape
<1>3. Durable' = Named!Committed
  <2>1. CASE working[PdbStream] = Torn
    BY <2>1, <1>1 DEF Durable, Named!Committed, Listed
  <2>2. CASE working[PdbStream] # Torn
    <3>1. working[PdbStream] \in Maps
      BY <2>2 DEF IInv, TypeOK, Table
    <3>2. Listed = DOMAIN working[PdbStream] /\ Listed # Torn
      BY <1>1, <2>2, <3>1, MapsShape, ClosedAssumption DEF Listed
    <3>3. \A n \in Listed : n \in DOMAIN session.names
                            /\ session.names[n] = working[PdbStream][n]
      BY <1>1, <2>2, <3>2 DEF IInv, MapKept, Known
    <3>4. \A n \in Listed : Current[n] = working[working[PdbStream][n]]
      BY <1>1, <3>3, CurrentShape
    <3>5. Named!Committed = [n \in Listed |-> Current[n]]
      BY <3>2 DEF Named!Committed, Named!Restricted
    <3>6. Durable' = [n \in DOMAIN working[PdbStream] |-> working[working[PdbStream][n]]]
      BY <1>1, <2>2 DEF Durable, View
    <3>. QED  BY <3>2, <3>4, <3>5, <3>6
  <2>. QED  BY <2>1, <2>2
<1>4. CASE AddSrcRuns
  <2>1. Current' = Closed /\ Listed' = {}
    BY <1>4 DEF Commit, EndWith, Current, Listed, IsOpen
  <2>2. Named!Commit
    BY <1>2, <1>3, <2>1 DEF Named!Commit
  <2>. QED  BY <2>2 DEF NamedNext, Named!Next
<1>5. CASE ~AddSrcRuns
  <2>1. Current' = Current /\ Listed' = Listed
    BY <1>1, <1>5 DEF Commit, Current, Listed, View, IsOpen
  <2>2. Named!Commit
    BY <1>2, <1>3, <2>1 DEF Named!Commit
  <2>. QED  BY <2>2 DEF NamedNext, Named!Next
<1>. QED  BY <1>4, <1>5

(* Filling the cache changes no named stream.                              *)
LEMMA LoadNamesNamed ==
  ASSUME IInv, LoadNames
  PROVE  NamedNext
<1>1. /\ IsOpen /\ stable' = stable /\ working' = working
      /\ session' = [session EXCEPT !.namesCell = ReadNames, !.touched = FALSE]
  BY DEF LoadNames
<1>2. session'.names = session.names
  BY <1>1, OpenFacts DEF Sessions
<1>3. ReadNames \in Contents \cup {Torn}
  BY <1>1, OpenFacts, ContentsAssumption DEF ReadNames, Known, Table
<1>4. ReadNames \in Contents
  BY <1>3 DEF LoadNames
<1>5. session' \in Sessions
  BY <1>1, <1>4, OpenFacts DEF Sessions
<1>6. IsOpen'
  BY <1>5, ClosedAssumption DEF IsOpen
<1>. QED  BY <1>1, <1>2, <1>6 DEF NamedNext, Durable, Current, Listed, View

(* Every step is a step of the store, or changes nothing in it.            *)
LEMMA NextNamed ==
  ASSUME IInv, IInv', [Next]_vars
  PROVE  NamedNext
<1>1. CASE OpenLibrary
  BY <1>1, OpenNamed DEF OpenLibrary
<1>2. CASE OpenAddSrc
  BY <1>2, OpenNamed DEF OpenAddSrc
<1>3. CASE Drop
  BY <1>3, DropNamed
<1>4. ASSUME NEW n \in Names, NEW d \in Contents,
             AddUnchanged(n, d) \/ AddReplaces(n, d) \/ AddNew(n, d)
      PROVE  NamedNext
  BY <1>4, AddNamed
<1>5. ASSUME NEW n \in Names, AddReplaceFails(n) \/ AddNewFails(n)
      PROVE  NamedNext
  BY <1>5, AddReplaceFailsNamed, AddNewFailsNamed
<1>6. CASE FlushAll \/ FlushNothing \/ FlushFails
  BY <1>6, FlushNamed
<1>7. CASE Commit
  BY <1>7, CommitNamed
<1>8. CASE LoadNames
  BY <1>8, LoadNamesNamed
<1>9. CASE UNCHANGED vars
  BY <1>9 DEF vars, NamedNext, Durable, Current, Listed, View, IsOpen
<1>. QED
  BY <1>1, <1>2, <1>3, <1>4, <1>5, <1>6, <1>7, <1>8, <1>9 DEF Next

(* The editor, with its map in memory, the map in the container and the    *)
(* container on disk, implements the store of named streams that the       *)
(* documentation of add_or_replace_named_stream, flush_all and commit      *)
(* describes.                                                              *)
THEOREM SessionImplementsStore == Spec => ImplementsNamedStore
<1>1. Init => Named!Init
  BY InitNamed
<1>2. IInv /\ IInv' /\ [Next]_vars => [Named!Next]_(Named!namedVars)
  BY NextNamed DEF NamedNext, Named!namedVars
<1>. QED
  BY <1>1, <1>2, SessionInvariant, PTL DEF Spec, ImplementsNamedStore, Named!Spec

-----------------------------------------------------------------------------
(* Beside the session, the server: its table of open files, for any number *)
(* of clients, aliases and files.                                          *)

(* What open_pdb was asked for, and whether it has opened the file yet.    *)
Requests == [alias : Aliases, file : Files, opened : BOOLEAN]

(* A client waits for a request or for none.                               *)
ServerTypeOK ==
  /\ pdbs \in [Aliases -> Files \cup {Absent}]
  /\ request \in [Clients -> Requests \cup {Absent}]
  /\ overlapped \subseteq Clients

(* A request whose look-up of the alias is out of date has been overlapped *)
(* by the one that put it out of date.                                     *)
StaleIsOverlapped ==
  \A c \in Clients :
    Server!Pending(c) /\ pdbs[request[c].alias] # Absent => c \in overlapped

ServerInv == ServerTypeOK /\ StaleIsOverlapped

(* A server that has just started has no files and no requests.            *)
LEMMA ServerStarts == Server!Init => ServerInv
BY DEF Server!Init, ServerInv, ServerTypeOK, StaleIsOverlapped, Server!Pending

(* The look-up finds the alias unused, so it is up to date.                *)
LEMMA CheckAliasStep ==
  ASSUME ServerInv, NEW c \in Clients, NEW a \in Aliases, NEW f \in Files,
         Server!CheckAlias(c, a, f)
  PROVE  ServerInv'
BY DEF ServerInv, ServerTypeOK, StaleIsOverlapped, Server!Pending, Server!CheckAlias, Requests

(* Opening the file, outside the lock, touches neither table nor alias.    *)
LEMMA OpenFileStep ==
  ASSUME ServerInv, NEW c \in Clients, Server!OpenFile(c) \/ Server!OpenFails(c)
  PROVE  ServerInv'
<1>1. request[c] \in Requests /\ UNCHANGED <<pdbs, overlapped>>
  BY DEF ServerInv, ServerTypeOK, Server!Pending, Server!OpenFile, Server!OpenFails
<1>2. CASE Server!OpenFile(c)
  <2>1. PICK r \in Requests :
          r.alias = request[c].alias /\ request' = [request EXCEPT ![c] = r]
    <3>1. request' = [request EXCEPT ![c] = [request[c] EXCEPT !.opened = TRUE]]
      BY <1>2 DEF Server!OpenFile
    <3>2. [request[c] EXCEPT !.opened = TRUE] \in Requests
      BY <1>1 DEF Requests
    <3>3. [request[c] EXCEPT !.opened = TRUE].alias = request[c].alias
      BY <1>1 DEF Requests
    <3>. QED  BY <3>1, <3>2, <3>3
  <2>2. Server!Pending(c)
    BY <1>2 DEF Server!OpenFile
  <2>. QED  BY <1>1, <2>1, <2>2 DEF ServerInv, ServerTypeOK, StaleIsOverlapped, Server!Pending
<1>3. CASE Server!OpenFails(c)
  BY <1>1, <1>3 DEF ServerInv, ServerTypeOK, StaleIsOverlapped, Server!Pending, Server!OpenFails
<1>. QED  BY <1>2, <1>3

(* The insertion marks every request that has looked the alias up.         *)
LEMMA InsertPdbStep ==
  ASSUME ServerInv, NEW c \in Clients, Server!InsertPdb(c)
  PROVE  ServerInv'
<1>1. request[c] \in Requests /\ request[c].alias \in Aliases
  BY DEF ServerInv, ServerTypeOK, Server!Pending, Server!InsertPdb, Requests
<1>. QED
  BY <1>1 DEF ServerInv, ServerTypeOK, StaleIsOverlapped, Server!Pending, Server!InsertPdb, Requests

(* Closing a file leaves every look-up of its alias up to date.            *)
LEMMA ClosePdbStep ==
  ASSUME ServerInv, NEW a \in Aliases, Server!ClosePdb(a)
  PROVE  ServerInv'
BY DEF ServerInv, ServerTypeOK, StaleIsOverlapped, Server!Pending, Server!ClosePdb

(* Every step preserves the invariant.                                     *)
LEMMA ServerStep ==
  ASSUME ServerInv, [Server!Next]_(Server!serverVars)
  PROVE  ServerInv'
<1>1. CASE UNCHANGED Server!serverVars
  BY <1>1 DEF Server!serverVars, ServerInv, ServerTypeOK, StaleIsOverlapped, Server!Pending
<1>. QED  BY <1>1, CheckAliasStep, OpenFileStep, InsertPdbStep, ClosePdbStep DEF Server!Next

(* What a step may do to an open file: only an insertion puts another in   *)
(* its place, and only for a request that was overlapped.                  *)
LEMMA ReplacedByOverlap ==
  ASSUME ServerInv, [Server!Next]_(Server!serverVars), NEW a \in Aliases,
         pdbs[a] # Absent, pdbs'[a] # Absent, pdbs'[a] # pdbs[a]
  PROVE  \E c \in overlapped : Server!Pending(c) /\ request[c].alias = a
<1>1. CASE \E c \in Clients : Server!InsertPdb(c)
  <2>1. PICK c \in Clients : Server!InsertPdb(c)
    BY <1>1
  <2>2. request[c].alias = a /\ Server!Pending(c)
    BY <2>1 DEF Server!InsertPdb, ServerInv, ServerTypeOK
  <2>. QED  BY <2>2 DEF ServerInv, StaleIsOverlapped
<1>2. CASE \E b \in Aliases : Server!ClosePdb(b)
  BY <1>2 DEF Server!ClosePdb, ServerInv, ServerTypeOK
<1>. QED
  BY <1>1, <1>2 DEF Server!Next, Server!serverVars, Server!CheckAlias, Server!OpenFile,
                       Server!OpenFails

(* An open file leaves its alias by close_pdb, or by an open_pdb that had  *)
(* looked the alias up before the file was inserted.                       *)
THEOREM ReplacementIsOverlap == Server!Spec => ReplacedOnlyByOverlap
<1>1. ServerInv /\ [Server!Next]_(Server!serverVars) => ServerInv'
  BY ServerStep
<1>2. ServerInv /\ [Server!Next]_(Server!serverVars) =>
        [\A a \in Aliases :
           (pdbs[a] # Absent /\ pdbs'[a] # Absent /\ pdbs'[a] # pdbs[a])
             => \E c \in overlapped : Server!Pending(c) /\ request[c].alias = a]_(Server!serverVars)
  BY ReplacedByOverlap
<1>. QED  BY ServerStarts, <1>1, <1>2, PTL
  DEF Server!Spec, ReplacedOnlyByOverlap, Server!ReplacedOnlyByOverlap
=============================================================================
