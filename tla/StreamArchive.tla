---------------------------- MODULE StreamArchive ----------------------------
(***************************************************************************)
(* What an MSFZ file promises (the documentation of MsfzWriter and of      *)
(* StreamWriter, msfz/src/writer.rs): streams are written by appending to  *)
(* them, a call of write appends its bytes or, failing, none, and whoever  *)
(* opens the file finds either no MSFZ file or exactly what was appended.  *)
(***************************************************************************)
EXTENDS Integers, Sequences

CONSTANTS
  Nil,      \* a stream that was reserved and never opened for writing
  NoImage,  \* the file does not open
  Lengths   \* the lengths of the calls of write

VARIABLES
  contents,  \* stream |-> Nil or the bytes appended to it so far
  calls,     \* the number of calls of write
  image      \* what the file shows to a reader

archiveVars == <<calls, image, contents>>

(* The bytes of one call; each tells the stream and the call it belongs to. *)
CallBytes(s, c, n) == [i \in 1 .. n |-> <<"byte", s, c, i>>]

Init ==
  /\ contents = [s \in {0} |-> <<>>]
  /\ calls = 0
  /\ image = NoImage

Reserve ==
  /\ UNCHANGED <<calls, image>>
  /\ image = NoImage
  /\ DOMAIN contents \subseteq DOMAIN contents'
  /\ contents' = [s \in DOMAIN contents' |-> IF s \in DOMAIN contents THEN contents[s] ELSE Nil]

Open ==
  /\ UNCHANGED <<calls, image>>
  /\ image = NoImage
  /\ \E s \in DOMAIN contents' :
       /\ contents'[s] = <<>>
       /\ s \in DOMAIN contents => contents[s] = Nil
       /\ contents' = [t \in DOMAIN contents \cup {s} |->
                         IF t = s THEN <<>> ELSE contents[t]]

AppendCall ==
  /\ calls' = calls + 1
  /\ image = NoImage /\ UNCHANGED image
  /\ \E s \in DOMAIN contents, n \in Lengths :
       /\ contents[s] # Nil
       /\ contents' = [contents EXCEPT ![s] = @ \o CallBytes(s, calls + 1, n)]

Refuse ==
  /\ calls' = calls + 1
  /\ UNCHANGED <<contents, image>>

Publish ==
  /\ image = NoImage
  /\ image' = contents
  /\ UNCHANGED <<contents, calls>>

Next == Reserve \/ Open \/ AppendCall \/ Refuse \/ Publish

Spec == Init /\ [][Next]_archiveVars
=============================================================================
