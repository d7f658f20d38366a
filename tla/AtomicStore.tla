----------------------------- MODULE AtomicStore -----------------------------
(***************************************************************************)
(* What an MSF file promises to the program that edits it (the comments on *)
(* Msf::commit, msf/src/commit.rs, and on the editing functions).          *)
(*                                                                         *)
(* A store is a table of streams; a stream is Nil or a sequence of page    *)
(* contents.  The program edits a working copy one stream at a time.  Only *)
(* a commit changes what is on disk, it does so in one step, and a crash,  *)
(* or closing the file without a commit, goes back to the last commit.     *)
(***************************************************************************)
EXTENDS Integers, Sequences

CONSTANTS
  NoStore,   \* no MSF has been committed to the file / nothing is open
  NewStore,  \* the stream table of a new MSF
  Nil        \* the contents of a nil stream

VARIABLES
  stable,    \* the streams a reader of the file finds on disk
  working    \* the streams the editor shows; equal to stable when it is closed

storeVars == <<stable, working>>

Init ==
  /\ stable = NoStore
  /\ working = NewStore

(* A new MSF is created over a file that holds none.                       *)
Create ==
  /\ stable = NoStore /\ working = NoStore
  /\ working' = NewStore
  /\ UNCHANGED stable

(***************************************************************************)
(* One stream takes new contents; streams below a new one may be created   *)
(* as nil streams, and no other stream changes.                            *)
(***************************************************************************)
Modify ==
  /\ working # NoStore /\ working' # NoStore
  /\ DOMAIN working \subseteq DOMAIN working'
  /\ \E s \in DOMAIN working' :
       \A t \in DOMAIN working' \ {s} :
         working'[t] = IF t \in DOMAIN working THEN working[t] ELSE Nil
  /\ UNCHANGED stable

Commit ==
  /\ working # NoStore
  /\ stable' = working
  /\ UNCHANGED working

Rollback ==
  /\ working' = stable
  /\ UNCHANGED stable

Next == Create \/ Modify \/ Commit \/ Rollback

Spec == Init /\ [][Next]_storeVars
=============================================================================
