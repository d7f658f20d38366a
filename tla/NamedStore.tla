------------------------------ MODULE NamedStore ------------------------------
(***************************************************************************)
(* What a PDB promises about its named streams (the documentation of       *)
(* add_or_replace_named_stream, pdb/src/embedded_sources.rs, of flush_all, *)
(* pdb/src/lib.rs, and of Msf::commit).                                    *)
(*                                                                         *)
(* A store maps names to contents.  The program puts contents under names  *)
(* in a working copy; the list of names reaches the container at a flush,  *)
(* and everything reaches the disk, in one step, at a commit.  A call that *)
(* fails half way spoils one name, or the list of names, and no other.     *)
(***************************************************************************)
EXTENDS Integers

CONSTANTS
  Names,       \* the names of streams
  Contents,    \* what can be put under a name
  Torn,        \* what a failing call leaves under a name
  Closed,      \* no working copy
  Unreadable   \* the list of names is damaged

VARIABLES
  durable,     \* name |-> contents, for whoever opens the file; or Unreadable
  current,     \* name |-> contents in the working copy; or Closed
  listed       \* the names in the container's list; or Unreadable

namedVars == <<durable, current, listed>>

Restricted(f, S) == [n \in S |-> f[n]]

Init ==
  /\ durable \in UNION {[S -> Contents] : S \in SUBSET Names}
  /\ current = Closed
  /\ listed = {}

Open ==
  /\ current = Closed /\ durable # Unreadable
  /\ current' = durable
  /\ listed' = DOMAIN durable
  /\ UNCHANGED durable

Put ==
  /\ current # Closed /\ current' # Closed
  /\ \E n \in Names, d \in Contents :
       current' = [m \in DOMAIN current \cup {n} |-> IF m = n THEN d ELSE current[m]]
  /\ UNCHANGED <<durable, listed>>

Spoil ==
  /\ current # Closed /\ current' # Closed
  /\ \E n \in DOMAIN current : current' = [current EXCEPT ![n] = Torn]
  /\ UNCHANGED <<durable, listed>>

Flush ==
  /\ current # Closed
  /\ listed' = DOMAIN current
  /\ UNCHANGED <<durable, current>>

SpoilList ==
  /\ current # Closed
  /\ listed' = Unreadable
  /\ UNCHANGED <<durable, current>>

Committed ==
  IF listed = Unreadable THEN Unreadable ELSE Restricted(current, listed)

Commit ==
  /\ current # Closed
  /\ durable' = Committed
  /\ \/ UNCHANGED <<current, listed>>
     \/ current' = Closed /\ listed' = {}

Close ==
  /\ current' = Closed
  /\ listed' = {}
  /\ UNCHANGED durable

Next == Open \/ Put \/ Spoil \/ Flush \/ SpoilList \/ Commit \/ Close

Spec == Init /\ [][Next]_namedVars
=============================================================================
