------------------------------ MODULE McpServer ------------------------------
(***************************************************************************)
(* The table of open files of the pdb-mcp server (pdb-mcp/src/server.rs,   *)
(* tools/open.rs).  Requests are served concurrently.  open_pdb looks its  *)
(* alias up under the lock, opens the file without it, and takes the lock  *)
(* again to insert; close_pdb holds it throughout, and so do the queries,  *)
(* which change nothing.                                                   *)
(***************************************************************************)
EXTENDS Integers

CONSTANTS
  Clients,   \* requests being served at a time
  Aliases,   \* names of open files
  Files,     \* files that open_pdb can be asked for
  Absent     \* no entry, no request

VARIABLES
  pdbs,      \* alias |-> the file it stands for, or Absent
  request,   \* the open_pdb a client waits for, or Absent
  overlapped \* clients whose alias another request has inserted meanwhile

serverVars == <<pdbs, request, overlapped>>

Init ==
  /\ pdbs = [a \in Aliases |-> Absent]
  /\ request = [c \in Clients |-> Absent]
  /\ overlapped = {}

Pending(c) == request[c] # Absent

(* Slip: the alias is not looked up.                                       *)
CheckNothing(c, a, f) ==
  /\ ~Pending(c)
  /\ request' = [request EXCEPT ![c] = [alias |-> a, file |-> f, opened |-> FALSE]]
  /\ overlapped' = overlapped \ {c}
  /\ UNCHANGED pdbs

(* The look-up; an alias in use ends the request.                          *)
CheckAlias(c, a, f) ==
  /\ ~Pending(c)
  /\ pdbs[a] = Absent
  /\ request' = [request EXCEPT ![c] = [alias |-> a, file |-> f, opened |-> FALSE]]
  /\ overlapped' = overlapped \ {c}
  /\ UNCHANGED pdbs

(* Pdb::open, without the lock, and its failure.                           *)
OpenFile(c) ==
  /\ Pending(c) /\ ~request[c].opened
  /\ request' = [request EXCEPT ![c].opened = TRUE]
  /\ UNCHANGED <<pdbs, overlapped>>

OpenFails(c) ==
  /\ Pending(c) /\ ~request[c].opened
  /\ request' = [request EXCEPT ![c] = Absent]
  /\ UNCHANGED <<pdbs, overlapped>>

InsertPdb(c) ==
  /\ Pending(c) /\ request[c].opened
  /\ LET a == request[c].alias IN
       /\ pdbs' = [pdbs EXCEPT ![a] = request[c].file]
       /\ overlapped' = overlapped \cup
            {d \in Clients \ {c} : Pending(d) /\ request[d].alias = a}
  /\ request' = [request EXCEPT ![c] = Absent]

ClosePdb(a) ==
  /\ pdbs[a] # Absent
  /\ pdbs' = [pdbs EXCEPT ![a] = Absent]
  /\ UNCHANGED <<request, overlapped>>

Next ==
  \/ \E c \in Clients :
       \/ \E a \in Aliases, f \in Files : CheckAlias(c, a, f)
       \/ OpenFile(c) \/ OpenFails(c) \/ InsertPdb(c)
  \/ \E a \in Aliases : ClosePdb(a)

Spec == Init /\ [][Next]_serverVars

(* An open file is taken away from its alias by close_pdb, or by an        *)
(* open_pdb that had looked the alias up before the file was inserted: two *)
(* requests that overlap may both succeed, and the later one wins.         *)
ReplacedOnlyByOverlap ==
  [][\A a \in Aliases :
       (pdbs[a] # Absent /\ pdbs'[a] # Absent /\ pdbs'[a] # pdbs[a])
         => \E c \in overlapped : Pending(c) /\ request[c].alias = a]_serverVars
=============================================================================
