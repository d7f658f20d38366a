---------------------------- MODULE MCPdbSession ----------------------------
(***************************************************************************)
(* PdbSession and, beside it, McpServer for TLC.                           *)
(***************************************************************************)
EXTENDS PdbSession

CONSTANTS
  Clients, Aliases, Files, Absent,
  MaxEdits   \* bound of the model: calls of add_or_replace_named_stream

VARIABLES pdbs, request, overlapped, edits

Server == INSTANCE McpServer

serverVars == <<pdbs, request, overlapped>>

MCInit == Init /\ Server!Init /\ edits = 0

Edit(A) == edits < MaxEdits /\ edits' = edits + 1 /\ A

SessionNext ==
  \/ /\ \/ OpenLibrary \/ OpenAddSrc \/ Drop
        \/ FlushAll \/ FlushNothing \/ FlushFails
        \/ Commit
        \/ LoadNames
     /\ UNCHANGED edits
  \/ \E n \in Names, d \in Contents :
       Edit(AddUnchanged(n, d)) \/ Edit(AddReplaces(n, d)) \/ Edit(AddNew(n, d))
  \/ \E n \in Names : Edit(AddReplaceFails(n)) \/ Edit(AddNewFails(n))

(* The server and the session share no state, so each is explored while    *)
(* the other is where it began.                                            *)
SessionAtStart == ~IsOpen /\ edits = 0 /\ stable = working /\ job = Closed
ServerAtStart == Server!Init

MCNext ==
  \/ ServerAtStart /\ SessionNext /\ UNCHANGED serverVars
  \/ SessionAtStart /\ Server!Next /\ UNCHANGED <<vars, edits>>

mcVars == <<vars, serverVars, edits>>

MCSpec == MCInit /\ [][MCNext]_mcVars

ReplacedOnlyByOverlap == Server!ReplacedOnlyByOverlap
=============================================================================
