------------------------------ MODULE MCReplace ------------------------------
(***************************************************************************)
(* Replacing the symbols of a module (pdb/src/modi.rs) by a list of        *)
(* another length, over small module streams.  A module is opened from its *)
(* stream, and its symbols are replaced and its references cut off any     *)
(* number of times.                                                        *)
(***************************************************************************)
EXTENDS ModuleStream

CONSTANT MaxWords  \* the u32s of the symbols, the signature included

VARIABLE module

Sizes == {4 * n : n \in 1 .. MaxWords}

(* The bytes of each substream are of a kind.                              *)
StreamOf(sym, c13, refs) ==
  [i \in 1 .. sym |-> i] \o [i \in 1 .. c13 |-> 50 + i] \o PutU32(Len(refs)) \o refs

Init ==
  \E sym \in Sizes, c13 \in {0, 4, 8}, refs \in {<<>>, <<101, 102, 103, 104>>} :
    module = ParseModule(StreamOf(sym, c13, refs), [sym |-> sym, c11 |-> 0, c13 |-> c13])[1]

NewSyms == {[i \in 1 .. n |-> 20 + i] : n \in Sizes}

Replace ==
  \E new \in NewSyms :
    ~RotationPanics(module, new) /\ module' = ReplaceSymData(module, new)

Truncate == module' = TruncateGlobalRefs(module)

Next == Replace \/ Truncate

Spec == Init /\ [][Next]_module

(* The symbols of a module can be replaced by any others, and the line     *)
(* data and the references stay what they are (utils/vec.rs: "The old and  *)
(* new ranges can be different sizes").                                    *)
ReplaceKeepsRest ==
  \A new \in NewSyms : ReplacesSymbolsOnly(module, new)
=============================================================================
