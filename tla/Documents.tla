------------------------------ MODULE Documents -------------------------------
(***************************************************************************)
(* Configuration documents, one level of their merge                       *)
(* (pkg/renderer/renderer.go), and what the whole merge has to compute.    *)
(*                                                                         *)
(* A document is a function of its keys.  A value is a record with one     *)
(* field, which tells its kind: a map (a document), a list, a scalar, or a *)
(* scalar that is still to be replaced by the value of a variable.         *)
(***************************************************************************)
EXTENDS Naturals, Sequences

EmptyDocument == << >>

IsMap(value)  == "map" \in DOMAIN value
IsList(value) == "list" \in DOMAIN value
IsVar(value)  == "var" \in DOMAIN value

\* What deepMergeMaps leaves under a key that both have; mergeMaps is the
\* recursive call, which is not told of the keys whose arrays are overwritten.
Joined(new, old, overwrite, mergeMaps(_, _, _)) ==
  CASE IsMap(new) /\ IsMap(old) -> [map |-> mergeMaps(new.map, old.map, {})]
    [] IsList(new) /\ IsList(old) /\ ~ overwrite -> [list |-> old.list \o new.list]
    [] OTHER -> new

\* What deepMergeMaps makes of destination.
MergeLevel(source, destination, arrayOverwriteKeys, mergeMaps(_, _, _)) ==
  [key \in DOMAIN source \cup DOMAIN destination |->
     CASE key \notin DOMAIN source      -> destination[key]
       [] key \notin DOMAIN destination -> source[key]
       [] OTHER -> Joined(source[key], destination[key],
                          key \in arrayOverwriteKeys, mergeMaps)]
-------------------------------------------------------------------------------
(***************************************************************************)
(* What the merge of a list of documents is under a path, a sequence of    *)
(* keys, without merging anything.                                         *)
(***************************************************************************)

\* What is under a path that a document does not have.
Nothing == [nothing |-> TRUE]

Under(value, key) ==
  IF IsMap(value) /\ key \in DOMAIN value.map THEN value.map[key] ELSE Nothing

\* The values along a path, under its first i keys.
Along(doc, path) ==
  LET value[i \in 0..Len(path)] ==
        IF i = 0 THEN [map |-> doc] ELSE Under(value[i - 1], path[i])
  IN  value

At(doc, path) == Along(doc, path)[Len(path)]

\* A document cuts a path when it puts something else than a map above it.
Cuts(doc, path) ==
  \E i \in 1..Len(path) - 1 :
    Along(doc, path)[i] # Nothing /\ ~ IsMap(Along(doc, path)[i])

\* The documents that have a say in what is under a path: those that have it
\* and that no later one cuts off.
Writers(docs, path) ==
  {i \in DOMAIN docs :
     /\ At(docs[i], path) # Nothing
     /\ \A j \in DOMAIN docs : j > i => ~ Cuts(docs[j], path)}

\* Of the writers those at the end that all have a list.
Appended(docs, path) ==
  {i \in Writers(docs, path) :
     \A j \in Writers(docs, path) : j >= i => IsList(At(docs[j], path))}

\* The list is those of Appended, one after the other: end[i] is where that
\* of the document i ends.
Concatenates(list, docs, path) ==
  \E end \in [0..Len(docs) -> 0..Len(list)] :
    /\ end[0] = 0
    /\ end[Len(docs)] = Len(list)
    /\ \A i \in 1..Len(docs) :
         IF i \in Appended(docs, path)
         THEN LET part == At(docs[i], path).list IN
              /\ end[i] = end[i - 1] + Len(part)
              /\ \A n \in 1..Len(part) : list[end[i - 1] + n] = part[n]
         ELSE end[i] = end[i - 1]

\* The last writer decides what is under the path.
IsMergeAt(path, merged, docs, arrayOverwriteKeys) ==
  LET result  == At(merged, path)
      writers == Writers(docs, path)
  IN /\ writers = {} => result = Nothing
     /\ \A last \in writers :
          (\A i \in writers : i <= last) =>
            LET value == At(docs[last], path) IN
            CASE IsMap(value) -> IsMap(result)
              [] IsList(value) /\ ~ (Len(path) = 1 /\ path[1] \in arrayOverwriteKeys) ->
                   IsList(result) /\ Concatenates(result.list, docs, path)
              [] OTHER -> result = value
===============================================================================
