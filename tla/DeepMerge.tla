------------------------------ MODULE DeepMerge -------------------------------
(***************************************************************************)
(* The merge of configuration files (pkg/renderer/renderer.go) and the     *)
(* substitution of variables, to any depth of the documents.               *)
(***************************************************************************)
EXTENDS Documents

RECURSIVE Variables(_), Substituted(_, _), DeepMergeAllLevels(_, _, _),
          DeepMerge(_, _, _)

\* extractEnvVarNames
Variables(doc) ==
  {doc[k].var : k \in {k \in DOMAIN doc : IsVar(doc[k])}} \cup
  UNION {Variables(doc[k].map) : k \in {k \in DOMAIN doc : IsMap(doc[k])}}

\* The document with the values of the variables, none of which holds a
\* reference to a variable in turn.
Substituted(doc, values) ==
  [k \in DOMAIN doc |->
     CASE IsVar(doc[k]) -> [scalar |-> values[doc[k].var]]
       [] IsMap(doc[k]) -> [map |-> Substituted(doc[k].map, values)]
       [] OTHER         -> doc[k]]

\* Faulty: the keys whose arrays are overwritten are passed on to the maps
\* below.
DeepMergeAllLevels(source, destination, arrayOverwriteKeys) ==
  LET passedOn(s, d, none) == DeepMergeAllLevels(s, d, arrayOverwriteKeys)
  IN  MergeLevel(source, destination, arrayOverwriteKeys, passedOn)

\* deepMergeMaps
DeepMerge(source, destination, arrayOverwriteKeys) ==
  MergeLevel(source, destination, arrayOverwriteKeys, DeepMerge)
===============================================================================
