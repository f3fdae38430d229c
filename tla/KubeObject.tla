------------------------------ MODULE KubeObject ------------------------------
(***************************************************************************)
(* One object of the Kubernetes API - the ConfigMap or the Secret that     *)
(* matrix-tools keeps - as its processes see it through client-go.  The    *)
(* API server is not part of the repository: what is written here is what  *)
(* marker.go and secret.go rely on.                                        *)
(*                                                                         *)
(*   - An object carries a resourceVersion (rv).  Versions are never used  *)
(*     twice, not even when the object is deleted and made again.          *)
(*   - Update is rejected unless the object sent carries the version of    *)
(*     the object stored, and an update that changes nothing keeps it.     *)
(*   - Create is rejected when the object exists.                          *)
(*                                                                         *)
(* Of the labels only one distinction matters to the code: an object whose *)
(* managed-by label is another's, or missing, is Foreign; the others are   *)
(* the label sets that the chart passes on the command line.               *)
(***************************************************************************)
EXTENDS Naturals

CONSTANTS
  Keys,       \* the keys of the object's data
  Values,     \* the values a key may hold
  None,       \* a key that is absent
  Labels,     \* the label sets with matrix-tools' own managed-by
  Foreign     \* any other label set

ASSUME ObjectAssumption ==
  /\ None \notin Values
  /\ Foreign \notin Labels

Data    == [Keys -> Values \cup {None}]
NoData  == [k \in Keys |-> None]

Object ==
  [exists : BOOLEAN, labels : Labels \cup {Foreign}, data : Data, rv : Nat]

(***************************************************************************)
(* What is left of an object that does not exist is its last version.      *)
(***************************************************************************)
Removed(obj) ==
  [exists |-> FALSE, labels |-> Foreign, data |-> NoData, rv |-> obj.rv]

Created(obj, labels, data) ==
  [exists |-> TRUE, labels |-> labels, data |-> data, rv |-> obj.rv + 1]

(***************************************************************************)
(* The server takes an update only of the version it stores.               *)
(***************************************************************************)
Accepts(obj, sent) ==
  /\ obj.exists
  /\ obj.rv = sent.rv

Updated(obj, sent) ==
  IF obj.labels = sent.labels /\ obj.data = sent.data
  THEN obj
  ELSE [exists |-> TRUE, labels |-> sent.labels, data |-> sent.data,
        rv |-> obj.rv + 1]
===============================================================================
