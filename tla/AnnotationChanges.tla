--------------------------- MODULE AnnotationChanges ---------------------------
(***************************************************************************)
(* A federation Cluster object and the changes the controller makes to it. *)
(* An object is a function on Fields: an annotation key, or one of the two *)
(* fields of the Spec an updater writes, is a field; Absent is a missing   *)
(* annotation or a nil pointer.                                            *)
(***************************************************************************)

CONSTANTS Fields,         \* what an updater may change in an object
          Values,         \* values of a field
          Absent          \* the field is not set

ASSUME AbsentAssumption == Absent \notin Values

Object == [Fields -> Values \cup {Absent}]

-----------------------------------------------------------------------------
(* util.ClusterAnnotation: the fields to set and the fields to delete.      *)

ClusterAnnotation == [set : Object, del : SUBSET Fields]

Nothing == [f \in Fields |-> Absent]

\* What the annotation, applied to an object, decides.
Touched(ann) == {f \in Fields : ann.set[f] # Absent} \cup ann.del

\* Variant for mutation: deleting leaves an empty annotation behind.
ApplyAnnotationBlank(obj, ann) ==
  [f \in Fields |-> IF f \in ann.del THEN ""
                    ELSE IF ann.set[f] # Absent THEN ann.set[f]
                    ELSE obj[f]]

\* Sets first, then deletes: a key in both is deleted.
ApplyAnnotation(obj, ann) ==
  [f \in Fields |-> IF f \in ann.del THEN Absent
                    ELSE IF ann.set[f] # Absent THEN ann.set[f]
                    ELSE obj[f]]

=============================================================================
