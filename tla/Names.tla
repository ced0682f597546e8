-------------------------------- MODULE Names --------------------------------
(***************************************************************************)
(* Names of Avro's named types.  A name is the sequence of its segments:   *)
(* <<"A">> for A, <<"x", "A">> for x.A, << >> for the empty string; a      *)
(* segment is empty where a dot begins or ends the name: <<"x", "">> is    *)
(* x. with its dot.                                                        *)
(***************************************************************************)
EXTENDS Naturals, Sequences

IsDotted(name) == Len(name) > 1

\* The name made of some segments of another.
AsName(segments) == IF segments = <<"">> THEN << >> ELSE segments

\* No dot begins or ends it.
IsPlain(name) == name = << >> \/ (Head(name) # "" /\ name[Len(name)] # "")

\* fullName of generic/compile.go, qualifiedName of schema_json.go.
FullName(name, namespace) ==
  IF name = << >> \/ IsDotted(name) THEN name ELSE namespace \o name

\* The namespace a declaration or a reference names, or else the one around it.
Enclosing(declared, namespace) == IF declared = << >> THEN namespace ELSE declared

(***************************************************************************)
(* Avro's rules (Specification, "Names"): the namespace in force inside a  *)
(* declaration is that of its full name, so a dotted name brings its own.  *)
(***************************************************************************)
AvroNamespace(name, declared, namespace) ==
  IF IsDotted(name)
  THEN SubSeq(name, 1, Len(name) - 1)
  ELSE Enclosing(declared, namespace)

AvroFullName(name, declared, namespace) ==
  AvroNamespace(name, declared, namespace) \o <<name[Len(name)]>>
=============================================================================
