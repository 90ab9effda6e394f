------------------------------ MODULE MCConfig ------------------------------
(* The instance of Config that TLC checks.  Two JSON scalars, leaf and      *)
(* other, and the texts {"b": {"b": leaf}} and {"b": [leaf, [other]]}: the   *)
(* second fails at its last scalar, which is nested too deep by one level.  *)
EXTENDS Config

CONSTANTS leaf, other, inner, nest, last, list, deep

MCNodes == 0..10
MCDocuments == {leaf, other, inner, nest, last, list, deep}
MCTexts == {nest, deep}
MCDocKind == [x \in MCDocuments |->
    IF x \in {leaf, other} THEN "value" ELSE IF x \in {last, list} THEN "array" ELSE "object"]
MCDocKids == [x \in MCDocuments |->
    CASE x = inner -> [s \in {"b"} |-> leaf]
      [] x = nest -> [s \in {"b"} |-> inner]
      [] x = last -> [s \in {"1"} |-> other]
      [] x = list -> [s \in {"1", "2"} |-> IF s = "1" THEN leaf ELSE last]
      [] x = deep -> [s \in {"b"} |-> list]
      [] OTHER -> NoKids]
=============================================================================
