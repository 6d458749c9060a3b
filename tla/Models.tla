------------------------------- MODULE Models -------------------------------
(* How an authorization model gets into the registry: a JSON document of     *)
(* rewrite rules is parsed, validated, stored in its JSON form and parsed    *)
(* again by whoever loads the project.  A rule of a document has six         *)
(* optional fields of which exactly one is to be set; a rule of a parsed     *)
(* model is told apart by which of its fields is not empty.  Namespaces      *)
(* without relations are left out.                                           *)
EXTENDS Naturals, Sequences, SequencesExt, FiniteSets

CONSTANTS
  Namespaces,  \* names of namespaces in documents
  Relations,   \* names of relations in documents, "" among them
  Rules,       \* the rules a document may have
  MaxRules,    \* bound: rules in one document
  Bad          \* a document or rule that is refused

VARIABLES
  doc,      \* the document being edited: a function from <<namespace, relation>>
  stored,   \* the model document of the project row
  meant     \* history: the model the last accepted request stood for

vars == <<doc, stored, meant>>

\* The zero values: a rule document with no field set, a rewrite with none.
NoRule == [this |-> FALSE, computed |-> "", ttu |-> << >>, union |-> Bad, intersection |-> Bad,
           exclusion |-> << >>]
NoRewrite == [computed |-> "", tupleset |-> "", computedRelation |-> "", union |-> << >>,
              intersection |-> << >>, exclusion |-> << >>]
-----------------------------------------------------------------------------
(* Documents to models: Bad stands for an error and for an absent list *)

RECURSIVE toRewrite(_)
toRewrites(rds) == [i \in DOMAIN rds |-> toRewrite(rds[i])]

toRewrite(rd) ==
  LET set == {f \in {"this", "computed", "ttu", "union", "intersection", "exclusion"} : rd[f] # NoRule[f]}
      children(f) == toRewrites(rd[f])
      both == toRewrites(rd.exclusion)
  IN
  CASE Cardinality(set) # 1 -> Bad
    [] set = {"this"} -> NoRewrite
    [] set = {"computed"} -> [NoRewrite EXCEPT !.computed = rd.computed]
    [] set = {"ttu"} -> IF "" \in Range(rd.ttu) THEN Bad
                        ELSE [NoRewrite EXCEPT !.tupleset = rd.ttu[1], !.computedRelation = rd.ttu[2]]
    [] set = {"union"} -> IF rd.union = << >> \/ Bad \in Range(children("union")) THEN Bad
                          ELSE [NoRewrite EXCEPT !.union = children("union")]
    [] set = {"intersection"} ->
         IF rd.intersection = << >> \/ Bad \in Range(children("intersection")) THEN Bad
         ELSE [NoRewrite EXCEPT !.intersection = children("intersection")]
    [] set = {"exclusion"} -> IF Bad \in Range(both) THEN Bad ELSE [NoRewrite EXCEPT !.exclusion = both]

ToModel(d) ==
  IF \E k \in DOMAIN d : k[1] = "" \/ k[2] = "" \/ toRewrite(d[k]) = Bad THEN Bad
  ELSE [k \in DOMAIN d |-> toRewrite(d[k])]

\* A rule with a field RewriteDoc does not have is Bad: the decoder refuses it.
ParseModel(d) == IF \E k \in DOMAIN d : d[k] = Bad THEN Bad ELSE ToModel(d)
-----------------------------------------------------------------------------
(* Models to documents *)

RECURSIVE fromRewrite(_), fromRewriteSwapped(_)
fromRewrites(rws) == [i \in DOMAIN rws |-> fromRewrite(rws[i])]

\* Mutant: the two relations of a tuple-to-userset the wrong way round.
fromRewriteSwapped(rw) ==
  CASE rw.union # << >> -> [NoRule EXCEPT !.union = fromRewrites(rw.union)]
    [] rw.tupleset # "" -> [NoRule EXCEPT !.ttu = <<rw.computedRelation, rw.tupleset>>]
    [] OTHER -> [NoRule EXCEPT !.this = TRUE]
fromRewrite(rw) ==
  CASE rw.union # << >> -> [NoRule EXCEPT !.union = fromRewrites(rw.union)]
    [] rw.union = << >> /\ rw.intersection # << >> ->
         [NoRule EXCEPT !.intersection = fromRewrites(rw.intersection)]
    [] rw.exclusion # << >> -> [NoRule EXCEPT !.exclusion = fromRewrites(rw.exclusion)]
    [] rw.computed # "" -> [NoRule EXCEPT !.computed = rw.computed]
    [] rw.tupleset # "" -> [NoRule EXCEPT !.ttu = <<rw.tupleset, rw.computedRelation>>]
    [] OTHER -> [NoRule EXCEPT !.this = TRUE]

FromModel(m) == [k \in DOMAIN m |-> fromRewrite(m[k])]

MarshalModel(m) == FromModel(m)
-----------------------------------------------------------------------------
(* Validation *)

RECURSIVE checkRefs(_, _)
\* The relations a rule refers to on its own object are declared.
checkRefs(rw, declared) ==
  /\ rw.computed # "" => rw.computed \in declared
  /\ rw.tupleset # "" => rw.tupleset \in declared
  /\ \A c \in Range(rw.union) \cup Range(rw.intersection) \cup Range(rw.exclusion) : checkRefs(c, declared)

ValidateModelRefs(m) ==
  \A k \in DOMAIN m : checkRefs(m[k], {j[2] : j \in {x \in DOMAIN m : x[1] = k[1]}})

\* An empty model is the built-in one; any other has to survive its JSON form.
validateModel(m) ==
  DOMAIN m = {} \/ (ParseModel(MarshalModel(m)) # Bad /\ ValidateModelRefs(m))
-----------------------------------------------------------------------------
(* Edits and requests *)

Init ==
  /\ doc = << >>
  /\ stored = << >>
  /\ meant = << >>

Declare(ns, rel, rd) ==
  /\ Cardinality(DOMAIN doc \cup {<<ns, rel>>}) <= MaxRules
  /\ doc' = [k \in DOMAIN doc \cup {<<ns, rel>>} |-> IF k = <<ns, rel>> THEN rd ELSE doc[k]]
  /\ UNCHANGED <<stored, meant>>

Withdraw(k) ==
  /\ doc' = [j \in DOMAIN doc \ {k} |-> doc[j]]
  /\ UNCHANGED <<stored, meant>>

\* The document as model_json: parsed at the door, validated by the service.
modelFromJSON == ParseModel(doc)
acceptable == modelFromJSON # Bad /\ validateModel(modelFromJSON)

\* A project is created with the model, encoded by the store; an empty one stands
\* for the built-in model.
CreateProject ==
  /\ acceptable
  /\ stored' = MarshalModel(modelFromJSON)
  /\ meant' = modelFromJSON
  /\ UNCHANGED doc

\* An empty model leaves the one of the row, which is written back.
UpdateProject ==
  /\ acceptable
  /\ LET m == IF modelFromJSON = << >> THEN ParseModel(stored) ELSE modelFromJSON IN stored' = MarshalModel(m)
  /\ meant' = IF modelFromJSON = << >> THEN meant ELSE modelFromJSON
  /\ UNCHANGED doc

Next ==
  \/ \E ns \in Namespaces, rel \in Relations, rd \in Rules : Declare(ns, rel, rd)
  \/ \E k \in DOMAIN doc : Withdraw(k)
  \/ CreateProject \/ UpdateProject

Spec == Init /\ [][Next]_vars
-----------------------------------------------------------------------------
(* Properties *)

\* Whoever loads the project parses the model the last request that gave one stood
\* for: the stored document is never refused on load and never means another
\* model, and an update that gives none writes back the same
\* (MarshalModel, ParseModel, decodeProjectConfig, UpdateProject).
LoadsAsWritten == ParseModel(stored) = meant
=============================================================================
