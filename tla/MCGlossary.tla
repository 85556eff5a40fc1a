---- MODULE MCGlossary ----
(* Two projects that share a text, and two terms. *)
EXTENDS Glossary
TwoLanguages == [p |-> "zh", q |-> "en"]
SharedScript == [p |-> <<"hi", "both">>, q |-> <<"both">>]
FewTerms == [hi |-> {1}, both |-> {1, 2}]
====
