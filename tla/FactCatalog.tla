---------------------------- MODULE FactCatalog ----------------------------
(***************************************************************************)
(* The business-confirmed fact catalogue (domain/rules/catalog_v3.py): the *)
(* facts that rules may use, each with the evidence that confirms it.  The *)
(* digest is a hash of everything else; it is the rest of the catalogue    *)
(* here, as two catalogues have one digest only if they agree in the rest. *)
(***************************************************************************)
EXTENDS Integers, Sequences, SequencesExt

\* CatalogModelV3, ConfirmedFactV3: a fact is [code, type, grain, nullable, nullPolicy, allowed,
\* parameters, evidence, profile, bindingIssues], the sequences as in the document, a
\* parameter [name, role]; the catalogue's own evidence is [id, source], source being the
\* hash of the document.
CatalogDigest(catalog) == [id |-> catalog.id, version |-> catalog.version,
                           facts |-> catalog.facts, evidence |-> catalog.evidence]

Repeats(items) == ~IsInjective(items)
Codes(facts)   == [i \in DOMAIN facts |-> facts[i].code]
Names(fact)    == [i \in DOMAIN fact.parameters |-> fact.parameters[i].name]

EvidenceIds(catalog) == [i \in DOMAIN catalog.evidence |-> catalog.evidence[i].id]

FactFlaw(fact, evidence) ==
    \/ Repeats(Names(fact))
    \/ Repeats(fact.evidence)
    \/ ~(ToSet(fact.evidence) \subseteq ToSet(evidence))
    \/ ~fact.profile /\ fact.bindingIssues = <<>>
    \/ fact.type = "enum" /\ fact.allowed = <<>>
    \/ fact.type = "unknown"

\* validate_fact_catalog_v3.
ValidCatalog(catalog) ==
    /\ ~Repeats(Codes(catalog.facts))
    /\ ~Repeats(EvidenceIds(catalog))
    /\ \A i \in DOMAIN catalog.facts : ~FactFlaw(catalog.facts[i], EvidenceIds(catalog))
    /\ catalog.digest = CatalogDigest(catalog)

CatalogIdentity(catalog) == <<catalog.id, catalog.version, catalog.digest>>

\* The function f, and where it is not defined, g.
Overlay(f, g) == [x \in DOMAIN f \cup DOMAIN g |-> IF x \in DOMAIN f THEN f[x] ELSE g[x]]
LastPlace(facts, code) == SelectLastInSeq(facts, LAMBDA f : f.code = code)

\* _catalog_fact_map: every confirmed fact becomes a source fact under its code, the later
\* of two with one code staying.
FactMap(catalog) ==
    [code \in ToSet(Codes(catalog.facts)) |->
        Overlay([kind |-> "source"], catalog.facts[LastPlace(catalog.facts, code)])]
=============================================================================
