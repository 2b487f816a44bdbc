------------------------------ MODULE MCAudit -------------------------------
(***************************************************************************)
(* The instance of Audit that TLC checks: two design areas, a capability   *)
(* in one and an anti-pattern in the other.  estate is an export with a    *)
(* hidden sheet, design a document, session a questionnaire no area is     *)
(* routed to, and rival an export that names only a provider out of scope; *)
(* the uploads with other sources are turned down.  A line is derived from *)
(* either export.                                                          *)
(***************************************************************************)
EXTENDS Audit

CONSTANTS b1, b2, capability, harm,
          estate, design, session, rival, keys, wide,
          export, sheet, paper, page, note, lead, alien, key, row,
          line, abroad,
          cost, owner, azure, aws

MCBatchOf == [c \in Criteria |-> IF c = capability THEN b1 ELSE b2]
MCScopes == {{b1, b2}, {b2}}

MCSourceOf == [x \in Citable |->
    CASE x \in {export, sheet, line} -> estate [] x = paper -> design
      [] x \in {page, note, lead} -> session [] x \in {alien, abroad} -> rival
      [] x = key -> keys [] OTHER -> wide]
MCClass == [x \in Citable |->
    CASE x \in {export, sheet, line, alien, abroad} -> "platform"
      [] x \in {page, note, lead} -> "workshop" [] OTHER -> "document"]
MCHidden == {sheet}
MCMentions == [x \in Chunks |-> CASE x = alien -> {aws} [] x = export -> {azure}
                                 [] x = sheet -> {aws} [] OTHER -> {}]
MCPrivacy == [x \in Chunks |-> CASE x = key -> "unclosed" [] x = note -> "redacted"
                                [] OTHER -> "clean"]
MCTier == [b \in Batches |-> [x \in Chunks |->
    CASE b = b1 /\ x \in {export, sheet, alien} -> "high"
      [] b = b2 /\ x = paper -> "high"
      [] b = b2 /\ x = row -> "medium"
      [] OTHER -> "low"]]
MCOrder == [x \in Chunks |->
    CASE x = export -> 1 [] x = sheet -> 2 [] x = paper -> 3 [] x = page -> 4
      [] x = note -> 5 [] x = alien -> 6 [] x = key -> 7 [] x = lead -> 8
      [] OTHER -> 9]
MCSize == [x \in Chunks |-> CASE x = row -> 5 [] x = note -> 2 [] OTHER -> 1]
MCArea == [x \in Derived |-> b1]
MCTargets == [x \in Derived |-> {capability}]
MCItems == [b \in Batches |-> IF b = b1 THEN {{export, sheet}} ELSE {{page}}]
MCHints == [b \in Batches |-> {alien, lead}]
MCWords == [x \in Chunks |->
    CASE x \in {export, paper} -> {owner} [] x \in {note, lead, alien} -> {cost}
      [] x = sheet -> {owner, cost} [] OTHER -> {}]
MCAreaTerms == [b \in Batches |-> IF b = b1 THEN {owner} ELSE {cost}]

Whole(sources) == [sources |-> sources, broken |-> {}, locked |-> {azure},
                   unmeasured |-> {}]
MCUploads == {Whole({estate, design, session, rival}),
              Whole({estate, keys}), Whole({estate, wide}),
              [Whole({estate, design}) EXCEPT !.broken = {design}]}
\* For CoverageIsHonest: a routed chunk no packet has room for.
MCWideUploads == {Whole({estate, design, session, wide})}

\* Quotes that repeat what they cite, one that repeats something else, one that
\* is only close, and one of the provider out of scope.
MCQuotes == [cites: {export}, text: {export, line, "close"}]
              \cup {[cites |-> x, text |-> x] : x \in {paper, alien, line}}
\* For ForeignIsNotScored: what was derived from that provider's export.
MCForeignQuotes == {[cites |-> abroad, text |-> abroad]}
=============================================================================
