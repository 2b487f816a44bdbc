----------------------------- MODULE Evidence -------------------------------
(***************************************************************************)
(* From the uploaded sources to the packets the design areas are read      *)
(* from: the privacy scan, classification against the locked providers,    *)
(* the source registry, the routed packets, bounded retrieval, the         *)
(* acquisition gate (analyzeDocument, src/services/analysisService.ts) and *)
(* the semantic retrieval of a rescan.  All of it is computed from an      *)
(* upload without a model; Audit runs it.                                  *)
(*                                                                         *)
(* A text is what these steps read in it: whom it names, how it is routed, *)
(* the terms it holds, its size.  A packet is the set of its chunks.       *)
(***************************************************************************)
EXTENDS Integers, FiniteSets

CONSTANTS
    Batches,    \* the design areas of the pack
    Sources,    \* the files that can be uploaded
    Chunks,     \* the pieces their texts fall into
    Derived,    \* what the analyzers may compute from their tables
    SourceOf,   \* the source of a chunk or of a derived line
    Class,      \* the evidence class of its source
    Hidden,     \* the headers of hidden sheets
    Leads,      \* the evidence leads of questionnaires
    Mentions,   \* the cloud providers a chunk names
    Privacy,    \* what the scans find in a chunk
    Tier,       \* the relevance of a chunk to an area
    Signals,    \* the chunks that speak of a gap or a contradiction
    Order,      \* the order of the chunks by score and name
    Size,       \* what a chunk is reckoned at: its text and 260 more
    Items,      \* an area's crucial items: each the chunks that name it
    Critical,   \* those that may not be missing
    Area,       \* the area a derived line is handed to
    Hints,      \* the chunks that hold an area's neutral gap terms
    Terms,      \* the terms a gap query can ask for
    Words,      \* those a chunk holds
    AreaTerms,  \* those an area is routed by
    Target, Hard,  \* bounds on the size of a packet
    MaxPicks,   \* the most chunks one pass selects
    MinGain,    \* the least gain of a pass, in points
    Uploads     \* what a user may upload and lock

ASSUME BatchAssumption == Batches # {}
ASSUME ChunkAssumption ==
    /\ IsFiniteSet(Chunks) /\ IsFiniteSet(Terms)
    /\ Chunks \cap Derived = {}
    /\ SourceOf \in [Chunks \cup Derived -> Sources]
    /\ Class \in [Chunks \cup Derived -> {"platform", "document", "workshop"}]
    /\ Hidden \cup Leads \cup Signals \subseteq Chunks
    /\ Privacy \in [Chunks -> {"clean", "redacted", "secret", "unclosed"}]
    /\ Order \in [Chunks -> Nat] /\ Size \in [Chunks -> Nat]
    /\ \A c, d \in Chunks : Order[c] = Order[d] => c = d
    /\ Words \in [Chunks -> SUBSET Terms]
ASSUME AreaAssumption ==
    /\ Tier \in [Batches -> [Chunks -> {"high", "medium", "low", "unknown"}]]
    /\ Items \in [Batches -> SUBSET SUBSET Chunks]
    /\ \A b \in Batches : Critical[b] \subseteq Items[b]
    /\ Area \in [Derived -> Batches]
    /\ Hints \in [Batches -> SUBSET Chunks]
    /\ AreaTerms \in [Batches -> SUBSET Terms]
ASSUME LimitAssumption ==
    /\ Target \in Nat /\ Hard \in Nat /\ Target <= Hard
    /\ MaxPicks \in Nat /\ MinGain \in 0..100
\* unmeasured: the areas whose tables no analyzer can use; broken: sources
\* whose records are invalid or whose extraction failed, was cut short or is
\* poor, and questionnaires that answer no question of the pack.
ASSUME UploadAssumption ==
    \A u \in Uploads : /\ u.sources \subseteq Sources /\ u.sources # {}
                       /\ u.broken \subseteq u.sources
                       /\ u.locked # {}
                       /\ u.unmeasured \subseteq Batches

-----------------------------------------------------------------------------
\* The source registry.

Uploaded(u) == {c \in Chunks : SourceOf[c] \in u.sources}
Registry(u) == Uploaded(u) \ (Hidden \cup Leads)

\* detectProviders reads the whole source, what is hidden in it too.
Detected(u, s) == UNION {Mentions[c] : c \in {d \in Uploaded(u) :
                                                SourceOf[d] = s}}

\* exclusivelyOutOfScopeProviders: the source names providers, none locked.
\* Asked of chunks only; of a derived line it says where that comes from.
Foreign(u, c) == LET found == Detected(u, SourceOf[c])
                 IN found # {} /\ found \cap u.locked = {}

\* deriveAllEvidenceSignals: what is derived from an upload, from all sources,
\* whatever providers they name; and, of it, what the packet of an area is
\* rendered with (buildEvidenceLaneStagePackets).
Computed(u) == {d \in Derived : SourceOf[d] \in u.sources}
Lines(u, b) == {d \in Computed(u) : Area[d] = b}

\* rankedDomainCandidates.
Candidates(u, b) ==
    {c \in Registry(u) : /\ ~Foreign(u, c)
                         /\ Tier[b][c] \in {"high", "medium"} \/ c \in Signals}

Weight(tier) == CASE tier = "high" -> 3 [] tier = "medium" -> 2
                  [] tier = "unknown" -> 1 [] OTHER -> 0
Ranked(b, c, d) == \/ Weight(Tier[b][c]) > Weight(Tier[b][d])
                   \/ /\ Weight(Tier[b][c]) = Weight(Tier[b][d])
                      /\ Order[c] < Order[d]

-----------------------------------------------------------------------------
\* Packets.

\* What the chunks S are reckoned at.  The markup, header and manifest they are
\* rendered with, and the stage packet around them, are not counted.
Text(S) == UNION {{c} \X (1..Size[c]) : c \in S}
Estimate(S) == Cardinality(Text(S))

\* buildDomainPacket: by rank, what fits below Target, or below Hard for the
\* first three, until Target is reached.
Routed(u, b) ==
    CHOOSE T \in SUBSET Candidates(u, b) :
      \A c \in Candidates(u, b) :
        LET got == {d \in T : Ranked(b, d, c)}
        IN c \in T <=>
             /\ Estimate(got) < Target
             /\ Estimate(got) + Size[c] <=
                  IF Cardinality(got) < 3 THEN Hard ELSE Target

\* As Admits, but no provider is out of scope here.
M_Admits(u, S, c) == Estimate(S) + Size[c] <= Hard

\* As Admits, but the chunk may begin before the limit and end behind it.
M_AdmitsMore(u, S, c) == ~Foreign(u, c) /\ Estimate(S) < Hard

\* May c join the chunks S of a packet?
Admits(u, S, c) == ~Foreign(u, c) /\ Estimate(S) + Size[c] <= Hard

\* expandDomainPacket: the picks, none of them in p yet, that are admitted
\* in the order they are asked for; before[c]: the chunks ahead of c.
Expanded(u, p, picks, before) ==
    p \cup CHOOSE T \in SUBSET picks :
             \A c \in picks :
               c \in T <=> Admits(u, p \cup (T \cap before[c]), c)

\* The first MaxPicks of S.
First(S, before) == {c \in S : Cardinality(S \cap before[c]) < MaxPicks}

\* assembleDomainPacket: what it says of its coverage.  A packet only grows,
\* so the larger of the two is the total_candidate_chunks it carries.
Total(u, b, p) == LET known == Cardinality(Candidates(u, b))
                  IN IF known > Cardinality(p) THEN known ELSE Cardinality(p)
Weak(u, b, p) == \/ Cardinality(p) < 2
                 \/ \A c \in p : Tier[b][c] # "high"
                 \/ Total(u, b, p) > Cardinality(p)

-----------------------------------------------------------------------------
\* planGapRetrieval and applyBoundedRetrieval.

\* analyzeCrucialItemCoverage: the items named anywhere, hidden headers
\* included, and the chunks that name them.
Named(u, b) == {i \in Items[b] : i \cap (Uploaded(u) \ Leads) # {}}
Locations(u, b) == UNION Items[b] \cap Registry(u)

Triggered(u, b, p) ==
    \/ Weak(u, b, p)
    \/ 2 * Cardinality(Named(u, b)) < Cardinality(Items[b])
    \/ ~(Critical[b] \subseteq Named(u, b))
    \/ ~(Locations(u, b) \subseteq p)
    \/ b \in u.unmeasured

\* Math.round of a share, in per cent.
Share(count, total) == IF total = 0 THEN 0
                       ELSE (200 * count + total) \div (2 * total)

\* Two passes: routed chunks the packet left out, then chunks that are not
\* routed but located or hinted at.
Bounded(u, b) ==
    LET named  == [c \in Chunks |-> {d \in Chunks : Order[d] < Order[c]}]
        ranked == [c \in Chunks |-> {d \in Chunks : Ranked(b, d, c)}]
        base      == Routed(u, b)
        routed    == Candidates(u, b)
        expansion == {c \in Registry(u) \ routed :
                        c \in (Locations(u, b) \ base) \cup Hints[b]}
        Coverage(p) == Share(Cardinality(p \cap (routed \cup expansion)),
                             Cardinality(routed \cup expansion))
        first  == Expanded(u, base, First(routed \ base, ranked), ranked)
        second == Expanded(u, first, First(expansion \ first, named), named)
    IN IF ~Triggered(u, b, base) THEN base
       ELSE IF /\ first # base
               /\ Coverage(first) - Coverage(base) < MinGain
            THEN first ELSE second

-----------------------------------------------------------------------------
\* The gates before the first model is called.

\* sanitizeEvidenceSources scans what is hidden too; a redaction blocks
\* nothing.
Blocked(u) == \E c \in Uploaded(u) : Privacy[c] = "secret"

\* scanRegistryDlp knows a key by its first line, also one without an end.
DlpHit(u) == \E c \in Registry(u) : Privacy[c] = "unclosed"

\* validateSourceRecords, and the extraction it goes with.
Unreadable(u) == u.broken # {}

\* validateEvidenceAcquisition: a source without a chunk, or an area, of the
\* scope or not, that is left empty-handed.
Incomplete(u) ==
    \/ \E s \in u.sources : \A c \in Registry(u) : SourceOf[c] # s
    \/ \E b \in Batches : Candidates(u, b) # {} /\ Bounded(u, b) = {}

Refused(u) == Blocked(u) \/ Unreadable(u) \/ DlpHit(u) \/ Incomplete(u)

-----------------------------------------------------------------------------
\* expandWeakEvidencePacket: the chunks outside p that hold a term asked
\* for, those with more of them first.
Matching(u, p, asked) == {c \in Registry(u) \ p : Words[c] \cap asked # {}}
Matched(u, p, asked) ==
    LET Hits(c) == Cardinality(Words[c] \cap asked)
        closer  == [c \in Chunks |->
                      {d \in Chunks : \/ Hits(d) > Hits(c)
                                      \/ /\ Hits(d) = Hits(c)
                                         /\ Order[d] < Order[c]}]
    IN Expanded(u, p, First(Matching(u, p, asked), closer), closer)

=============================================================================
