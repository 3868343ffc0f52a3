---------------------------- MODULE ToolRanking ----------------------------
(***************************************************************************)
(* How tool discovery ranks a catalog against the text of a request        *)
(* (core/src/discovery.rs): the exact matches, and the fixed-point BM25    *)
(* score of the rest.  Pure operators: nothing here has a state.           *)
(*                                                                         *)
(* A tool is its position in Known, the sequence of the tools the          *)
(* application may register, which lists them in the order of their ids;   *)
(* so `<' on tools is the order of the code's sort by id.                  *)
(***************************************************************************)
EXTENDS Integers, SequencesExt, FiniteSetsExt

CONSTANTS
  Known,        \* the tools, in id order: records (see KnownFields)
  Scale,        \* BM25_SCALE: the fixed-point unit
  Ln2,          \* LN_2_SCALED
  SeriesTerms,  \* LN_SERIES_TERMS
  MaxTerms      \* MAX_DEFERRED_LEXICAL_TERMS

(* What the code reads of a tool: its declared id and the trimmed key it   *)
(* is filed under, its display name, namespace (NoSpace: none), aliases,   *)
(* the words of those texts in that order, its exposure, the length of its *)
(* serialized definition, its callers, the group it is registered in       *)
(* (NoGroup: none) and what its registration checks.                       *)
KnownFields == {"id", "key", "name", "space", "aliases", "words", "hot",
                "bytes", "callers", "group", "speculates", "harmless",
                "sound"}

NoSpace == "no namespace"
NoGroup == "no group"
Tools   == 1..Len(Known)

(* sort_by id. *)
InIdOrder(S) == SelectSeq([i \in Tools |-> i], LAMBDA t : t \in S)

ASSUME RankingAssumption ==
  /\ \A t \in Tools : DOMAIN Known[t] = KnownFields
  /\ Scale \in Nat \ {0} /\ Ln2 \in Nat /\ SeriesTerms \in Nat /\ MaxTerms \in Nat

BM25_K1 == (12 * Scale) \div 10
BM25_B  == (75 * Scale) \div 100
MinConfidenceMargin == Scale \div 2

(* Every division rounds half up. *)
RoundedDivide(numerator, denominator) ==
  (numerator \div denominator)
    + (IF (numerator % denominator) >= (denominator \div 2) + (denominator % 2)
       THEN 1 ELSE 0)

(* ln(numerator / denominator): the ratio is halved into [1, 2), the rest  *)
(* is twice the atanh series of z = (x - 1) / (x + 1).                     *)
Doublings(numerator, denominator) ==
  CHOOSE k \in 0..numerator :
    /\ denominator * 2^k > numerator \div 2
    /\ \A j \in 0..(k - 1) : denominator * 2^j <= numerator \div 2

Atanh(z, square) ==
  LET power[i \in 0..SeriesTerms] ==
        IF i = 0 THEN z ELSE RoundedDivide(power[i - 1] * square, Scale)
  IN MapThenSumSet(LAMBDA i : RoundedDivide(power[i], 2 * i + 1),
                   0..(SeriesTerms - 1))

LnMantissa(numerator, denominator) ==
  LET z == RoundedDivide((numerator - denominator) * Scale,
                         numerator + denominator)
  IN 2 * Atanh(z, RoundedDivide(z * z, Scale))

LnRatio(numerator, denominator) ==
  IF numerator <= denominator THEN 0
  ELSE LET k == Doublings(numerator, denominator)
       IN k * Ln2 + LnMantissa(numerator, denominator * 2^k)

InverseDocumentFrequency(documents, containing) ==
  LnRatio(2 * (documents + 1), 2 * containing + 1)

LengthNormalization(documents, length, total) ==
  IF total = 0 THEN 0
  ELSE Scale - BM25_B + RoundedDivide(BM25_B * length * documents, total)

TermWeight(frequency, normalization) ==
  IF frequency = 0 \/ normalization = 0 THEN 0
  ELSE RoundedDivide(frequency * (BM25_K1 + Scale) * Scale,
                     frequency * Scale
                       + RoundedDivide(BM25_K1 * normalization, Scale))

(* indexed_terms: id, name, namespace and aliases, up to the lexical       *)
(* limit; what lies beyond it is not indexed.                              *)
IndexedTerms(t) ==
  SubSeq(Known[t].words, 1, Min({Len(Known[t].words), MaxTerms}))

Frequency(t, term) == Cardinality({i \in DOMAIN IndexedTerms(t) :
                                     IndexedTerms(t)[i] = term})

(* CatalogIndex::build: of each tool of the index, the score each term can *)
(* give it.  Only what depends on the catalog: the query comes later.      *)
Terms == UNION {ToSet(Known[t].words) : t \in Tools}

Index(S) ==
  LET total == MapThenSumSet(LAMBDA u : Len(IndexedTerms(u)), S)
      docs  == Cardinality(S)
      idf(term) == InverseDocumentFrequency(
                     docs, Cardinality({u \in S : Frequency(u, term) > 0}))
      norm(t) == LengthNormalization(docs, Len(IndexedTerms(t)), total)
  IN [t \in S |-> [term \in Terms |->
        RoundedDivide(idf(term) * TermWeight(Frequency(t, term), norm(t)), Scale)]]

(* The scoring loop of rank: the score of t among the tools of the index.  *)
Score(index, query, t) ==
  MapThenSumSet(LAMBDA term : index[t][term], query.terms \cap Terms)

(* A candidate goes before another if it scores higher, or as high with a  *)
(* smaller id.                                                             *)
Before(c, d) == c.score > d.score \/ (c.score = d.score /\ c.tool < d.tool)

(* The bounded insertion of rank_with_counts: the place of the binary      *)
(* search, dropped beyond the limit, the last one popped when full.        *)
RetainedLimit(expansion) == Max({expansion, 2})

Retain(list, c, limit) ==
  LET place == Cardinality({i \in DOMAIN list : Before(list[i], c)}) + 1
      grown == InsertAt(list, place, c)
  IN IF place > limit THEN list
     ELSE SubSeq(grown, 1, Min({Len(grown), limit}))

RetainScored(list, c, limit) == IF c.score = 0 THEN list ELSE Retain(list, c, limit)

Scored(S, query, expansion) ==
  LET index == Index(S)
      limit == Min({RetainedLimit(expansion), Cardinality(S)})
      step(list, t) ==
        RetainScored(list, [score |-> Score(index, query, t), tool |-> t], limit)
  IN FoldLeft(step, <<>>, InIdOrder(S))

Exact(ids) == [exact |-> TRUE, ids |-> InIdOrder(ids), confident |-> FALSE]
Lexical(ids, sure) == [exact |-> FALSE, ids |-> ids, confident |-> sure]

Shortlist(scored, expansion) ==
  LET sure   == \/ Len(scored) = 1
                \/ scored[1].score - scored[2].score >= MinConfidenceMargin
      take   == Min({IF sure THEN 1 ELSE expansion, Len(scored)})
  IN IF expansion = 0 \/ scored = <<>> THEN Lexical(<<>>, FALSE)
     ELSE Lexical([i \in 1..take |-> scored[i].tool], sure)

LexicalRank(S, query, expansion) ==
  Shortlist(Scored(S, query, expansion), expansion)

(* The ladder of rank: an exact id or name wins alone, a name or an alias  *)
(* that several tools share selects none of them, a namespace all of its   *)
(* tools.                                                                  *)
ById(S, query)    == {t \in S : Known[t].id = query.phrase}
ByName(S, query)  == {t \in S : Known[t].name = query.phrase}
BySpace(S, query) == {t \in S : Known[t].space = query.phrase}
ByAlias(S, query) == {t \in S : query.phrase \in Known[t].aliases}

OnlyOne(ids) == IF Cardinality(ids) = 1 THEN ids ELSE {}

IsExact(S, query) ==
  ById(S, query) \union ByName(S, query) \union BySpace(S, query)
    \union ByAlias(S, query) # {}

ExactIds(S, query) ==
  IF ById(S, query) # {} THEN ById(S, query)
  ELSE IF ByName(S, query) # {} THEN OnlyOne(ByName(S, query))
  ELSE IF BySpace(S, query) # {} THEN BySpace(S, query)
  ELSE OnlyOne(ByAlias(S, query))

Rank(S, query, expansion) ==
  IF IsExact(S, query) THEN Exact(ExactIds(S, query))
  ELSE LexicalRank(S, query, expansion)

----------------------------------------------------------------------------
(* The reference: sort every tool that scores, whatever the limit, and     *)
(* take the best one if no other comes within the margin, otherwise the    *)
(* first `expansion' of them.                                              *)
ByRelevance(S, query) ==
  LET index == Index(S)
      all == [i \in 1..Cardinality(S) |->
               LET t == InIdOrder(S)[i]
               IN [score |-> Score(index, query, t), tool |-> t]]
  IN SortSeq(SelectSeq(all, LAMBDA c : c.score > 0), Before)

Leading(all, expansion) ==
  LET sure == \A i \in DOMAIN all : i > 1 =>
                all[1].score >= all[i].score + MinConfidenceMargin
      take == IF all = <<>> \/ expansion = 0 THEN 0
              ELSE IF sure THEN 1 ELSE Min({expansion, Len(all)})
  IN [i \in 1..take |-> all[i].tool]

Relevant(S, query, expansion) == Leading(ByRelevance(S, query), expansion)
=============================================================================
