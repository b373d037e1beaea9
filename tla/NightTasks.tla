-------------------------------- MODULE NightTasks --------------------------------
(***************************************************************************)
(* The analyses that the daemon runs over a domain in the night. Each one  *)
(* reads the domain's physics, or what was recorded for the domain, asks   *)
(* the language model if it has one, and proposes: nothing is changed. A   *)
(* task is one action, which takes any input and leaves its proposals. The *)
(* loops of the code are sequences here, so that what is proposed twice,   *)
(* and in which order, can be told.                                        *)
(***************************************************************************)
EXTENDS Naturals, Sequences, SequencesExt, FiniteSetsExt

CONSTANTS
  Terms,       (* words of a glossary, or words that are long enough for one   *)
  Short,       (* a word that is not: three characters or less                 *)
  NoTerm,      (* an entry without a term                                      *)
  Modules,     (* module ids                                                   *)
  Rules,       (* ids of standing orders and of invariants                     *)
  Shapes,      (* what an invariant's signature tells apart                    *)
  MinOverlap,  (* glossary_min_overlap, in percent                             *)
  MaxEntries   (* bound: the length of a glossary                              *)

VARIABLES
  task,      (* the task that has run                              *)
  input,     (* what it read                                       *)
  success,   (* whether the adapter reports a success              *)
  proposals  (* the sequence of its proposals                      *)

vars == <<task, input, success, proposals>>

Words == Terms \cup {Short}

(* What a model is made to answer for one order: a hint, one without text,  *)
(* or nothing that parses.                                                  *)
Answers == {"hint", "blank", "error"}

(* What it answers for a module: objects with or without content, other     *)
(* things in the list, or nothing that parses.                              *)
Hints == {<<"error">>} \cup BoundedSeq({"content", "blank", "malformed"}, 2)

(* The drafts it answers for a glossary.                                    *)
Drafts == {<<"error">>} \cup BoundedSeq(Terms \cup {NoTerm, "malformed"}, 2)

TypeOK ==
  /\ task \in {"none", "glossary_expansion", "glossary_pruning", "rejection_corpus_alignment",
               "cross_module_consistency", "domain_physics_constraint_refresh", "slm_hint_generation",
               "logic_scrape_review", "context_crawler", "gated_staging", "cross_domain_synthesis"}
  /\ success \in BOOLEAN
  /\ \A i \in DOMAIN proposals : proposals[i].kind # "none"
  /\ ~success => proposals = <<>>

(* The sequence of what f makes of each element.                            *)
Collect(s, f(_)) == FlattenSeq([i \in DOMAIN s |-> f(s[i])])

(* --- The analyses ------------------------------------------------------------ *)

(* glossary_expansion: each long word of an ingestion that the glossary does *)
(* not have, once.                                                           *)
Expansion(known, records) ==
  LET words == Collect(records, LAMBDA r : IF r.type = "IngestionRecord" THEN r.words ELSE <<>>)
      New(found, w) == IF w \in Terms /\ w \notin known /\ ~Contains(found, w) THEN Append(found, w) ELSE found
      found == FoldLeft(New, <<>>, words)
  IN [i \in DOMAIN found |-> [kind |-> "glossary_add", term |-> found[i]]]

(* glossary_pruning: each entry that has no definition.                     *)
Pruning(glossary) ==
  Collect(glossary, LAMBDA e : IF e.full THEN <<>> ELSE <<[kind |-> "glossary_prune", term |-> e.term]>>)

(* rejection_corpus_alignment, domain_physics_constraint_refresh: each      *)
(* reference to a module that the domain does not have; a rejection may     *)
(* have no reference.                                                       *)
Orphans(kind, existing, refs) ==
  Collect(refs, LAMBDA m : IF m \in existing \cup {NoTerm} THEN <<>> ELSE <<[kind |-> kind, module |-> m]>>)

(* cross_module_consistency: each prerequisite of a module that has the     *)
(* module as a prerequisite too. A module id that comes again replaces its  *)
(* prerequisites, at its first place.                                       *)
Consistency(modules) ==
  LET ids == FoldLeft(LAMBDA s, m : IF Contains(s, m.id) THEN s ELSE Append(s, m.id), <<>>, modules)
      prereq_map == [id \in ToSet(ids) |->
        modules[Max({i \in DOMAIN modules : modules[i].id = id})].prerequisites]
      Back(id) == SelectSeq(prereq_map[id], LAMBDA p : p \in DOMAIN prereq_map /\ Contains(prereq_map[p], id))
  IN Collect(ids, LAMBDA id :
       [i \in DOMAIN Back(id) |-> [kind |-> "prerequisite_cycle", module_a |-> id, module_b |-> Back(id)[i]]])

(* slm_hint_generation: each standing order the model has a hint for, with  *)
(* the invariants that link to it.                                          *)
OrderHints(orders, links, answers) ==
  Collect(orders, LAMBDA o :
    IF answers[o] = "hint"
    THEN <<[kind |-> "slm_hint", order |-> o, linked |-> {r \in DOMAIN links : links[r] = o}]>> ELSE <<>>)

(* logic_scrape_review: each flagged trace of the domain.                   *)
ScrapeReview(enabled, records) ==
  Collect(records, LAMBDA r :
    IF enabled /\ r = "flagged" THEN <<[kind |-> "novel_synthesis_candidate"]>> ELSE <<>>)

(* context_crawler: each content the model has for a module. What is not an *)
(* object raises out of the task.                                           *)
Crawl(modules, answers) ==
  Collect(modules, LAMBDA m :
    Collect(answers[m], LAMBDA h :
      IF h = "content" THEN <<[kind |-> "context_hint", module |-> m]>> ELSE <<>>))

CrawlRaises(modules, answers) == \E i \in DOMAIN modules : Contains(answers[modules[i]], "malformed")

(* gated_staging: an entry whose term was seen before, with the place where *)
(* it was seen last; an entry without related terms;                        *)
LastSeen(glossary, i) == {j \in 1..(i - 1) : glossary[j].term = glossary[i].term}

Staging(glossary) ==
  FlattenSeq([i \in DOMAIN glossary |->
    LET seen == LastSeen(glossary, i)
    IN IF glossary[i].term = NoTerm THEN <<>>
       ELSE (IF seen = {} THEN <<>>
             ELSE <<[kind |-> "glossary_duplicate", first |-> Max(seen), second |-> i]>>)
            \o (IF glossary[i].full THEN <<>>
                ELSE <<[kind |-> "glossary_enrich", term |-> glossary[i].term]>>)])

(* and each draft of a term the glossary does not have. What is not an      *)
(* object raises out of the task.                                           *)
StagingDrafts(glossary, drafts) ==
  Collect(drafts, LAMBDA t :
    IF t \in Terms /\ \A i \in DOMAIN glossary : glossary[i].term # t
    THEN <<[kind |-> "glossary_draft", term |-> t]>> ELSE <<>>)

(* --- Synthesis across domains --------------------------------------------------- *)

(* is_mutual_peer.                                                          *)
Mutual(a, b) == a.enabled /\ b.enabled /\ a.peer /\ b.peer

(* compare_glossaries: the terms that are shared, by the smaller glossary.  *)
Overlap(a, b) ==
  LET smaller == Min({Cardinality(a.terms), Cardinality(b.terms)})
  IN smaller > 0 /\ 100 * Cardinality(a.terms \cap b.terms) >= MinOverlap * smaller

(* compare_invariant_structures: each invariant of the first domain takes   *)
(* the first of the second one that has its shape and whose id is free.     *)
Matched(as, bs) ==
  LET Take(pairs, a) ==
        LET free == {j \in DOMAIN bs : bs[j].shape = a.shape /\ \A k \in DOMAIN pairs : pairs[k][2] # bs[j].id}
        IN IF free = {} THEN pairs ELSE Append(pairs, <<a.id, bs[Min(free)].id>>)
  IN FoldLeft(Take, <<>>, as)

(* find_synthesis_candidates and cross_domain_synthesis, for one pair.      *)
Synthesis(a, b) ==
  LET compared == a.share_glossary /\ b.share_glossary /\ a.glossary /\ b.glossary
      passes == compared /\ Overlap(a, b)
      pass_2 == (passes \/ ~compared) /\ a.share_invariants /\ b.share_invariants
      matched == IF pass_2 THEN Matched(a.invariants, b.invariants) ELSE <<>>
  IN IF Mutual(a, b) /\ (passes \/ matched # <<>>)
     THEN <<[kind |-> "cross_domain_similarity", required_approvers |-> <<a.id, b.id>>,
             terms |-> IF passes THEN a.terms \cap b.terms ELSE {}, matched |-> matched]>>
     ELSE <<>>

(* ---- Actions -------------------------------------------------------------------- *)

Init ==
  /\ task = "none"
  /\ input = <<>>
  /\ success = TRUE
  /\ proposals = <<>>

(* run_task_preemptible: a task that raises is reported without proposals.  *)
Ran(name, read, raises, found) ==
  /\ task' = name
  /\ input' = read
  /\ success' = ~raises
  /\ proposals' = IF raises THEN <<>> ELSE found

Records == [type: {"IngestionRecord", "TraceEvent"}, words: BoundedSeq(Words, 2)]

(* The query may fail: then nothing is found, and the task is a success.    *)
glossary_expansion ==
  \E known \in SUBSET Terms, records \in BoundedSeq(Records, 2), queried \in BOOLEAN :
    Ran("glossary_expansion", [known |-> known, records |-> IF queried THEN records ELSE <<>>],
        FALSE, Expansion(known, IF queried THEN records ELSE <<>>))

Glossaries == BoundedSeq([term: Terms \cup {NoTerm}, full: BOOLEAN], MaxEntries)

glossary_pruning ==
  \E glossary \in Glossaries : Ran("glossary_pruning", glossary, FALSE, Pruning(glossary))

rejection_corpus_alignment ==
  \E existing \in SUBSET Modules, refs \in BoundedSeq(Modules \cup {NoTerm}, 2) :
    Ran("rejection_corpus_alignment", [existing |-> existing, refs |-> refs], FALSE,
        Orphans("rejection_stale", existing, refs))

domain_physics_constraint_refresh ==
  \E existing \in SUBSET Modules, refs \in BoundedSeq(Modules, 2) :
    Ran("domain_physics_constraint_refresh", [existing |-> existing, refs |-> refs], FALSE,
        Orphans("invariant_orphan", existing, refs))

cross_module_consistency ==
  \E n \in 0..Cardinality(Modules) :
    \E modules \in [1..n -> [id: Modules, prerequisites: {s \in BoundedSeq(Modules, 2) : IsInjective(s)}]] :
      Ran("cross_module_consistency", modules, FALSE, Consistency(modules))

slm_hint_generation ==
  \E orders \in {s \in BoundedSeq(Rules, 2) : IsInjective(s)}, links \in [Rules -> Rules \cup {NoTerm}],
     answers \in [Rules -> Answers] :
    Ran("slm_hint_generation", [orders |-> orders, answers |-> answers], FALSE, OrderHints(orders, links, answers))

logic_scrape_review ==
  \E enabled \in BOOLEAN, records \in BoundedSeq({"flagged", "other"}, MaxEntries) :
    Ran("logic_scrape_review", [enabled |-> enabled, records |-> records], FALSE, ScrapeReview(enabled, records))

context_crawler ==
  \E modules \in {s \in BoundedSeq(Modules, 2) : IsInjective(s)} :
    \E answers \in [ToSet(modules) -> Hints] :
      Ran("context_crawler", [modules |-> modules, answers |-> answers],
          CrawlRaises(modules, answers), Crawl(modules, answers))

gated_staging ==
  \E glossary \in Glossaries, drafts \in Drafts :
    Ran("gated_staging", [glossary |-> glossary, drafts |-> drafts],
        Contains(drafts, "malformed"), Staging(glossary) \o StagingDrafts(glossary, drafts))

Invariants == BoundedSeq([id: Rules, shape: Shapes], 2)

(* A domain: what it opts in to, and what it has. A glossary may have no    *)
(* term that is a word.                                                     *)
Domain(flags, terms, invariants, id) ==
  [id |-> id, enabled |-> flags[1], peer |-> flags[2], share_glossary |-> flags[3], share_invariants |-> flags[4],
   glossary |-> terms # {NoTerm}, terms |-> terms \ {NoTerm}, invariants |-> invariants]

All == <<TRUE, TRUE, TRUE, TRUE>>

(* Any options of two domains that have the same, and any two domains that  *)
(* share everything.                                                        *)
cross_domain_synthesis ==
  \/ \E f, g \in [1..4 -> BOOLEAN], rule \in Rules, shape \in Shapes :
       LET a == Domain(f, Terms, <<[id |-> rule, shape |-> shape]>>, "a")
           b == Domain(g, Terms, <<[id |-> rule, shape |-> shape]>>, "b")
       IN Ran("cross_domain_synthesis", <<a, b>>, FALSE, Synthesis(a, b))
  \/ \E s, t \in SUBSET Terms \cup {{NoTerm}}, i, j \in Invariants :
       LET a == Domain(All, s, i, "a")
           b == Domain(All, t, j, "b")
       IN Ran("cross_domain_synthesis", <<a, b>>, FALSE, Synthesis(a, b))

(* The next run.                                                            *)
Restart ==
  /\ task' = "none"
  /\ input' = <<>>
  /\ success' = TRUE
  /\ proposals' = <<>>

Next ==
  /\ task = "none"
  /\ \/ glossary_expansion \/ glossary_pruning \/ rejection_corpus_alignment \/ cross_module_consistency
     \/ domain_physics_constraint_refresh \/ slm_hint_generation \/ logic_scrape_review
     \/ context_crawler \/ gated_staging \/ cross_domain_synthesis

Spec == Init /\ [][Next \/ Restart]_vars

(* ---- Properties -------------------------------------------------------------------- *)

Times(proposal) == Cardinality({i \in DOMAIN proposals : proposals[i] = proposal})

(* A new term is proposed once, however many ingestions have it, and a term *)
(* that occurs n times in a glossary is reported n - 1 times, as a chain of *)
(* neighbouring places.                                                     *)
EachTermOnce ==
  /\ task = "glossary_expansion" =>
       \A t \in Terms :
         Times([kind |-> "glossary_add", term |-> t]) =
           IF t \notin input.known
              /\ \E i \in DOMAIN input.records :
                   input.records[i].type = "IngestionRecord" /\ Contains(input.records[i].words, t)
           THEN 1 ELSE 0
  /\ task = "gated_staging" /\ success =>
       \A t \in Terms :
         LET places == {i \in DOMAIN input.glossary : input.glossary[i].term = t}
         IN {p \in ToSet(proposals) : p.kind = "glossary_duplicate" /\ p.first \in places}
              = {[kind |-> "glossary_duplicate", first |-> q[1], second |-> q[2]] :
                   q \in {r \in places \X places : r[1] < r[2] /\ places \cap (r[1] + 1)..(r[2] - 1) = {}}}

(* Two modules that require one another are reported from both sides, one   *)
(* that requires itself once, and nothing else is.                          *)
CyclesAreMutual ==
  task = "cross_module_consistency" =>
    LET Of(m) == {i \in DOMAIN input : input[i].id = m}
        requires(m, p) == Of(m) # {} /\ Contains(input[Max(Of(m))].prerequisites, p)
    IN \A m, p \in Modules :
         Times([kind |-> "prerequisite_cycle", module_a |-> m, module_b |-> p]) =
           IF requires(m, p) /\ requires(p, m) THEN 1 ELSE 0

(* One answer that is no object takes the proposals of all the others with  *)
(* it; one that does not parse takes only its own.                          *)
OneAnswerFails ==
  /\ task = "context_crawler" /\ success =>
       \A m \in DOMAIN input.answers :
         /\ ~Contains(input.answers[m], "malformed")
         /\ Times([kind |-> "context_hint", module |-> m]) =
              Cardinality({i \in DOMAIN input.answers[m] : input.answers[m][i] = "content"})
  /\ task = "slm_hint_generation" =>
       {p.order : p \in ToSet(proposals)} = {o \in ToSet(input.orders) : input.answers[o] = "hint"}
  /\ ~success =>
       \/ task = "context_crawler" /\ \E m \in DOMAIN input.answers : Contains(input.answers[m], "malformed")
       \/ task = "gated_staging" /\ Contains(input.drafts, "malformed")

(* Two domains are proposed only if both have opted in, name one another    *)
(* and share what is compared, with both as approvers; and then whichever   *)
(* comes first, with as many invariants as the two have in common by shape, *)
(* if no domain has two invariants of one id.                               *)
SynthesisIsMutual ==
  task = "cross_domain_synthesis" =>
    LET a == input[1]
        b == input[2]
        distinct(s) == \A i, j \in DOMAIN s : s[i].id = s[j].id => i = j
        count(s, h) == Cardinality({i \in DOMAIN s : s[i].shape = h})
    IN /\ (proposals # <<>>) <=> (Synthesis(b, a) # <<>>)
       /\ \A i \in DOMAIN proposals :
            /\ \A d \in {a, b} : d.enabled /\ d.peer /\ Contains(proposals[i].required_approvers, d.id)
            /\ proposals[i].terms # {} => a.share_glossary /\ b.share_glossary
            /\ proposals[i].matched # <<>> => a.share_invariants /\ b.share_invariants
            /\ proposals[i].matched # <<>> /\ distinct(a.invariants) /\ distinct(b.invariants) =>
                 Len(proposals[i].matched) =
                   MapThenSumSet(LAMBDA h : Min({count(a.invariants, h), count(b.invariants, h)}), Shapes)
=============================================================================
