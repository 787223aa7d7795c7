--------------------------- MODULE ProductBundle ---------------------------
(***************************************************************************)
(* ProductResolver.select_bundle in products/resolver.py: which files of   *)
(* those found make up the answer to a request for several product types.  *)
(* A request has types, tiers and centres, each in order of preference; a  *)
(* file says which type, centre and tier it is of.                         *)
(***************************************************************************)
EXTENDS SequencesExt

CONSTANT Mixed      \* settings.products.allow_mixed_center

\* _group_candidates and _best_remote: the first file of a type, of the
\* centres and tiers given; none or one.
Best(files, type, centers, tiers) ==
    LET k == SelectInSeq(files, LAMBDA f : /\ f.type = type /\ f.center \in centers
                                           /\ f.tier \in tiers)
    IN  IF k = 0 THEN <<>> ELSE <<files[k]>>

\* The best file of each type, in order of the types.
BestOfEach(files, types, centers, tiers) ==
    FlattenSeq([k \in DOMAIN types |-> Best(files, types[k], centers, tiers)])

Complete(bundle, types) == Len(bundle) = Len(types)

\* The tiers of a request crossed with its centres, tier first.
Pairs(r) == FlattenSeq([t \in DOMAIN r.tiers |->
                [c \in DOMAIN r.centers |-> [tier |-> r.tiers[t], center |-> r.centers[c]]]])

\* _select_best_partial: per type the first file, best tier first, then centre.
Partial(r, files) ==
    LET best(type) ==
            LET k == SelectInSeq(Pairs(r), LAMBDA q :
                        Best(files, type, {q.center}, {q.tier}) # <<>>)
            IN  IF k = 0 THEN <<>>
                ELSE Best(files, type, {Pairs(r)[k].center}, {Pairs(r)[k].tier})
    IN  FlattenSeq([k \in DOMAIN r.types |-> best(r.types[k])])

\* Mutant of Bundle: a mixed bundle is taken before those of one centre.
BundleMixedFirst(r, files) ==
    LET t == SelectInSeq(r.tiers, LAMBDA tier :
                Complete(BestOfEach(files, r.types, ToSet(r.centers), {tier}), r.types))
    IN  IF t # 0 THEN BestOfEach(files, r.types, ToSet(r.centers), {r.tiers[t]})
        ELSE Partial(r, files)

(* One tier of one centre, complete; else one tier of several centres,     *)
(* complete, if they may be mixed; else whatever there is.                 *)
Bundle(r, files) ==
    LET one == SelectInSeq(Pairs(r), LAMBDA q :
                Complete(BestOfEach(files, r.types, {q.center}, {q.tier}), r.types))
        mix == SelectInSeq(r.tiers, LAMBDA tier :
                Complete(BestOfEach(files, r.types, ToSet(r.centers), {tier}), r.types))
    IN  IF one # 0
        THEN BestOfEach(files, r.types, {Pairs(r)[one].center}, {Pairs(r)[one].tier})
        ELSE IF Mixed /\ mix # 0
        THEN BestOfEach(files, r.types, ToSet(r.centers), {r.tiers[mix]})
        ELSE Partial(r, files)

\* The types a bundle has no file of: DownloadPlan.unavailable.
Unavailable(r, bundle) == ToSet(r.types) \ {bundle[k].type : k \in DOMAIN bundle}
=============================================================================
