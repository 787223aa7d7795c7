-------------------------- MODULE MCCatalogRefresh --------------------------
(***************************************************************************)
(* Two stations: x is published by the IGS list of bkg and by the European *)
(* list of epn, z by both under the DOMES number of x, all under one       *)
(* four-letter code.  epn answers with its bundled list when its site      *)
(* fails, bkg and rgp with an error.  Start-up stores the snapshot, the    *)
(* built-in IGS station unless one is mapped, and the bundled European     *)
(* list; the page looks for an IGS station once more.  Then the IGS        *)
(* refresh of the session and a refresh of Europe run side by side.        *)
(***************************************************************************)
EXTENDS CatalogRefresh

CONSTANTS x, z, code, bkg, epn, rgp, builtin, igs, europe, eu, fr, d1, q1, q2, session, region

MCSourceOf ==
    [s \in {eu, fr} |-> [provider |-> IF s = eu THEN epn ELSE rgp, network |-> europe]]

IgsEntry(i, d) ==
    [id |-> i, about |-> [domes |-> d, coord |-> q1, names |-> {code},
        nets |-> {igs}, srcs |-> {}, provs |-> {bkg}]]
EuropeEntry(i, d) ==
    [id |-> i, about |-> [domes |-> d, coord |-> q2, names |-> {code},
        nets |-> {europe}, srcs |-> {eu}, provs |-> {epn}]]
FrenchEntry ==
    [id |-> z, about |-> [domes |-> None, coord |-> q1, names |-> {},
        nets |-> {europe}, srcs |-> {fr}, provs |-> {rgp}]]

MCNetwork == [j \in {session, region} |-> IF j = session THEN igs ELSE europe]
MCLine == [j \in {session, region} |-> IF j = session THEN <<bkg>> ELSE <<epn, rgp>>]
MCSeeds == <<
    [prov |-> None, net |-> None, unless |-> None, list |-> <<EuropeEntry(z, None)>>],
    [prov |-> builtin, net |-> igs, unless |-> igs, list |-> <<IgsEntry(x, d1)>>],
    [prov |-> epn, net |-> europe, unless |-> None, list |-> <<EuropeEntry(z, None)>>],
    [prov |-> builtin, net |-> None, unless |-> igs, list |-> <<IgsEntry(x, d1)>>]>>
MCLive == [p \in {bkg, epn, rgp, builtin} |->
    CASE p = bkg -> {<<IgsEntry(x, d1)>>, <<IgsEntry(z, None)>>,
                     <<IgsEntry(z, None), IgsEntry(x, d1)>>}
      [] p = epn -> {<<EuropeEntry(x, None)>>, <<EuropeEntry(z, d1)>>,
                     <<EuropeEntry(z, d1), EuropeEntry(x, None)>>}
      [] p = rgp -> {<<FrenchEntry>>}
      [] p = builtin -> {}]
MCFallback == [p \in {bkg, epn, rgp, builtin} |-> IF p = epn THEN <<EuropeEntry(z, None)>> ELSE None]
=============================================================================
