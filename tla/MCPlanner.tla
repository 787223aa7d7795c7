------------------------------ MODULE MCPlanner ------------------------------
(***************************************************************************)
(* A region of two providers, epn and rgna, and two global mirrors, bkg    *)
(* and ign.  Station a is published by epn, b by rgna, c and g are stations*)
(* of the mirrors with one four-letter code, c also an IGS station inside  *)
(* the region.  epn has two variants of a day; rgna hourly files, one of   *)
(* them twice; the mirrors have two variants of c under names that g       *)
(* shares, a file of a name that is refused, and products of two centres   *)
(* and two tiers.  In a second region geo packs what is asked of it at a   *)
(* time into a bundle: those of its stations s1 and s2, asked one by one,  *)
(* have one name, one of s1 has another.                                   *)
(***************************************************************************)
EXTENDS Planner

CONSTANTS a, b, c, g, s1, s2, epn, rgna, bkg, ign, geo, europe, japan, eu, mx, orbit, clock,
          final, rapid, igs, cod, i1, i2, i3, i4, i5, i6

Row(srcs, provs, isIgs) == {[srcs |-> srcs, provs |-> provs, igs |-> isIgs]}
MCKnown == [s \in {a, b, c, g, s1, s2} |->
    CASE s = a -> Row(<<eu>>, <<bkg, epn>>, TRUE)
      [] s = b -> Row(<<>>, <<rgna, epn>>, FALSE)
      [] s = c -> Row(<<>>, <<bkg>>, TRUE)
      [] s = g -> {}
      [] OTHER -> Row(<<>>, <<geo>>, FALSE)]
MCSourceOf == [s \in {eu, mx} |->
    [provider |-> IF s = eu THEN epn ELSE rgna, network |-> europe]]
MCMembers == [n \in {europe, japan} |-> IF n = europe THEN <<rgna, epn>> ELSE <<geo>>]
MCShort == [s \in {a, b, c, g, s1, s2, "nav", orbit, clock} |-> IF s = g THEN c ELSE s]

File(owner, day, type, name, covers) ==
    [owner |-> owner, day |-> day, type |-> type, name |-> name, id |-> name,
     covers |-> covers, center |-> None, tier |-> None]
Obs(s, d, n) == File(s, d, "obs", n, {<<s, d>>})
Packed(d, n, covers) == File(None, d, "obs", n, covers)
Nav(d, n) == File(None, d, "nav", n, {<<"nav", d>>})
Product(type, d, n, who, when) ==
    [File(None, d, type, n, {<<type, d>>}) EXCEPT !.center = who, !.tier = when]

MCRank == [n \in {i1, i2, i3, i4, i5, i6} |->
    CASE n = i1 -> 1 [] n = i2 -> 0 [] n = i3 -> 2 [] n = i4 -> 3 [] n = i5 -> 4 [] OTHER -> 5]

MCOffer == [p \in {epn, rgna, bkg, ign, geo} |->
    CASE p = epn -> <<Obs(a, 1, i1), Obs(a, 1, i2), Obs(a, 2, i1)>>
      [] p = rgna -> <<Obs(b, 1, i1), Obs(b, 1, i1),
                       Obs(b, 2, i3), Obs(b, 1, i4)>>
      [] p = bkg -> <<Obs(c, 1, i1), Obs(c, 1, i2), Obs(g, 1, i1), Nav(1, i1), Nav(1, i3),
                      Product(orbit, 1, i1, igs, final), Product(orbit, 1, i3, cod, final),
                      Product(orbit, 1, i5, cod, rapid), Product(orbit, 2, i4, cod, rapid),
                      Product(clock, 1, i2, cod, rapid)>>
      [] p = geo -> <<Packed(1, i3, {<<s1, 1>>}), Packed(1, i3, {<<s2, 1>>}),
                       Packed(1, i4, {<<s1, 1>>}), Packed(2, i5, {s1, s2} \X {2, 3})>>
      [] p = ign -> <<Obs(c, 1, i2), Obs(c, 2, i3), Nav(1, i3), Nav(2, i6),
                      Product(clock, 1, i5, cod, final)>>]

Ask(kind, from, stations, days, nets) ==
    [kind |-> kind, from |-> from, stations |-> stations, days |-> days, nets |-> nets,
     srcs |-> {}, discover |-> FALSE, types |-> <<>>, tiers |-> <<>>, centers |-> <<>>,
     overwrite |-> FALSE]
Products(from, days, tiers) ==
    [Ask("product", from, <<>>, days, <<>>) EXCEPT !.types = <<orbit, clock>>,
     !.tiers = tiers, !.centers = <<igs, cod>>]

MCRequests == {
    Ask("obs", None, <<a, b, c>>, <<1>>, <<europe>>),
    Ask("obs", None, <<a, b>>, <<1, 2>>, <<europe>>),
    [Ask("obs", None, <<a, g>>, <<1>>, <<europe>>) EXCEPT !.srcs = {eu}],
    Ask("obs", None, <<c, g>>, <<1, 2>>, <<>>),
    Ask("obs", bkg, <<c, g>>, <<1>>, <<>>),
    [Ask("obs", None, <<>>, <<1>>, <<europe>>) EXCEPT !.discover = TRUE, !.overwrite = TRUE],
    [Ask("obs", None, <<>>, <<1>>, <<>>) EXCEPT !.discover = TRUE],
    Ask("obs", None, <<s1, s2>>, <<1>>, <<japan>>),
    Ask("obs", geo, <<s1, s2>>, <<2, 3>>, <<japan>>),
    Ask("nav", None, <<>>, <<1, 2>>, <<>>),
    Products(None, <<1>>, <<final, rapid>>),
    Products(bkg, <<1>>, <<final, rapid>>),
    [Products(None, <<1>>, <<final>>) EXCEPT !.types = <<clock, clock>>]}

MCPriority == <<bkg, ign>>
MCRegistered == <<bkg, epn, geo, ign, rgna>>
MCOnDisk == {<<1, "obs", i1>>}
\* The products of two days, for one provider that has both days.
MCDays == {Products(bkg, <<1, 2>>, <<rapid>>)}

MCCapable == [kind \in {"obs", "nav"} |->
    IF kind = "nav" THEN {bkg, ign} ELSE {epn, rgna, bkg, ign, geo}]
=============================================================================
