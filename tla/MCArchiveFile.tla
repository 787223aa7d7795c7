---------------------------- MODULE MCArchiveFile ----------------------------
(***************************************************************************)
(* The kinds of files of the archive: compact RINEX 3 observations, RINEX  *)
(* 2 observations (the plan looks for X.24d, not for X.24o), navigation    *)
(* files, ZIPs (the plan looks for the ZIP), products, data that is not    *)
(* validated, plain RINEX and the bundles of several stations.             *)
(***************************************************************************)
EXTENDS ArchiveFile

File(steps, looked, data) ==
    [steps |-> steps, looked |-> looked, data |-> data, bundle |-> FALSE]

CompactGz == File(<<"gzip", "hatanaka">>, 2, "rinex")
LegacyZ == File(<<"lzw", "hatanaka">>, 1, "rinex")
NavigationGz == File(<<"gzip">>, 1, "rinex")
ObservationZip == File(<<"zip">>, 0, "rinex")
ProductZ == File(<<"lzw">>, 1, "product")
OtherGz == File(<<"gzip">>, 1, "other")
Plain == File(<<>>, 0, "rinex")
Bundle == [steps |-> <<"zip">>, looked |-> 0, data |-> "rinex", bundle |-> TRUE]

MCKinds ==
    {CompactGz, LegacyZ, NavigationGz, ObservationZip, ProductZ, OtherGz, Plain, Bundle}
MCCompact == {CompactGz}
=============================================================================
