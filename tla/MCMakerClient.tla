---------------------------- MODULE MCMakerClient ----------------------------
(* Requests, errors and ratios for the small instance of MakerClient.      *)
EXTENDS MakerClient

MCMemoryRatio == [num |-> 1, den |-> 2]

MCCpuRatio == [num |-> 1, den |-> 10]

\* A whole and a broken number of Gi, less than a Mi, cores and millicores, and
\* limits that do not parse; names with pieces to replace, to drop and to trim,
\* names that end like a suffix, one that is too long for a label, one of which
\* nothing is left, and none.
MCRequests ==
    {[name |-> <<"_", "a", " ", "pod", "1">>,
      memory |-> Amount(4, "Gi"), cpu |-> Amount(1, "none")],
     [name |-> <<"a", "-", "!">>,
      memory |-> [halves |-> 9, unit |-> "Gi"], cpu |-> Amount(25, "m")],
     [name |-> <<"!", "_">>, memory |-> Amount(3, "K"), cpu |-> Amount(10, "none")],
     [name |-> <<"pod", "-", "1">>, memory |-> Amount(7, "gigs"), cpu |-> Amount(2, "cores")],
     [name |-> <<>>, memory |-> Amount(1, "Gi"), cpu |-> Amount(1, "m")]}

MCRaws ==
    {<<"text", "body">>, <<"text", "mute body">>, <<"quota text">>,
     <<"text", "quota body", "text">>, <<"text", "headers", "quota body">>}
=============================================================================
