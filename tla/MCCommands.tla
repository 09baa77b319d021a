----------------------------- MODULE MCCommands -----------------------------
(* One command of every kind, against every service the modules allow; the *)
(* runtimes are three versions of two minor lines, the releases of rvs two *)
(* minor lines with a candidate, and a new major version.                  *)
EXTENDS Commands

MCRuntime == {<<3, 1, 4>>, <<3, 12, 0>>, <<3, 12, 1>>}
MCTried == <<"keyring", "vault">>

MCRelease == <<<<1, 1, 0, 1, 0>>, <<1, 2, 0, 0, 1>>, <<1, 2, 0, 1, 0>>, <<2, 0, 0, 1, 0>>>>

\* The first release; a second minor line; a new channel, the old one no longer supported;
\* and a minor line whose target is not of it.
MCOf(latest, minors) == [supported |-> TRUE, latest |-> latest, minors |-> minors]
MCSigned(made, channels) ==
    [made |-> made, expires |-> made + 2, recommended |-> 1, channels |-> channels]
MCMinors(first) ==
    [line \in {<<1, 1>>, <<1, 2>>} |-> IF line = <<1, 1>> THEN first ELSE MCRelease[3]]
MCFirst == MCOf(MCRelease[1], [line \in {<<1, 1>>} |-> MCRelease[1]])
MCSecond == MCOf(MCRelease[3], MCMinors(MCRelease[1]))
MCMajor == MCOf(MCRelease[4], [line \in {<<2, 0>>} |-> MCRelease[4]])
MCManifest == {MCSigned(1, <<MCFirst>>), MCSigned(2, <<MCSecond>>),
               MCSigned(3, <<[MCSecond EXCEPT !.supported = FALSE], MCMajor>>),
               MCSigned(1, <<MCOf(MCRelease[3], MCMinors(MCRelease[3]))>>)}
=============================================================================
