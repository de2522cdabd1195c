---------------------------- MODULE MCDeployment ----------------------------
(* Configurations and replications of Deployment for TLC. *)
EXTENDS Deployment

Local(n) == [remote |-> FALSE, cores |-> <<n>>]
Remote(cores) == [remote |-> TRUE, cores |-> cores]

\* one host, two hosts of different size, three hosts, of which two may be
\* connected without the third
AllConfigs == {Local(2), Remote(<<2, 1>>), Remote(<<1, 1, 1>>)}
AllReplications == {Unlimited, Limited(2), OnePerHost, One}
=============================================================================
