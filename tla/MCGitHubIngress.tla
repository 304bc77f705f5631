-------------------------- MODULE MCGitHubIngress ---------------------------
(* Instances of GitHubIngress for TLC.                                      *)
EXTENDS GitHubIngress

\* A delivery of each of two Apps, one signed with an empty secret and one of an
\* event that is not allowed.
MCDeliveries == {"push", "release", "unsigned", "issues"}
MCSignedBy ==
  [d \in MCDeliveries |->
     CASE d = "release" -> 2 [] d = "unsigned" -> 0 [] OTHER -> 1]
MCSound == {"push", "release", "unsigned"}
=============================================================================
