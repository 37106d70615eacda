---------------------------- MODULE MCGitSources ----------------------------
(* One source with one bound skill and two previews of it, for what the     *)
(* code says of sibling previews and does not do.                           *)
EXTENDS TLC, GitSources

CONSTANTS pathP, skillP

MCSlugOf == pathP :> skillP
MCCommits == [Paths -> Digests]
=============================================================================
