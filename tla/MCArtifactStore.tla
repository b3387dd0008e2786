-------------------------- MODULE MCArtifactStore --------------------------
EXTENDS ArtifactStore, TLC
MCSymmetry == Permutations(Client) \cup Permutations(Id \ {First})
=============================================================================
