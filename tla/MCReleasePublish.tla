-------------------------- MODULE MCReleasePublish --------------------------
(***************************************************************************)
(* Instances of ReleasePublish for TLC: two platform packages, two assets  *)
(* and two compressors.                                                    *)
(***************************************************************************)
EXTENDS ReleasePublish

CONSTANTS linux, darwin, archive, manifest, old, new

TwoPlatforms == {linux, darwin}
TwoAssets == {archive, manifest}
TwoCompressors == {old, new}

=============================================================================
