------------------------------ MODULE MCImageCopy ------------------------------
(* Constant values for the runs of ImageCopy. *)
EXTENDS ImageCopy

MCBlocks == {1, 4, 8}
MCFormats == {"NV12", "NV12M"}
=============================================================================
