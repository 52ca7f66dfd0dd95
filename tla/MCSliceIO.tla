------------------------------- MODULE MCSliceIO -------------------------------
(* Small objects: two data slices, chunks of a few bytes in units of two.    *)
EXTENDS SliceIO
=============================================================================
