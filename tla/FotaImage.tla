----------------------------- MODULE FotaImage -----------------------------
(***************************************************************************)
(* What a FOTA download promises about the image it leaves behind: the     *)
(* device holds a prefix of the image, which grows unit after unit and may *)
(* be cut back (a reset of the device, a fresh start), and once the whole  *)
(* image is there it is marked for MCUboot and not touched again.  It      *)
(* promises nothing more once a download was resumed and reported as over  *)
(* in a race of its work item and its callback.                            *)
(***************************************************************************)
EXTENDS Naturals, Sequences

CONSTANT Image      \* the units of the image
VARIABLES stored,   \* the units held
          marked,   \* MCUboot was asked to install them
          raced     \* whether there was such a race

ImageInit == stored = <<>> /\ marked = FALSE /\ raced = FALSE

Prefix(n) == SubSeq(Image, 1, n)

Extend ==
    /\ ~marked
    /\ \E n \in Len(stored) .. Len(Image) : stored' = Prefix(n)
    /\ UNCHANGED marked

CutBack ==
    /\ ~marked
    /\ \E n \in 0 .. Len(stored) : stored' = SubSeq(stored, 1, n)
    /\ UNCHANGED marked

Mark ==
    /\ stored = Image
    /\ marked' = TRUE
    /\ UNCHANGED stored

Race == raced' = TRUE

ImageNext == Race \/ ((Extend \/ CutBack \/ Mark) /\ UNCHANGED raced)
ImageSpec == ImageInit /\ [][ImageNext]_<<stored, marked, raced>>
=============================================================================
