------------------------------- MODULE Uploads -------------------------------
(***************************************************************************)
(* The picture of one idol or product: uploads save a file first and then  *)
(* commit its URL in the row (utils/storage.py, the image handlers of      *)
(* router/talent/idol.py and router/marketplace/products.py).  The disk is *)
(* written chunk by chunk; a bucket takes a whole file at once.            *)
(***************************************************************************)
CONSTANTS
  Uploaders,    \* upload requests, one at a time each
  Files,        \* random names; bounds the uploads
  NoFile        \* no name, and the URL of a row without a picture

ASSUME FileAssumption == NoFile \notin Files

VARIABLES
  file,         \* what is stored under a name: nothing, a part or the whole
  picture,      \* the name in profile_image_url or image_url
  writing,      \* the name an upload saves under, NoFile if it is idle
  saved         \* save() has returned

uploadVars == <<file, picture, writing, saved>>

IsSaving(w) == writing[w] # NoFile /\ ~saved[w]

UploadEnds(w) ==
  /\ writing' = [writing EXCEPT ![w] = NoFile]
  /\ saved' = [saved EXCEPT ![w] = FALSE]

-----------------------------------------------------------------------------
\* _new_filename refuses what is no image; a name is never used twice
NewFilename(w, f) ==
  /\ writing[w] = NoFile
  /\ file[f] = "none" /\ \A v \in Uploaders : writing[v] # f
  /\ writing' = [writing EXCEPT ![w] = f]
  /\ UNCHANGED <<file, picture, saved>>

\* LocalStorageBackend.save opens the file and writes a chunk
WriteChunk(w) ==
  /\ IsSaving(w) /\ file[writing[w]] = "none"
  /\ file' = [file EXCEPT ![writing[w]] = "part"]
  /\ UNCHANGED <<picture, writing, saved>>

\* the last chunk, or put_object of S3StorageBackend
SaveReturns(w) ==
  /\ IsSaving(w)
  /\ file' = [file EXCEPT ![writing[w]] = "whole"]
  /\ saved' = [saved EXCEPT ![w] = TRUE]
  /\ UNCHANGED <<picture, writing>>

\* mutant: the loop ends at the limit instead of raising
CutAtLimit(w) ==
  /\ IsSaving(w)
  /\ saved' = [saved EXCEPT ![w] = TRUE]
  /\ UNCHANGED <<file, picture, writing>>

\* MAX_IMAGE_BYTES exceeded: what was written is unlinked
TooLarge(w) ==
  /\ IsSaving(w)
  /\ file' = [file EXCEPT ![writing[w]] = "none"]
  /\ UploadEnds(w)
  /\ UNCHANGED picture

\* an error of the disk or of the bucket, or a crash: a part stays
SavingFails(w) ==
  /\ IsSaving(w)
  /\ UploadEnds(w)
  /\ UNCHANGED <<file, picture>>

\* set_idol_image or set_product_image; the old file stays, unnamed
SetImage(w) ==
  /\ saved[w]
  /\ picture' = writing[w]
  /\ UploadEnds(w)
  /\ UNCHANGED file

\* no such row, not the manager's, or a crash: the file stays, unnamed
ImageNotSet(w) ==
  /\ saved[w]
  /\ UploadEnds(w)
  /\ UNCHANGED <<file, picture>>

UploadNext ==
  \E w \in Uploaders :
    \/ \E f \in Files : NewFilename(w, f)
    \/ WriteChunk(w) \/ SaveReturns(w) \/ TooLarge(w) \/ SavingFails(w)
    \/ SetImage(w) \/ ImageNotSet(w)

UploadInit ==
  /\ file = [f \in Files |-> "none"]
  /\ picture = NoFile
  /\ writing = [w \in Uploaders |-> NoFile]
  /\ saved = [w \in Uploaders |-> FALSE]

-----------------------------------------------------------------------------
UploadTypeOK ==
  /\ file \in [Files -> {"none", "part", "whole"}]
  /\ picture \in Files \cup {NoFile}
  /\ writing \in [Uploaders -> Files \cup {NoFile}]
  /\ saved \in [Uploaders -> BOOLEAN]

\* A row names only a file that is stored in full and stays, whichever
\* uploads overlap, are too large, fail or die half-way.
PictureIsWhole == picture # NoFile => file[picture] = "whole"
=============================================================================
