--------------------------- MODULE MCFileUpload ---------------------------
(* Small instances of FileUpload. *)
EXTENDS FileUpload
=============================================================================
