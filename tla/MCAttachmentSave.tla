--------------------------- MODULE MCAttachmentSave ---------------------------
(* Reading messages and saving attachments: one session of every kind.      *)
EXTENDS AttachmentSave

\* A page has three rows at once, a save also others in its directory.
MCMaxChanges == [read |-> 3, server |-> 3, page |-> 1, save |-> 1]
=============================================================================
