-------------------------- MODULE MCDocumentQueues --------------------------
(***************************************************************************)
(* Two documents for the model checker: a scanned PDF and a DOCX.          *)
(***************************************************************************)
EXTENDS DocumentQueues

CONSTANTS pdf, docx

MCFiles == {pdf, docx}
MCEdited == {pdf}
MCImageOnly == {pdf} \X Versions
MCNothing == {}
\* Every way a document can fail to go through.
MCBlank == {<<pdf, 2>>}
MCOcrThrows == {<<pdf, 2>>}
MCUnreadable == {<<pdf, 3>>}
MCRefused == {<<"extract", docx>>}
=============================================================================
