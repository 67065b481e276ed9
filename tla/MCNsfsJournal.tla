--------------------------- MODULE MCNsfsJournal ---------------------------
EXTENDS NsfsJournal
====
