----------------------------- MODULE MCEepromFs -----------------------------
\* Three entries and four sectors of two bytes: a file of six bytes needs a
\* list entry, and two such files do not fit.
EXTENDS EepromFs
=============================================================================
