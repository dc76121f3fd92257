----------------------------- MODULE MCQedCrash -----------------------------
EXTENDS QedCrash

\* With and without backing file, with and without a volatile cache.
AllModes == BOOLEAN \X BOOLEAN

\* No backing file, a volatile cache.
PlainVolatile == {<<FALSE, TRUE>>}
=============================================================================
