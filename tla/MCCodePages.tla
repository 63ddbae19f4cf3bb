---------------------------- MODULE MCCodePages ----------------------------
EXTENDS CodePages

\* Two functions on the last two pages of the code; the first one crosses
\* into the second page.
MCEntryPage == [e \in Entries |-> IF e \in Straddling THEN 5 ELSE 6]

\* Images of one and two pages, and the globals they introduce.
MCRequests == {<<"code", 1>>, <<"code", 2>>, <<"state", 1>>}
=============================================================================
