----------------------------- MODULE MCServices -----------------------------
EXTENDS Services

\* What has come or gone, on both wallets.
MCHistoryFilters == {<<"COMPLETED", "ALL">>}

\* One of the names, and both; a part of the address, and all of it.
MCNameChoices == {{"firstName"}, {"firstName", "lastName"}}
MCPartChoices == {{"street"}, {"street", "city"}}
=============================================================================
