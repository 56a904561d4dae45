--------------------------- MODULE MCRepositorySync ---------------------------
(***************************************************************************)
(* Two installations that share two repositories, two handlers at a time,  *)
(* and pages of one repository, so that every list spans several pages.    *)
(***************************************************************************)
EXTENDS RepositorySync

Accounts == {"i1", "i2"}
Repositories == 1..2
Slots == {"h1", "h2"}
=============================================================================
