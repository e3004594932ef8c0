----------------------------- MODULE MCClientState -----------------------------
(***************************************************************************)
(* A small instance of ClientState for TLC.  "search" stands for the files    *)
(* that a migration may drop (the request of a search, a card), archive (the  *)
(* collections of a former protocol, an unreadable round) or leave in a       *)
(* conflict; the archive is a file of the account like any other.             *)
(***************************************************************************)
EXTENDS ClientState, TLC
SearchAndArchive == <<"search", "archive">>
AccountSymmetry == Permutations(Accounts)
===============================================================================
