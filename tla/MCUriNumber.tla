----------------------------- MODULE MCUriNumber -----------------------------
(* Directories for TLC's runs of UriNumber: with slashes, dots and digits  *)
(* where they could be taken for the number, zero bytes where they could   *)
(* be taken for padding, and without anything.                             *)
EXTENDS UriNumber

MCDirectories ==
    {<<>>, <<"a">>, <<"/">>, <<"a", "/", "1">>, <<"a", ".", "b">>, <<"1", ".", "/">>,
     <<"a", "/", "b", "/", "9", ".">>, <<ZERO, "/", ZERO>>}
=============================================================================
