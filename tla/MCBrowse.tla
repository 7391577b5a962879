------------------------------ MODULE MCBrowse ------------------------------
(* A small keyspace for Browse: contents of a listed and of an unlisted type, *)
(* one of them longer than a page.                                            *)
EXTENDS Browse

MCContent == {
  [type |-> "string", value |-> <<"a">>, ttl |-> -1],
  [type |-> "string", value |-> <<"b">>, ttl |-> 9],
  [type |-> "list", value |-> <<"x", "y">>, ttl |-> -1],
  [type |-> "stream", value |-> <<"e">>, ttl |-> -1]}
=============================================================================
