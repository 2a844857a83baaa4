------------------------------ MODULE MCCatalog ------------------------------
(* One table of the user's, of two fields.                                   *)
EXTENDS Catalog

MCUserTable == {"t"}
MCFields == [n \in Name |->
  CASE n = "table_catalog" -> <<"table_name", "slot_size">>
    [] n = "field_catalog" -> <<"table_name", "field_name">>
    [] OTHER -> <<"a", "b">>]
=============================================================================
