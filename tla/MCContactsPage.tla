--------------------------- MODULE MCContactsPage ---------------------------
(* Two address books.  "ann" and "ann moved" differ only in what hashSearchResults leaves
   out: the organisation, the picture, the number of phone numbers. *)
EXTENDS ContactsPage

NamesOnly == [c \in Contents |-> IF c = "ann moved" THEN "ann" ELSE c]
=============================================================================
