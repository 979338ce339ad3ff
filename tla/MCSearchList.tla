---------------------------- MODULE MCSearchList ----------------------------
(* Two people: one with an address, whose name or looks can change, and one with a number
   only, who can change name.  One text matches all, the other one of two names. *)
EXTENDS SearchList

Card(key, name, looks) == [key |-> key, name |-> name, looks |-> looks]

TheCards ==
  [ann |-> {Card("sip:ann", "Ann", "old"), Card("sip:ann", "Ann", "new"), Card("sip:ann", "Bo", "old")},
   cat |-> {Card("+44", "Ann", "old"), Card("+44", "Bo", "old")}]

TheOrder == <<"ann", "cat">>
TheAddresses == {"sip:ann"}
TheMatching == [everything |-> {"Ann", "Bo"}, bo |-> {"Bo"}]
=============================================================================
