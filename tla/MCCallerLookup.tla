--------------------------- MODULE MCCallerLookup ---------------------------
(* One number that calls through the PBX's own host and through the account's
   domain.  A contact may hold the address and the number as it is dialled, the number in
   its international form, or neither.  Under the plan "uk" the number is read in both
   its forms; under "none" only in its international form. *)
EXTENDS CallerLookup

SomeFriends == 1 .. 2
TwoAccounts == {1, 2}
SomeCards == {[addresses |-> {"07@dom"}, numbers |-> {"07"}],
              [addresses |-> {}, numbers |-> {"+447"}],
              [addresses |-> {}, numbers |-> {}]}
DirectoryCards == {[addresses |-> {"07@dom"}, numbers |-> {}],
                   [addresses |-> {"07@dom"}, numbers |-> {"+447"}]}
SomeNumber == [a \in Addresses |-> "07"]
SomeNormal ==
  [p \in Plans |-> [n \in Numbers |-> IF p = "uk" \/ n = "+447" THEN "+447" ELSE Nothing]]
SomeRebased ==
  [d \in Domains |-> [a \in Addresses |-> IF d = "dom" /\ a = "07@ip" THEN "07@dom" ELSE Nothing]]
=============================================================================
