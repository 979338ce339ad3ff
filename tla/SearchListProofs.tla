-------------------------- MODULE SearchListProofs --------------------------
(* The rows of a list of search results, whatever is typed, cleared, saved, deleted or
   synchronized while searches and results are on their way.

   First the merge: that the rows are the results, each once, and that those that stay keep
   their order.  Then the invariant: what the hash speaks for, and what text the last
   search on its way is for. *)
EXTENDS SearchList, QueueFacts

Has(q, kind) == \E i \in DOMAIN q : q[i].kind = kind

\* The last message of a kind.
LastOf(q, kind, i) ==
  /\ i \in DOMAIN q /\ q[i].kind = kind
  /\ \A j \in DOMAIN q : j > i => q[j].kind # kind

\* What the list draws of a contact.
Mark(c) == <<Key(c), c.card.name>>

\* What results with this hash draw.
DrawnBy(h) == {<<KeyOf(e[1], e[2]), e[2]>> : e \in Range(h)}

\* Results that wait have one contact for each key.
ResultsAreDistinct(q) ==
  \A i \in DOMAIN q : q[i].kind = "results" => OneForEachKey(q[i].contacts)

\* Unless it is about to be forgotten, the hash speaks for the last results that wait, and
\* for the rows if none do.
HashSpeaks(h, q, mq, rs, t) ==
  h # NoHash /\ ~Has(mq, "forget") =>
    /\ \A i \in DOMAIN q : LastOf(q, "results", i) => Drawn(q[i].contacts) = DrawnBy(h)
    /\ ~Has(q, "results") /\ ~t => Drawn(rs) = DrawnBy(h)

\* The last search on its way is for the text on show, and comes after the hash is forgotten.
SearchesFollow(tx, mq, due) ==
  tx # NoText =>
    /\ \A i \in DOMAIN mq : LastOf(mq, "search", i) => mq[i].text = tx
    /\ \A i \in DOMAIN mq : mq[i].kind = "forget" =>
         \E j \in DOMAIN mq : j > i /\ mq[j].kind = "search"
    /\ ~Has(mq, "search") /\ due # <<>> => due[Len(due)] = tx

\* The hash of what each text finds now.
Found == [t \in Texts |-> Hash(ResultsFor(t))]

\* With no search due, the hash is of what the text finds now.
HashIsOfTheText(tx, un, q, mq, due, h, found) ==
  tx # NoText /\ ~un /\ ~Has(q, "synchronized") /\ ~Has(mq, "search") /\ due = <<>> =>
    h = found[tx]

\* The inductive invariant.
IInv ==
  /\ TypeOK /\ ResultsAreDistinct(guiQ)
  /\ HashSpeaks(hash, guiQ, modelQ, rows, touched)
  /\ SearchesFollow(text, modelQ, asked)
  /\ HashIsOfTheText(text, unsearched, guiQ, modelQ, asked, hash, Found)

-----------------------------------------------------------------------------
(* Queues *)

\* What each message to the GUI thread carries.
LEMMA NewsParts ==
  /\ \A m \in News :
       /\ m.kind \in {"results", "unchanged", "synchronized", "removed"}
       /\ m.kind = "results" => m.contacts \in Seq(Contacts)
       /\ m.kind = "removed" => m.contact \in Contacts
  /\ \A what \in {"unchanged", "synchronized"} : [kind |-> what] \in News
  /\ \A contacts \in Seq(Contacts) : [kind |-> "results", contacts |-> contacts] \in News
  /\ \A c \in Contacts : [kind |-> "removed", contact |-> c] \in News
BY DEF News

\* What each closure for the linphone thread carries.
LEMMA WorkParts ==
  /\ \A m \in Work :
       /\ m.kind \in {"search", "forget", "remove", "create"}
       /\ m.kind = "search" => m.text \in Texts
       /\ m.kind = "remove" => m.who \in People
       /\ m.kind = "create" => m.contact \in Contacts
  /\ \A t \in Texts : [kind |-> "search", text |-> t] \in Work
  /\ [kind |-> "forget"] \in Work
  /\ \A p \in People : [kind |-> "remove", who |-> p] \in Work
  /\ \A c \in Contacts : [kind |-> "create", contact |-> c] \in Work
BY DEF Work

\* What a queue that grows has of a kind.
LEMMA Grown ==
  ASSUME NEW S, NEW q \in Seq(S), NEW e \in S, NEW kind
  PROVE  Has(Append(q, e), kind) <=> Has(q, kind) \/ e.kind = kind
<1> DEFINE r == Append(q, e)
<1>1. /\ DOMAIN q = 1 .. Len(q) /\ DOMAIN r = 1 .. Len(q) + 1 /\ Len(q) \in Nat
      /\ \A i \in DOMAIN q : r[i] = q[i]
      /\ r[Len(q) + 1] = e
  BY Appended
<1> HIDE DEF r
<1>2. \A i \in DOMAIN r : i \in DOMAIN q \/ i = Len(q) + 1
  BY <1>1
<1>3. Len(q) + 1 \in DOMAIN r /\ \A i \in DOMAIN q : i \in DOMAIN r
  BY <1>1
<1>4. Has(r, kind) <=> Has(q, kind) \/ e.kind = kind
  BY <1>1, <1>2, <1>3 DEF Has
<1>5. QED
  BY <1>4 DEF r

\* The last of a kind in r is the last of q, which grew by e.
Ends(q, e, r, kind) ==
  \A i : LastOf(r, kind, i) =>
    /\ e.kind = kind => r[i] = e
    /\ e.kind # kind => LastOf(q, kind, i) /\ r[i] = q[i]

\* The last of a kind in a queue that grew.
LEMMA GrownLast ==
  ASSUME NEW S, NEW q \in Seq(S), NEW e \in S, NEW kind
  PROVE  Ends(q, e, Append(q, e), kind)
<1> DEFINE r == Append(q, e)
<1> SUFFICES ASSUME NEW i, LastOf(r, kind, i)
             PROVE  /\ e.kind = kind => r[i] = e
                    /\ e.kind # kind => LastOf(q, kind, i) /\ r[i] = q[i]
  BY DEF Ends
<1>1. /\ DOMAIN q = 1 .. Len(q) /\ DOMAIN r = 1 .. Len(q) + 1 /\ Len(q) \in Nat
      /\ \A j \in DOMAIN q : r[j] = q[j]
      /\ r[Len(q) + 1] = e
  BY Appended
<1>2. LastOf(r, kind, i)
  OBVIOUS
<1> HIDE DEF r
<1>3. \A j \in DOMAIN r : j \in DOMAIN q \/ j = Len(q) + 1
  BY <1>1
<1>4. Len(q) + 1 \in DOMAIN r /\ \A j \in DOMAIN q : j \in DOMAIN r /\ Len(q) + 1 > j
  BY <1>1
<1>5. CASE i = Len(q) + 1
  BY <1>1, <1>2, <1>5 DEF LastOf
<1>6. CASE i # Len(q) + 1
  <2>1. i \in DOMAIN q /\ r[i].kind = kind
    BY <1>2, <1>3, <1>6 DEF LastOf
  <2>2. e.kind # kind
    BY <1>1, <1>2, <1>4, <2>1 DEF LastOf
  <2>3. LastOf(q, kind, i)
    BY <1>1, <1>2, <1>4, <2>1 DEF LastOf
  <2>4. QED
    BY <1>1, <2>1, <2>2, <2>3
<1>7. QED
  BY <1>5, <1>6

\* What a queue that is worked off has of a kind.
LEMMA Worked ==
  ASSUME NEW S, NEW q \in Seq(S), q # <<>>, NEW kind
  PROVE  /\ Has(q, kind) <=> Has(Tail(q), kind) \/ Head(q).kind = kind
         /\ ~Has(Tail(q), kind) /\ Head(q).kind = kind => LastOf(q, kind, 1) /\ q[1] = Head(q)
<1> DEFINE r == Tail(q)
<1>1. /\ Head(q) = q[1]
      /\ DOMAIN q = 1 .. Len(q) /\ DOMAIN r = 1 .. Len(q) - 1 /\ Len(q) \in Nat \ {0}
      /\ \A i \in DOMAIN r : r[i] = q[i + 1]
  BY Advanced
<1> HIDE DEF r
<1>2. \A i \in DOMAIN r : i + 1 \in DOMAIN q
  BY <1>1
<1>3. \A j \in DOMAIN q : j = 1 \/ (j > 1 /\ j - 1 \in DOMAIN r /\ (j - 1) + 1 = j)
  BY <1>1
<1>4. 1 \in DOMAIN q /\ \A j \in DOMAIN q : j = 1 \/ (j - 1 \in DOMAIN r /\ r[j - 1] = q[j])
  BY <1>1, <1>3
<1>5. Has(q, kind) <=> Has(r, kind) \/ Head(q).kind = kind
  BY <1>1, <1>2, <1>4 DEF Has
<1>6. ASSUME ~Has(r, kind), Head(q).kind = kind
      PROVE  LastOf(q, kind, 1) /\ q[1] = Head(q)
  <2>1. \A j \in DOMAIN q : j > 1 => q[j].kind # kind
    <3>1. ~(1 > 1)
      OBVIOUS
    <3>2. QED
      BY <1>4, <1>6, <3>1 DEF Has
  <2>2. QED
    BY <1>1, <1>4, <1>6, <2>1 DEF LastOf
<1>7. QED
  BY <1>5, <1>6 DEF r

\* The last of a kind in a queue that is worked off.
LEMMA WorkedLast ==
  ASSUME NEW S, NEW q \in Seq(S), q # <<>>, NEW kind, NEW i, LastOf(Tail(q), kind, i)
  PROVE  LastOf(q, kind, i + 1) /\ Tail(q)[i] = q[i + 1]
<1> DEFINE r == Tail(q)
<1>1. /\ DOMAIN q = 1 .. Len(q) /\ DOMAIN r = 1 .. Len(q) - 1 /\ Len(q) \in Nat \ {0}
      /\ \A j \in DOMAIN r : r[j] = q[j + 1]
  BY Advanced
<1>2. LastOf(r, kind, i)
  OBVIOUS
<1> HIDE DEF r
<1>3. i \in DOMAIN r /\ r[i].kind = kind
  BY <1>2 DEF LastOf
<1>4. i \in Nat /\ i + 1 \in DOMAIN q /\ r[i] = q[i + 1] /\ q[i + 1].kind = kind
  BY <1>1, <1>3
<1>5. ASSUME NEW j \in DOMAIN q, j > i + 1 PROVE q[j].kind # kind
  <2>1. j - 1 \in DOMAIN r /\ j - 1 > i /\ (j - 1) + 1 = j
    BY <1>1, <1>4, <1>5
  <2>2. r[j - 1] = q[j]
    BY <1>1, <2>1
  <2>3. QED
    BY <1>2, <2>1, <2>2 DEF LastOf
<1>6. QED
  BY <1>4, <1>5 DEF LastOf, r

-----------------------------------------------------------------------------
(* The merge of results into the rows *)

\* A set of places that is not empty has a last one.
LEMMA Greatest ==
  ASSUME NEW n \in Nat, NEW S \in SUBSET (1 .. n), S # {}
  PROVE  Max(S) \in S /\ \A i \in S : i <= Max(S)
<1> DEFINE left == {n - i : i \in S}
<1>1. left \in SUBSET Nat /\ left # {}
  <2>1. \A i \in S : n - i \in Nat
    OBVIOUS
  <2>2. QED
    BY <2>1
<1>2. PICK m \in left : \A l \in left : m <= l
  <2> HIDE DEF left
  <2>1. QED
    BY <1>1, LeastNumber
<1>3. PICK i \in S : m = n - i
  BY <1>2
<1>4. \A j \in S : j <= i
  <2>1. \A j \in S : n - i <= n - j
    BY <1>2, <1>3
  <2>2. QED
    BY <2>1
<1>5. QED
  BY <1>4 DEF Max

\* The row of a contact is the last with its key.
LEMMA RowFacts ==
  ASSUME rows \in Seq(Contacts)
  PROVE  /\ \A c : \/ RowOf(c) = 0 /\ \A i \in DOMAIN rows : Key(rows[i]) # Key(c)
                   \/ RowOf(c) \in DOMAIN rows /\ RowOf(c) # 0 /\ Key(rows[RowOf(c)]) = Key(c)
         /\ \A c, d : Key(c) = Key(d) => RowOf(c) = RowOf(d)
<1>1. Len(rows) \in Nat /\ DOMAIN rows = 1 .. Len(rows)
  OBVIOUS
<1>2. ASSUME NEW c
      PROVE  \/ RowOf(c) = 0 /\ \A i \in DOMAIN rows : Key(rows[i]) # Key(c)
             \/ RowOf(c) \in DOMAIN rows /\ RowOf(c) # 0 /\ Key(rows[RowOf(c)]) = Key(c)
  <2> DEFINE same == {i \in DOMAIN rows : Key(rows[i]) = Key(c)}
  <2>1. RowOf(c) = IF same = {} THEN 0 ELSE Max(same)
    BY DEF RowOf
  <2>2. CASE same = {}
    BY <2>1, <2>2
  <2>3. CASE same # {}
    <3>1. same \in SUBSET (1 .. Len(rows))
      BY <1>1
    <3>2. Max(same) \in same
      <4> HIDE DEF same
      <4>1. QED
        BY <1>1, <2>3, <3>1, Greatest
    <3>3. RowOf(c) \in same
      BY <2>1, <2>3, <3>2
    <3>4. QED
      BY <1>1, <3>3
  <2>4. QED
    BY <2>2, <2>3
<1>3. \A c, d : Key(c) = Key(d) => RowOf(c) = RowOf(d)
  BY DEF RowOf
<1>4. QED
  BY <1>2, <1>3

\* The rows that results take, and the results that take none.
Taken(contacts) == {RowOf(c) : c \in Range(contacts)} \ {0}
Untaken(contacts) == {n \in DOMAIN contacts : RowOf(contacts[n]) = 0}

\* A row that results take draws them.
LEMMA SwapFacts ==
  ASSUME rows \in Seq(Contacts), NEW contacts \in Seq(Contacts), OneForEachKey(contacts)
  PROVE  /\ Swapped(contacts) \in Seq(Contacts) /\ DOMAIN Swapped(contacts) = DOMAIN rows
         /\ Taken(contacts) \in SUBSET DOMAIN Swapped(contacts)
         /\ \A n \in DOMAIN contacts : RowOf(contacts[n]) # 0 =>
              /\ RowOf(contacts[n]) \in Taken(contacts)
              /\ Swapped(contacts)[RowOf(contacts[n])].card = contacts[n].card
         /\ \A i \in Taken(contacts) : \E n \in DOMAIN contacts : RowOf(contacts[n]) = i
<1> DEFINE mine(i) == {n \in DOMAIN contacts : RowOf(contacts[n]) = i}
           value(i) == IF mine(i) = {} \/ contacts[Max(mine(i))].card = rows[i].card
                       THEN rows[i] ELSE contacts[Max(mine(i))]
<1>1. /\ Len(contacts) \in Nat /\ DOMAIN contacts = 1 .. Len(contacts)
      /\ Len(rows) \in Nat /\ DOMAIN rows = 1 .. Len(rows)
      /\ \A n \in DOMAIN contacts : contacts[n] \in Contacts
      /\ \A i \in DOMAIN rows : rows[i] \in Contacts
  OBVIOUS
<1>2. Swapped(contacts) = [i \in DOMAIN rows |-> value(i)]
  BY DEF Swapped
<1>3. ASSUME NEW i PROVE mine(i) \in SUBSET DOMAIN contacts /\ mine(i) \in SUBSET (1 .. Len(contacts))
  BY <1>1
<1>4. \A i \in DOMAIN rows : value(i) \in Contacts
  <2>1. SUFFICES ASSUME NEW i \in DOMAIN rows, mine(i) # {} PROVE contacts[Max(mine(i))] \in Contacts
    BY <1>1
  <2>2. Max(mine(i)) \in mine(i)
    <3>1. mine(i) \in SUBSET (1 .. Len(contacts))
      BY <1>3
    <3> HIDE DEF mine
    <3>2. QED
      BY <1>1, <2>1, <3>1, Greatest
  <2>3. QED
    BY <1>1, <2>2
<1>5. Swapped(contacts) \in Seq(Contacts) /\ DOMAIN Swapped(contacts) = DOMAIN rows
  <2> HIDE DEF value
  <2>1. [i \in 1 .. Len(rows) |-> value(i)] \in Seq(Contacts)
    BY <1>1, <1>4
  <2>2. QED
    BY <1>1, <1>2, <2>1
<1>6. \A n \in DOMAIN contacts :
        RowOf(contacts[n]) = 0 \/
        (RowOf(contacts[n]) \in DOMAIN rows /\ Key(rows[RowOf(contacts[n])]) = Key(contacts[n]))
  BY RowFacts
<1>7. Taken(contacts) \in SUBSET DOMAIN rows
  BY <1>6 DEF Taken, Range
<1>8. ASSUME NEW n \in DOMAIN contacts, RowOf(contacts[n]) # 0
      PROVE  Swapped(contacts)[RowOf(contacts[n])].card = contacts[n].card
  <2> DEFINE i == RowOf(contacts[n])
  <2>1. i \in DOMAIN rows /\ Key(rows[i]) = Key(contacts[n])
    BY <1>6, <1>8
  <2>2. \A m \in mine(i) : m = n
    <3>1. SUFFICES ASSUME NEW m \in DOMAIN contacts, RowOf(contacts[m]) = i PROVE m = n
      OBVIOUS
    <3>2. Key(rows[i]) = Key(contacts[m])
      BY <1>6, <1>8, <3>1
    <3>3. QED
      BY <2>1, <3>2 DEF OneForEachKey
  <2>3. n \in mine(i) /\ mine(i) \in SUBSET (1 .. Len(contacts))
    BY <1>3
  <2>4. Max(mine(i)) = n
    <3>1. Max(mine(i)) \in mine(i)
      <4> HIDE DEF mine, i
      <4>1. QED
        BY <1>1, <2>3, Greatest
    <3>2. QED
      BY <2>2, <3>1
  <2>5. Swapped(contacts)[i] = value(i)
    <3> HIDE DEF value
    <3>1. QED
      BY <1>2, <2>1
  <2>6. (value(i) = rows[i] /\ contacts[n].card = rows[i].card) \/ value(i) = contacts[n]
    <3> HIDE DEF mine
    <3>1. QED
      BY <2>3, <2>4
  <2>7. QED
    BY <2>5, <2>6
<1>9. \A n \in DOMAIN contacts : RowOf(contacts[n]) # 0 => RowOf(contacts[n]) \in Taken(contacts)
  BY DEF Taken, Range
<1>10. \A i \in Taken(contacts) : \E n \in DOMAIN contacts : RowOf(contacts[n]) = i
  BY DEF Taken, Range
<1>11. QED
  BY <1>5, <1>7, <1>8, <1>9, <1>10

\* Where each of the merged rows comes from: a row that stays, at its place among those
\* taken, or a result that took none.
LEMMA MergeParts ==
  ASSUME rows \in Seq(Contacts), NEW contacts \in Seq(Contacts), OneForEachKey(contacts)
  PROVE  /\ Merged(contacts) \in Seq(Contacts)
         /\ Merged(contacts) = Kept(contacts) \o New(contacts)
         /\ \A k \in DOMAIN Merged(contacts) :
              \/ /\ k \in DOMAIN Kept(contacts)
                 /\ \E n \in DOMAIN contacts :
                      /\ RowOf(contacts[n]) = Ascending(Taken(contacts))[k]
                      /\ RowOf(contacts[n]) # 0
                      /\ Merged(contacts)[k].card = contacts[n].card
              \/ /\ k - Len(Kept(contacts)) \in DOMAIN New(contacts)
                 /\ k \notin DOMAIN Kept(contacts)
                 /\ \E n \in DOMAIN contacts :
                      /\ n = Ascending(Untaken(contacts))[k - Len(Kept(contacts))]
                      /\ RowOf(contacts[n]) = 0
                      /\ Merged(contacts)[k] = contacts[n]
         /\ \A n \in DOMAIN contacts : \E k \in DOMAIN Merged(contacts) :
              Merged(contacts)[k].card = contacts[n].card
<1> DEFINE r == Merged(contacts)
           old == Kept(contacts)
           new == New(contacts)
           take == Taken(contacts)
           rest == Untaken(contacts)
           swap == Swapped(contacts)
<1>1. /\ swap \in Seq(Contacts) /\ take \in SUBSET DOMAIN swap
      /\ \A n \in DOMAIN contacts : RowOf(contacts[n]) # 0 =>
           RowOf(contacts[n]) \in take /\ swap[RowOf(contacts[n])].card = contacts[n].card
      /\ \A i \in take : \E n \in DOMAIN contacts : RowOf(contacts[n]) = i
  BY SwapFacts
<1>2. rest \in SUBSET DOMAIN contacts /\ \A n \in rest : RowOf(contacts[n]) = 0
  BY DEF Untaken
<1>3. old = Entries(swap, take) /\ new = Entries(contacts, rest) /\ r = old \o new
  BY DEF Kept, New, Merged, Taken, Untaken
<1>z. \A i \in take : i # 0
  BY DEF Taken
<1>u. \A n \in DOMAIN contacts : RowOf(contacts[n]) = 0 => n \in rest
  BY DEF Untaken
<1> HIDE DEF old, new, r, take, rest, swap
<1>4. /\ old \in Seq(Contacts)
      /\ \A k \in DOMAIN old : Ascending(take)[k] \in take /\ old[k] = swap[Ascending(take)[k]]
      /\ \A i \in take : \E k \in DOMAIN old : Ascending(take)[k] = i
  BY <1>1, <1>3, Filtered
<1>5. /\ new \in Seq(Contacts)
      /\ \A k \in DOMAIN new : Ascending(rest)[k] \in rest /\ new[k] = contacts[Ascending(rest)[k]]
      /\ \A n \in rest : \E k \in DOMAIN new : Ascending(rest)[k] = n
  BY <1>2, <1>3, Filtered
<1>6. /\ r \in Seq(Contacts)
      /\ DOMAIN old = 1 .. Len(old) /\ DOMAIN new = 1 .. Len(new)
      /\ DOMAIN r = 1 .. Len(old) + Len(new) /\ Len(old) \in Nat /\ Len(new) \in Nat
      /\ \A k \in DOMAIN old : r[k] = old[k]
      /\ \A k \in DOMAIN new : r[Len(old) + k] = new[k]
  BY <1>3, <1>4, <1>5, Joined
<1>7. \A k \in DOMAIN r : k \in DOMAIN old \/
        (k \notin DOMAIN old /\ k - Len(old) \in DOMAIN new /\ Len(old) + (k - Len(old)) = k)
  BY <1>6
<1>8. \A k \in DOMAIN old : k \in DOMAIN r
  BY <1>6
<1>9. \A k \in DOMAIN new : Len(old) + k \in DOMAIN r
  BY <1>6
<1>10. ASSUME NEW k \in DOMAIN old
       PROVE  \E n \in DOMAIN contacts :
                /\ RowOf(contacts[n]) = Ascending(take)[k] /\ RowOf(contacts[n]) # 0
                /\ r[k].card = contacts[n].card
  <2>1. Ascending(take)[k] \in take /\ r[k] = swap[Ascending(take)[k]]
    BY <1>4, <1>6
  <2>2. PICK n \in DOMAIN contacts : RowOf(contacts[n]) = Ascending(take)[k]
    BY <1>1, <2>1
  <2>3. QED
    BY <1>1, <1>z, <2>1, <2>2
<1>11. ASSUME NEW k \in DOMAIN r, k \notin DOMAIN old
       PROVE  \E n \in DOMAIN contacts :
                /\ n = Ascending(rest)[k - Len(old)] /\ RowOf(contacts[n]) = 0
                /\ r[k] = contacts[n]
  <2>1. k - Len(old) \in DOMAIN new /\ Len(old) + (k - Len(old)) = k
    BY <1>7, <1>11
  <2>2. r[k] = new[k - Len(old)]
    <3>1. r[Len(old) + (k - Len(old))] = new[k - Len(old)]
      BY <1>6, <2>1
    <3>2. QED
      BY <2>1, <3>1
  <2>3. QED
    BY <1>2, <1>5, <2>1, <2>2
<1>12. ASSUME NEW n \in DOMAIN contacts
       PROVE  \E k \in DOMAIN r : r[k].card = contacts[n].card
  <2>1. CASE RowOf(contacts[n]) = 0
    <3>1. PICK k \in DOMAIN new : Ascending(rest)[k] = n
      BY <1>5, <1>u, <2>1
    <3>2. r[Len(old) + k] = contacts[n]
      BY <1>5, <1>6, <3>1
    <3>3. QED
      BY <1>9, <3>2
  <2>2. CASE RowOf(contacts[n]) # 0
    <3>1. PICK k \in DOMAIN old : Ascending(take)[k] = RowOf(contacts[n])
      BY <1>1, <1>4, <2>2
    <3>2. r[k].card = contacts[n].card
      BY <1>1, <1>4, <1>6, <2>2, <3>1
    <3>3. QED
      BY <1>8, <3>2
  <2>3. QED
    BY <2>1, <2>2
<1>13. QED
  BY <1>3, <1>6, <1>7, <1>10, <1>11, <1>12 DEF old, new, r, take, rest

\* The places of those that stay, and of those that are new, are in order.
LEMMA MergeOrder ==
  ASSUME rows \in Seq(Contacts), NEW contacts \in Seq(Contacts), OneForEachKey(contacts)
  PROVE  /\ \A k, l \in DOMAIN Kept(contacts) :
              k < l <=> Ascending(Taken(contacts))[k] < Ascending(Taken(contacts))[l]
         /\ \A k \in DOMAIN Kept(contacts) : k <= Ascending(Taken(contacts))[k]
         /\ \A k, l \in DOMAIN New(contacts) :
              k < l <=> Ascending(Untaken(contacts))[k] < Ascending(Untaken(contacts))[l]
         /\ DOMAIN Kept(contacts) = 1 .. Len(Kept(contacts)) /\ Len(Kept(contacts)) \in Nat
         /\ DOMAIN New(contacts) = 1 .. Len(New(contacts))
<1>1. /\ Swapped(contacts) \in Seq(Contacts) /\ Taken(contacts) \in SUBSET DOMAIN Swapped(contacts)
  BY SwapFacts
<1>2. Untaken(contacts) \in SUBSET DOMAIN contacts
  BY DEF Untaken
<1>3. /\ Kept(contacts) = Entries(Swapped(contacts), Taken(contacts))
      /\ New(contacts) = Entries(contacts, Untaken(contacts))
  BY DEF Kept, New, Taken, Untaken
<1>4. /\ DOMAIN Kept(contacts) = 1 .. Len(Kept(contacts))
      /\ Len(Kept(contacts)) = Cardinality(Taken(contacts)) /\ IsFiniteSet(Taken(contacts))
      /\ \A k, l \in DOMAIN Kept(contacts) :
           k < l <=> Ascending(Taken(contacts))[k] < Ascending(Taken(contacts))[l]
  BY <1>1, <1>3, Filtered
<1>5. /\ DOMAIN New(contacts) = 1 .. Len(New(contacts))
      /\ \A k, l \in DOMAIN New(contacts) :
           k < l <=> Ascending(Untaken(contacts))[k] < Ascending(Untaken(contacts))[l]
  BY <1>2, <1>3, Filtered
<1>6. Taken(contacts) \in SUBSET (Nat \ {0})
  <2>1. DOMAIN Swapped(contacts) \in SUBSET (Nat \ {0})
    BY <1>1
  <2>2. QED
    BY <1>1, <2>1
<1>7. /\ \A k \in 1 .. Cardinality(Taken(contacts)) : k <= Ascending(Taken(contacts))[k]
      /\ Cardinality(Taken(contacts)) \in Nat
  BY <1>4, <1>6, NotBefore
<1>8. QED
  BY <1>4, <1>5, <1>7

\* The rows draw what the results draw, each key once.
LEMMA MergeFacts ==
  ASSUME rows \in Seq(Contacts), NEW contacts \in Seq(Contacts), OneForEachKey(contacts)
  PROVE  /\ Merged(contacts) \in Seq(Contacts)
         /\ Drawn(Merged(contacts)) = Drawn(contacts)
         /\ OneForEachKey(Merged(contacts))
<1> DEFINE r == Merged(contacts)
           m == Len(Kept(contacts))
           take == Taken(contacts)
           rest == Untaken(contacts)
<1>1. /\ r \in Seq(Contacts)
      /\ \A k \in DOMAIN r :
           \/ /\ k \in DOMAIN Kept(contacts)
              /\ \E n \in DOMAIN contacts :
                   /\ RowOf(contacts[n]) = Ascending(take)[k] /\ RowOf(contacts[n]) # 0
                   /\ r[k].card = contacts[n].card
           \/ /\ k - m \in DOMAIN New(contacts) /\ k \notin DOMAIN Kept(contacts)
              /\ \E n \in DOMAIN contacts :
                   /\ n = Ascending(rest)[k - m] /\ RowOf(contacts[n]) = 0
                   /\ r[k] = contacts[n]
      /\ \A n \in DOMAIN contacts : \E k \in DOMAIN r : r[k].card = contacts[n].card
  BY MergeParts
<1>2. /\ \A k, l \in DOMAIN Kept(contacts) : k < l <=> Ascending(take)[k] < Ascending(take)[l]
      /\ \A k, l \in DOMAIN New(contacts) : k < l <=> Ascending(rest)[k] < Ascending(rest)[l]
      /\ DOMAIN Kept(contacts) = 1 .. m /\ m \in Nat /\ DOMAIN New(contacts) = 1 .. Len(New(contacts))
  BY MergeOrder
<1> HIDE DEF r, m, take, rest
<1>3. \A k \in DOMAIN r : \E n \in DOMAIN contacts : r[k].card = contacts[n].card
  BY <1>1
<1>4. Drawn(r) = Drawn(contacts)
  <2>1. \A c, d : c.card = d.card => <<Key(c), c.card.name>> = <<Key(d), d.card.name>>
    BY DEF Key
  <2>2. ASSUME NEW x \in Drawn(r) PROVE x \in Drawn(contacts)
    <3>1. PICK k \in DOMAIN r : x = <<Key(r[k]), r[k].card.name>>
      BY DEF Drawn, Range
    <3>2. PICK n \in DOMAIN contacts : r[k].card = contacts[n].card
      BY <1>3
    <3>3. x = <<Key(contacts[n]), contacts[n].card.name>>
      BY <2>1, <3>1, <3>2
    <3>4. QED
      BY <3>3 DEF Drawn, Range
  <2>3. ASSUME NEW x \in Drawn(contacts) PROVE x \in Drawn(r)
    <3>1. PICK n \in DOMAIN contacts : x = <<Key(contacts[n]), contacts[n].card.name>>
      BY DEF Drawn, Range
    <3>2. PICK k \in DOMAIN r : r[k].card = contacts[n].card
      BY <1>1
    <3>3. x = <<Key(r[k]), r[k].card.name>>
      BY <2>1, <3>1, <3>2
    <3>4. QED
      BY <3>3 DEF Drawn, Range
  <2>4. QED
    BY <2>2, <2>3
<1>5. ASSUME NEW k \in DOMAIN r, NEW l \in DOMAIN r, Key(r[k]) = Key(r[l])
      PROVE  k = l
  <2>1. \A i \in DOMAIN r, n \in DOMAIN contacts : r[i].card = contacts[n].card => Key(r[i]) = Key(contacts[n])
    BY DEF Key
  <2>2. \A n, o \in DOMAIN contacts : r[k].card = contacts[n].card /\ r[l].card = contacts[o].card => n = o
    BY <1>5, <2>1 DEF OneForEachKey
  <2>3. CASE k \in DOMAIN Kept(contacts) /\ l \in DOMAIN Kept(contacts)
    <3>1. Ascending(take)[k] = Ascending(take)[l]
      BY <1>1, <2>2, <2>3
    <3>2. ~(Ascending(take)[k] < Ascending(take)[l]) /\ ~(Ascending(take)[l] < Ascending(take)[k])
      <4>1. \A n \in DOMAIN contacts : RowOf(contacts[n]) = 0 \/ RowOf(contacts[n]) \in DOMAIN rows
        BY RowFacts
      <4>2. Ascending(take)[k] \in Int
        BY <1>1, <2>3, <4>1
      <4>3. QED
        BY <3>1, <4>2
    <3>3. QED
      BY <1>2, <2>3, <3>2
  <2>4. CASE k \notin DOMAIN Kept(contacts) /\ l \notin DOMAIN Kept(contacts)
    <3>1. /\ k - m \in DOMAIN New(contacts) /\ l - m \in DOMAIN New(contacts)
          /\ Ascending(rest)[k - m] = Ascending(rest)[l - m]
          /\ Ascending(rest)[k - m] \in DOMAIN contacts
      BY <1>1, <2>2, <2>4
    <3>2. ~(k - m < l - m) /\ ~(l - m < k - m)
      <4>1. Ascending(rest)[k - m] \in Int
        BY <3>1
      <4>2. QED
        BY <1>2, <3>1, <4>1
    <3>3. QED
      BY <1>2, <3>1, <3>2, <1>1
  <2>5. CASE k \in DOMAIN Kept(contacts) /\ l \notin DOMAIN Kept(contacts)
    BY <1>1, <2>2, <2>5
  <2>6. CASE k \notin DOMAIN Kept(contacts) /\ l \in DOMAIN Kept(contacts)
    BY <1>1, <2>2, <2>6
  <2>7. QED
    BY <2>3, <2>4, <2>5, <2>6
<1>6. QED
  BY <1>1, <1>4, <1>5 DEF OneForEachKey, r

\* Two lists that draw the same, each key once, are as long.
LEMMA LengthIsDrawn ==
  ASSUME NEW q \in Seq(Contacts), NEW s \in Seq(Contacts), OneForEachKey(q), OneForEachKey(s),
         Drawn(q) = Drawn(s)
  PROVE  Len(q) = Len(s)
<1>1. ASSUME NEW p \in Seq(Contacts), OneForEachKey(p)
      PROVE  Cardinality(Drawn(p)) = Len(p)
  <2> DEFINE f == [i \in 1 .. Len(p) |-> Mark(p[i])]
             n == Len(p)
  <2>1. n \in Nat /\ DOMAIN p = 1 .. n
    BY <1>1
  <2>2. Drawn(p) = {Mark(p[i]) : i \in 1 .. n}
    BY <2>1 DEF Drawn, Mark, Range
  <2>3. \A i, j \in 1 .. n : Mark(p[i]) = Mark(p[j]) => i = j
    BY <1>1, <2>1 DEF OneForEachKey, Mark
  <2>4. f \in Bijection(1 .. n, Drawn(p))
    <3>1. f \in [1 .. n -> Drawn(p)]
      BY <2>2
    <3>2. \A i, j \in 1 .. n : f[i] = f[j] => i = j
      BY <2>3
    <3>3. \A d \in Drawn(p) : \E i \in 1 .. n : f[i] = d
      BY <2>2
    <3> HIDE DEF f, n
    <3>4. f \in Injection(1 .. n, Drawn(p))
      BY <3>1, <3>2, Fun_IsInj
    <3>5. f \in Surjection(1 .. n, Drawn(p))
      BY <3>1, <3>3, Fun_IsSurj
    <3>6. QED
      BY <3>4, <3>5 DEF Bijection
  <2> HIDE DEF f, n
  <2>5. IsFiniteSet(1 .. n) /\ Cardinality(1 .. n) = n
    <3>1. /\ IsFiniteSet(1 .. n)
          /\ Cardinality(1 .. n) = IF 1 > n THEN 0 ELSE n - 1 + 1
      BY <2>1, FS_Interval
    <3>2. QED
      BY <2>1, <3>1
  <2>6. Cardinality(1 .. n) = Cardinality(Drawn(p))
    BY <2>4, <2>5, FS_Bijection DEF ExistsBijection
  <2>7. QED
    BY <2>5, <2>6 DEF n
<1>2. QED
  BY <1>1

\* What a text finds is of one contact for each key, and its hash draws it.
LEMMA ResultsFacts ==
  ASSUME book \in Books, NEW t \in Texts
  PROVE  /\ ResultsFor(t) \in Seq(Contacts) /\ OneForEachKey(ResultsFor(t))
         /\ Hash(ResultsFor(t)) # NoHash
         /\ DrawnBy(Hash(ResultsFor(t))) = Drawn(ResultsFor(t))
<1> DEFINE S == {i \in DOMAIN Order : book[Order[i]] # NoCard /\ book[Order[i]].name \in Matching[t]}
           found == Entries(Order, S)
           r == ResultsFor(t)
<1>1. Order \in Seq(People) /\ \A i, j \in DOMAIN Order : Order[i] = Order[j] => i = j
  BY OrderAssumption
<1>2. S \in SUBSET DOMAIN Order
  OBVIOUS
<1>s. \A i \in S : book[Order[i]] # NoCard
  OBVIOUS
<1>3. r = [i \in DOMAIN found |-> [who |-> found[i], card |-> book[found[i]]]]
  BY DEF ResultsFor
<1> HIDE DEF S
<1>4. /\ found \in Seq(People) /\ DOMAIN found = 1 .. Len(found) /\ Len(found) \in Nat
      /\ \A i \in DOMAIN found : Ascending(S)[i] \in S /\ found[i] = Order[Ascending(S)[i]]
      /\ \A i, j \in DOMAIN found : i < j <=> Ascending(S)[i] < Ascending(S)[j]
  <2>1. /\ found \in Seq(People) /\ DOMAIN found = 1 .. Len(found)
        /\ \A i \in DOMAIN found : Ascending(S)[i] \in S /\ found[i] = Order[Ascending(S)[i]]
        /\ \A i, j \in DOMAIN found : i < j <=> Ascending(S)[i] < Ascending(S)[j]
    BY <1>1, <1>2, Filtered
  <2> HIDE DEF found
  <2>2. Len(found) \in Nat
    BY <2>1
  <2>3. QED
    BY <2>1, <2>2
<1> HIDE DEF found, r
<1>5. ASSUME NEW i \in DOMAIN found
      PROVE  found[i] \in People /\ book[found[i]] \in CardsOf[found[i]] /\ book[found[i]] \in Cards
  <2>1. found[i] \in People /\ book[found[i]] # NoCard
    BY <1>1, <1>2, <1>4, <1>s
  <2>2. QED
    BY <2>1 DEF Books, Cards
<1>6. \A i \in DOMAIN found : [who |-> found[i], card |-> book[found[i]]] \in Contacts
  BY <1>5 DEF Contacts
<1>7. r \in Seq(Contacts) /\ DOMAIN r = DOMAIN found
  BY <1>3, <1>4, <1>6
<1>8. ASSUME NEW i \in DOMAIN r, NEW j \in DOMAIN r, Key(r[i]) = Key(r[j]) PROVE i = j
  <2>1. found[i] = found[j]
    <3>1. r[i] \in Contacts /\ r[j] \in Contacts /\ r[i].who = found[i] /\ r[j].who = found[j]
      BY <1>3, <1>6, <1>7
    <3>2. QED
      BY <1>8, <3>1, KeysAssumption
  <2>2. /\ Ascending(S)[i] = Ascending(S)[j] /\ Ascending(S)[i] \in Int
        /\ i \in Int /\ j \in Int
    BY <1>1, <1>2, <1>4, <1>7, <2>1
  <2>3. QED
    BY <1>4, <1>7, <2>2
<1>9. Hash(r) \in Seq({Hashed(c) : c \in Contacts})
  BY <1>7 DEF Hash
<1>10. Hash(r) # NoHash
  BY <1>9, OrderAssumption
<1>11. DrawnBy(Hash(r)) = Drawn(r)
  <2>1. \A c : KeyOf(Hashed(c)[1], Hashed(c)[2]) = Key(c) /\ Hashed(c)[2] = c.card.name
    BY DEF Hashed, Key
  <2>2. Range(Hash(r)) = {Hashed(c) : c \in Range(r)}
    BY DEF Hash, Range
  <2>3. DrawnBy(Hash(r)) = {<<KeyOf(e[1], e[2]), e[2]>> : e \in {Hashed(c) : c \in Range(r)}}
    BY <2>2 DEF DrawnBy
  <2>4. \A c : <<KeyOf(Hashed(c)[1], Hashed(c)[2]), Hashed(c)[2]>> = <<Key(c), c.card.name>>
    BY <2>1
  <2>5. QED
    BY <2>3, <2>4 DEF Drawn
<1>12. QED
  BY <1>7, <1>8, <1>10, <1>11 DEF OneForEachKey, r

-----------------------------------------------------------------------------
(* What queues that grow and are worked off leave of the invariant *)

\* Of this kind the two queues end with the same.
Keeps(q, r, kind) ==
  /\ Has(r, kind) <=> Has(q, kind)
  /\ \A i : LastOf(r, kind, i) => \E k : LastOf(q, kind, k) /\ r[i] = q[k]

\* Messages of another kind come and go.
LEMMA Kindred ==
  ASSUME NEW S, NEW q \in Seq(S), NEW kind
  PROVE  /\ Keeps(q, q, kind)
         /\ \A e \in S : e.kind # kind => Keeps(q, Append(q, e), kind)
         /\ q # <<>> /\ Head(q).kind # kind => Keeps(q, Tail(q), kind)
<1>1. Keeps(q, q, kind)
  BY DEF Keeps
<1>2. ASSUME NEW e \in S, e.kind # kind PROVE Keeps(q, Append(q, e), kind)
  <2>1. Has(Append(q, e), kind) <=> Has(q, kind) \/ e.kind = kind
    BY Grown
  <2> DEFINE r == Append(q, e)
  <2>r. Ends(q, e, r, kind)
    BY GrownLast
  <2> HIDE DEF r
  <2>2. ASSUME NEW i, LastOf(r, kind, i) PROVE LastOf(q, kind, i) /\ r[i] = q[i]
    BY <1>2, <2>2, <2>r DEF Ends
  <2>3. QED
    BY <1>2, <2>1, <2>2 DEF Keeps, r
<1>3. ASSUME q # <<>>, Head(q).kind # kind PROVE Keeps(q, Tail(q), kind)
  <2>1. Has(q, kind) <=> Has(Tail(q), kind) \/ Head(q).kind = kind
    BY <1>3, Worked
  <2>2. ASSUME NEW i, LastOf(Tail(q), kind, i)
        PROVE  LastOf(q, kind, i + 1) /\ Tail(q)[i] = q[i + 1]
    BY <1>3, <2>2, WorkedLast
  <2>3. QED
    BY <1>3, <2>1, <2>2 DEF Keeps
<1>4. QED
  BY <1>1, <1>2, <1>3

\* The hash speaks on if the last results, and the rows, are the same.
LEMMA HashStays ==
  ASSUME NEW h, NEW q, NEW mq, NEW rs, NEW t, HashSpeaks(h, q, mq, rs, t),
         NEW q1, NEW mq1, NEW rs1, NEW t1,
         Keeps(q, q1, "results"), Has(mq, "forget") => Has(mq1, "forget"),
         ~t1 => rs1 = rs /\ ~t
  PROVE  HashSpeaks(h, q1, mq1, rs1, t1)
<1>1. SUFFICES ASSUME h # NoHash, ~Has(mq1, "forget")
               PROVE  /\ \A i \in DOMAIN q1 : LastOf(q1, "results", i)
                                                => Drawn(q1[i].contacts) = DrawnBy(h)
                      /\ ~Has(q1, "results") /\ ~t1 => Drawn(rs1) = DrawnBy(h)
  BY DEF HashSpeaks
<1>2. /\ \A i \in DOMAIN q : LastOf(q, "results", i) => Drawn(q[i].contacts) = DrawnBy(h)
      /\ ~Has(q, "results") /\ ~t => Drawn(rs) = DrawnBy(h)
  BY <1>1 DEF HashSpeaks
<1>3. \A i : LastOf(q, "results", i) => i \in DOMAIN q
  BY DEF LastOf
<1>4. QED
  BY <1>2, <1>3 DEF Keeps

\* A search for the text on show is the last.
LEMMA SearchAsked ==
  ASSUME NEW mq \in Seq(Work), NEW tx \in Texts, NEW due
  PROVE  SearchesFollow(tx, Append(mq, [kind |-> "search", text |-> tx]), due)
<1> DEFINE e == [kind |-> "search", text |-> tx]
           r == Append(mq, e)
<1>1. e \in Work /\ e.kind = "search" /\ e.text = tx /\ e.kind # "forget"
  BY WorkParts
<1> HIDE DEF e
<1>2. /\ \A i : LastOf(r, "search", i) => r[i] = e
      /\ Has(r, "search")
  <2>1. Has(r, "search") <=> Has(mq, "search") \/ e.kind = "search"
    BY <1>1, Grown
  <2>r. Ends(mq, e, r, "search")
    BY <1>1, GrownLast
  <2> HIDE DEF r
  <2>2. ASSUME NEW i, LastOf(r, "search", i) PROVE r[i] = e
    BY <1>1, <2>2, <2>r DEF Ends
  <2>3. QED
    BY <1>1, <2>1, <2>2
<1>3. /\ DOMAIN mq = 1 .. Len(mq) /\ DOMAIN r = 1 .. Len(mq) + 1 /\ Len(mq) \in Nat
      /\ r[Len(mq) + 1] = e
  BY <1>1, Appended
<1> HIDE DEF r
<1>4. ASSUME NEW i \in DOMAIN r, r[i].kind = "forget"
      PROVE  \E j \in DOMAIN r : j > i /\ r[j].kind = "search"
  <2>1. i # Len(mq) + 1
    BY <1>1, <1>3, <1>4
  <2>2. Len(mq) + 1 \in DOMAIN r /\ Len(mq) + 1 > i
    BY <1>3, <2>1
  <2>3. QED
    BY <1>1, <1>3, <2>2
<1>5. SearchesFollow(tx, r, due)
  BY <1>1, <1>2, <1>4 DEF SearchesFollow
<1>6. QED
  BY <1>5 DEF r, e

\* Another task leaves the searches as they are.
LEMMA OtherAsked ==
  ASSUME NEW mq \in Seq(Work), NEW e \in Work, e.kind # "search", e.kind # "forget",
         NEW tx, NEW due, SearchesFollow(tx, mq, due)
  PROVE  SearchesFollow(tx, Append(mq, e), due)
<1> DEFINE r == Append(mq, e)
<1>1. /\ \A i : LastOf(r, "search", i) => LastOf(mq, "search", i) /\ r[i] = mq[i]
      /\ Has(r, "search") <=> Has(mq, "search")
  <2>1. Has(r, "search") <=> Has(mq, "search") \/ e.kind = "search"
    BY Grown
  <2>r. Ends(mq, e, r, "search")
    BY GrownLast
  <2> HIDE DEF r
  <2>2. ASSUME NEW i, LastOf(r, "search", i) PROVE LastOf(mq, "search", i) /\ r[i] = mq[i]
    BY <2>2, <2>r DEF Ends
  <2>3. QED
    BY <2>1, <2>2
<1>2. /\ DOMAIN mq = 1 .. Len(mq) /\ DOMAIN r = 1 .. Len(mq) + 1 /\ Len(mq) \in Nat
      /\ r[Len(mq) + 1] = e /\ \A i \in DOMAIN mq : r[i] = mq[i]
  BY Appended
<1> HIDE DEF r
<1>3. ASSUME NEW i \in DOMAIN r, r[i].kind = "forget", tx # NoText
      PROVE  \E j \in DOMAIN r : j > i /\ r[j].kind = "search"
  <2>1. i # Len(mq) + 1
    BY <1>2, <1>3
  <2>2. i \in DOMAIN mq /\ mq[i].kind = "forget"
    BY <1>2, <1>3, <2>1
  <2>3. PICK j \in DOMAIN mq : j > i /\ mq[j].kind = "search"
    BY <1>3, <2>2 DEF SearchesFollow
  <2>4. j \in DOMAIN r /\ r[j] = mq[j]
    BY <1>2, <2>3
  <2>5. QED
    BY <2>3, <2>4
<1>4. \A i : LastOf(mq, "search", i) => i \in DOMAIN mq
  BY DEF LastOf
<1>5. SearchesFollow(tx, r, due)
  BY <1>1, <1>3, <1>4 DEF SearchesFollow
<1>6. QED
  BY <1>5 DEF r

\* A task that is run leaves the rest in order, and a search that is run is the last the SDK
\* is asked for.
LEMMA TaskTaken ==
  ASSUME NEW mq \in Seq(Work), mq # <<>>, NEW tx, NEW due \in Seq(Texts), SearchesFollow(tx, mq, due)
  PROVE  /\ Head(mq).kind # "search" => SearchesFollow(tx, Tail(mq), due)
         /\ Head(mq).kind = "search" => SearchesFollow(tx, Tail(mq), Append(due, Head(mq).text))
         /\ Head(mq).kind = "forget" /\ tx # NoText => Has(Tail(mq), "search")
<1> DEFINE r == Tail(mq)
<1>1. /\ \A i : LastOf(r, "search", i) => LastOf(mq, "search", i + 1) /\ r[i] = mq[i + 1]
      /\ Has(mq, "search") <=> Has(r, "search") \/ Head(mq).kind = "search"
      /\ ~Has(r, "search") /\ Head(mq).kind = "search" => LastOf(mq, "search", 1) /\ mq[1] = Head(mq)
      /\ Head(mq) \in Work
  <2>1. /\ Has(mq, "search") <=> Has(r, "search") \/ Head(mq).kind = "search"
        /\ ~Has(r, "search") /\ Head(mq).kind = "search" => LastOf(mq, "search", 1) /\ mq[1] = Head(mq)
    BY Worked
  <2>2. ASSUME NEW i, LastOf(r, "search", i) PROVE LastOf(mq, "search", i + 1) /\ r[i] = mq[i + 1]
    BY <2>2, WorkedLast
  <2>3. Head(mq) \in Work
    OBVIOUS
  <2>4. QED
    BY <2>1, <2>2, <2>3
<1>2. /\ DOMAIN mq = 1 .. Len(mq) /\ DOMAIN r = 1 .. Len(mq) - 1 /\ Len(mq) \in Nat \ {0}
      /\ \A i \in DOMAIN r : r[i] = mq[i + 1]
      /\ Head(mq) = mq[1]
  BY Advanced
<1> HIDE DEF r
<1>3. \A i : LastOf(mq, "search", i) => i \in DOMAIN mq
  BY DEF LastOf
<1>4. ASSUME NEW i \in DOMAIN mq, mq[i].kind = "forget", tx # NoText
      PROVE  \E j \in DOMAIN r : j + 1 > i /\ r[j].kind = "search"
  <2>1. PICK j \in DOMAIN mq : j > i /\ mq[j].kind = "search"
    BY <1>4 DEF SearchesFollow
  <2>2. j - 1 \in DOMAIN r /\ (j - 1) + 1 = j /\ r[j - 1] = mq[j]
    BY <1>2, <2>1
  <2>3. QED
    BY <2>1, <2>2
<1>5. ASSUME NEW i \in DOMAIN r, r[i].kind = "forget", tx # NoText
      PROVE  \E j \in DOMAIN r : j > i /\ r[j].kind = "search"
  <2>1. i + 1 \in DOMAIN mq /\ mq[i + 1].kind = "forget"
    BY <1>2, <1>5
  <2>2. PICK j \in DOMAIN r : j + 1 > i + 1 /\ r[j].kind = "search"
    BY <1>4, <1>5, <2>1
  <2>3. j > i
    BY <1>2, <2>2
  <2>4. QED
    BY <2>2, <2>3
<1>6. tx # NoText => \A i \in DOMAIN r : LastOf(r, "search", i) => r[i].text = tx
  BY <1>1, <1>3 DEF SearchesFollow
<1>7. ASSUME Head(mq).kind # "search" PROVE SearchesFollow(tx, r, due)
  BY <1>1, <1>5, <1>6, <1>7 DEF SearchesFollow
<1>8. ASSUME Head(mq).kind = "search" PROVE SearchesFollow(tx, r, Append(due, Head(mq).text))
  <2>1. Head(mq).text \in Texts
    BY <1>1, <1>8, WorkParts
  <2>2. Append(due, Head(mq).text)[Len(Append(due, Head(mq).text))] = Head(mq).text
    <3>1. ASSUME NEW t \in Texts PROVE Append(due, t)[Len(Append(due, t))] = t
      <4>1. Len(Append(due, t)) = Len(due) + 1 /\ Append(due, t)[Len(due) + 1] = t
        BY Appended
      <4>2. QED
        BY <4>1
    <3>2. QED
      BY <2>1, <3>1
  <2>3. tx # NoText /\ ~Has(r, "search") => Head(mq).text = tx
    BY <1>1, <1>3, <1>8 DEF SearchesFollow
  <2>4. QED
    BY <1>5, <1>6, <2>2, <2>3 DEF SearchesFollow
<1>9. ASSUME Head(mq).kind = "forget", tx # NoText PROVE Has(r, "search")
  <2>1. 1 \in DOMAIN mq /\ mq[1].kind = "forget"
    BY <1>2, <1>9
  <2>2. QED
    BY <1>4, <1>9, <2>1 DEF Has
<1>10. QED
  BY <1>7, <1>8, <1>9 DEF r

\* Results that wait stay what they are.
LEMMA ResultsStay ==
  ASSUME NEW q \in Seq(News), ResultsAreDistinct(q)
  PROVE  /\ \A e \in News : (e.kind = "results" => OneForEachKey(e.contacts))
                              => ResultsAreDistinct(Append(q, e))
         /\ q # <<>> => /\ ResultsAreDistinct(Tail(q))
                        /\ Head(q).kind = "results" => OneForEachKey(Head(q).contacts)
<1>1. ASSUME NEW e \in News, e.kind = "results" => OneForEachKey(e.contacts)
      PROVE  ResultsAreDistinct(Append(q, e))
  <2>1. \A i \in DOMAIN Append(q, e) : Append(q, e)[i] = e \/ (i \in DOMAIN q /\ Append(q, e)[i] = q[i])
    <3>1. \A i \in DOMAIN Append(q, e) : i = Len(q) + 1 \/ i \in DOMAIN q
      BY Appended
    <3>2. QED
      BY <3>1, Appended
  <2>2. QED
    BY <1>1, <2>1 DEF ResultsAreDistinct
<1>2. ASSUME q # <<>>
      PROVE  /\ ResultsAreDistinct(Tail(q))
             /\ Head(q).kind = "results" => OneForEachKey(Head(q).contacts)
  <2>1. \A i \in DOMAIN Tail(q) : i + 1 \in DOMAIN q /\ Tail(q)[i] = q[i + 1]
    BY <1>2, Advanced
  <2>2. 1 \in DOMAIN q /\ Head(q) = q[1]
    BY <1>2, Advanced
  <2>3. QED
    BY <2>1, <2>2 DEF ResultsAreDistinct
<1>3. QED
  BY <1>1, <1>2

-----------------------------------------------------------------------------
(* The steps *)

\* With no search less and no sync less on its way, the hash is still of what the text finds.
LEMMA StillOfTheText ==
  ASSUME NEW tx, NEW un, NEW q, NEW mq, NEW due, NEW h, NEW found,
         HashIsOfTheText(tx, un, q, mq, due, h, found),
         NEW q1, NEW mq1, Has(q, "synchronized") => Has(q1, "synchronized"),
         Has(mq, "search") => Has(mq1, "search")
  PROVE  HashIsOfTheText(tx, un, q1, mq1, due, h, found)
BY DEF HashIsOfTheText

\* What a text finds depends on the books alone.
LEMMA SameFound == ASSUME book' = book PROVE Found' = Found
BY DEF Found, ResultsFor

\* A new task takes nothing from the queue.
LEMMA MoreTasks ==
  ASSUME NEW mq \in Seq(Work), NEW e \in Work
  PROVE  /\ Append(mq, e) \in Seq(Work)
         /\ Has(mq, "forget") => Has(Append(mq, e), "forget")
         /\ Has(mq, "search") => Has(Append(mq, e), "search")
         /\ Has(Append(mq, e), e.kind)
<1>1. Append(mq, e) \in Seq(Work)
  BY Appended
<1>2. \A kind : Has(Append(mq, e), kind) <=> Has(mq, kind) \/ e.kind = kind
  BY Grown
<1>3. QED
  BY <1>1, <1>2

\* A message to the GUI thread takes nothing from its queue.
LEMMA MoreNews ==
  ASSUME NEW q \in Seq(News), NEW e \in News
  PROVE  /\ Append(q, e) \in Seq(News)
         /\ Has(q, "synchronized") => Has(Append(q, e), "synchronized")
         /\ Has(Append(q, e), e.kind)
<1>1. Append(q, e) \in Seq(News)
  BY Appended
<1>2. \A kind : Has(Append(q, e), kind) <=> Has(q, kind) \/ e.kind = kind
  BY Grown
<1>3. QED
  BY <1>1, <1>2

\* A message that is heard is the first.
LEMMA Heard ==
  ASSUME guiQ \in Seq(News), NEW kind, Hear(kind)
  PROVE  /\ guiQ # <<>> /\ guiQ' = Tail(guiQ) /\ Head(guiQ).kind = kind
         /\ Head(guiQ) \in News /\ guiQ' \in Seq(News)
         /\ kind # "synchronized" /\ Has(guiQ, "synchronized") => Has(guiQ', "synchronized")
         /\ kind # "results" => Keeps(guiQ, guiQ', "results")
<1>1. guiQ # <<>> /\ guiQ' = Tail(guiQ) /\ Head(guiQ).kind = kind
  BY DEF Hear
<1>2. Head(guiQ) \in News /\ Tail(guiQ) \in Seq(News)
  BY <1>1, Advanced
<1>3. Has(guiQ, "synchronized") <=> Has(Tail(guiQ), "synchronized") \/ Head(guiQ).kind = "synchronized"
  BY <1>1, Worked
<1>4. kind # "results" => Keeps(guiQ, Tail(guiQ), "results")
  BY <1>1, Kindred
<1>5. QED
  BY <1>1, <1>2, <1>3, <1>4

\* A task that is taken is the first.
LEMMA TakenOn ==
  ASSUME modelQ \in Seq(Work), NEW kind, Take(kind)
  PROVE  /\ modelQ # <<>> /\ modelQ' = Tail(modelQ) /\ Head(modelQ).kind = kind
         /\ Head(modelQ) \in Work /\ modelQ' \in Seq(Work)
         /\ kind # "forget" /\ Has(modelQ, "forget") => Has(modelQ', "forget")
         /\ kind # "search" /\ Has(modelQ, "search") => Has(modelQ', "search")
<1>1. modelQ # <<>> /\ modelQ' = Tail(modelQ) /\ Head(modelQ).kind = kind
  BY DEF Take
<1>2. Head(modelQ) \in Work /\ Tail(modelQ) \in Seq(Work)
  BY <1>1, Advanced
<1>3. \A k : Has(modelQ, k) <=> Has(Tail(modelQ), k) \/ Head(modelQ).kind = k
  BY <1>1, Worked
<1>4. QED
  BY <1>1, <1>2, <1>3

\* To begin with there is no hash.
LEMMA InitIInv == Init => IInv
<1>1. SUFFICES ASSUME Init PROVE IInv
  OBVIOUS
<1>2. TypeOK
  <2>1. OneForEachKey(<<>>)
    BY DEF OneForEachKey
  <2>2. <<>> \in Seq(Contacts) /\ <<>> \in Seq(News) /\ <<>> \in Seq(Work) /\ <<>> \in Seq(Texts)
    OBVIOUS
  <2>3. QED
    BY <1>1, <2>1, <2>2 DEF Init, TypeOK
<1>3. ResultsAreDistinct(guiQ)
  BY <1>1 DEF Init, ResultsAreDistinct
<1>4. text = NoText /\ hash = NoHash
  BY <1>1 DEF Init
<1>5. QED
  BY <1>2, <1>3, <1>4 DEF IInv, HashSpeaks, SearchesFollow, HashIsOfTheText

\* A text that is typed is searched for.
LEMMA SetTextKeeps == ASSUME IInv, NEW t \in Texts, SetText(t) PROVE IInv'
<1> DEFINE e == [kind |-> "search", text |-> t]
<1>1. e \in Work /\ e.kind = "search"
  BY WorkParts
<1>2. /\ text' = t /\ modelQ' = Append(modelQ, e) /\ loading' = ~shared
      /\ UNCHANGED <<shared, rows, guiQ, book, asked, hash, unsearched, touched>>
  BY DEF SetText, Ask
<1>3. SearchesFollow(t, Append(modelQ, e), asked)
  BY SearchAsked DEF IInv, TypeOK
<1> HIDE DEF e
<1>4. /\ modelQ' \in Seq(Work)
      /\ Has(modelQ, "forget") => Has(modelQ', "forget")
      /\ Has(modelQ', "search")
  BY <1>1, <1>2, MoreTasks DEF IInv, TypeOK
<1>5. TypeOK'
  BY <1>2, <1>4 DEF IInv, TypeOK
<1>6. ResultsAreDistinct(guiQ)'
  BY <1>2 DEF IInv
<1>7. HashSpeaks(hash, guiQ, modelQ, rows, touched)'
  <2>1. Keeps(guiQ, guiQ, "results")
    BY Kindred DEF IInv, TypeOK
  <2>2. HashSpeaks(hash, guiQ, modelQ', rows, touched)
    BY <1>4, <2>1, HashStays DEF IInv
  <2>3. QED
    BY <1>2, <2>2
<1>8. SearchesFollow(text, modelQ, asked)'
  BY <1>2, <1>3
<1>9. HashIsOfTheText(text, unsearched, guiQ, modelQ, asked, hash, Found)'
  BY <1>4 DEF HashIsOfTheText
<1>10. QED
  BY <1>5, <1>6, <1>7, <1>8, <1>9 DEF IInv

\* The rows that are cleared are cleared with the hash that spoke for them.
LEMMA ClearTextKeeps == ASSUME IInv, ClearText PROVE IInv'
<1> DEFINE e == [kind |-> "forget"]
<1>1. e \in Work /\ e.kind = "forget"
  BY WorkParts
<1>2. /\ text' = NoText /\ rows' = <<>> /\ modelQ' = Append(modelQ, e)
      /\ UNCHANGED <<shared, loading, guiQ, book, asked, hash, unsearched, touched>>
  BY DEF ClearText, Ask
<1> HIDE DEF e
<1>3. modelQ' \in Seq(Work) /\ Has(modelQ', "forget")
  BY <1>1, <1>2, MoreTasks DEF IInv, TypeOK
<1>4. rows' \in Seq(Contacts) /\ OneForEachKey(rows')
  BY <1>2 DEF OneForEachKey
<1>5. TypeOK'
  BY <1>2, <1>3, <1>4 DEF IInv, TypeOK
<1>6. ResultsAreDistinct(guiQ)'
  BY <1>2 DEF IInv
<1>7. HashSpeaks(hash, guiQ, modelQ, rows, touched)'
  BY <1>3 DEF HashSpeaks
<1>8. /\ SearchesFollow(text, modelQ, asked)'
      /\ HashIsOfTheText(text, unsearched, guiQ, modelQ, asked, hash, Found)'
  BY <1>2 DEF SearchesFollow, HashIsOfTheText
<1>9. QED
  BY <1>5, <1>6, <1>7, <1>8 DEF IInv

\* After a sync the text on show is searched for again.
LEMMA ForceUpdateKeeps == ASSUME IInv, ForceUpdate PROVE IInv'
<1> DEFINE e == [kind |-> "search", text |-> text]
<1>1. /\ Hear("synchronized")
      /\ UNCHANGED <<shared, text, loading, rows, book, asked, hash, unsearched, touched>>
  BY DEF ForceUpdate, view
<1>2. /\ guiQ # <<>> /\ guiQ' = Tail(guiQ) /\ guiQ' \in Seq(News)
      /\ Keeps(guiQ, guiQ', "results")
  BY <1>1, Heard DEF IInv, TypeOK
<1>3. ResultsAreDistinct(guiQ)'
  BY <1>2, ResultsStay DEF IInv, TypeOK
<1>4. CASE text = NoText
  <2>1. modelQ' = modelQ
    BY <1>4 DEF ForceUpdate
  <2>2. TypeOK'
    BY <1>1, <1>2, <2>1 DEF IInv, TypeOK
  <2>3. HashSpeaks(hash, guiQ, modelQ, rows, touched)'
    <3>1. HashSpeaks(hash, guiQ', modelQ, rows, touched)
      BY <1>2, HashStays DEF IInv
    <3>2. QED
      BY <1>1, <2>1, <3>1
  <2>4. /\ SearchesFollow(text, modelQ, asked)'
        /\ HashIsOfTheText(text, unsearched, guiQ, modelQ, asked, hash, Found)'
    BY <1>1, <1>4 DEF SearchesFollow, HashIsOfTheText
  <2>5. QED
    BY <1>3, <2>2, <2>3, <2>4 DEF IInv
<1>5. CASE text # NoText
  <2>1. text \in Texts
    BY <1>5 DEF IInv, TypeOK
  <2>2. e \in Work /\ e.kind = "search"
    BY <2>1, WorkParts
  <2>3. modelQ' = Append(modelQ, e)
    BY <1>5 DEF ForceUpdate, Ask
  <2>4. SearchesFollow(text, Append(modelQ, e), asked)
    BY <2>1, SearchAsked DEF IInv, TypeOK
  <2> HIDE DEF e
  <2>5. /\ modelQ' \in Seq(Work)
        /\ Has(modelQ, "forget") => Has(modelQ', "forget")
        /\ Has(modelQ', "search")
    BY <2>2, <2>3, MoreTasks DEF IInv, TypeOK
  <2>6. TypeOK'
    BY <1>1, <1>2, <2>5 DEF IInv, TypeOK
  <2>7. HashSpeaks(hash, guiQ, modelQ, rows, touched)'
    <3>1. HashSpeaks(hash, guiQ', modelQ', rows, touched)
      BY <1>2, <2>5, HashStays DEF IInv
    <3>2. QED
      BY <1>1, <3>1
  <2>8. SearchesFollow(text, modelQ, asked)'
    BY <1>1, <2>3, <2>4
  <2>9. HashIsOfTheText(text, unsearched, guiQ, modelQ, asked, hash, Found)'
    BY <2>5 DEF HashIsOfTheText
  <2>10. QED
    BY <1>3, <2>6, <2>7, <2>8, <2>9 DEF IInv
<1>6. QED
  BY <1>4, <1>5

\* The rows take the results the hash spoke for, or that a later report has replaced.
LEMMA OnResultsKeeps == ASSUME IInv, OnResults PROVE IInv'
<1> DEFINE contacts == Head(guiQ).contacts
<1>1. /\ Hear("results") /\ rows' = Merged(contacts) /\ loading' = FALSE /\ touched' = FALSE
      /\ UNCHANGED <<shared, text, modelQ, book, asked, hash, unsearched>>
  BY DEF OnResults, Processed
<1>2. /\ guiQ # <<>> /\ guiQ' = Tail(guiQ) /\ Head(guiQ).kind = "results"
      /\ Head(guiQ) \in News /\ guiQ' \in Seq(News)
      /\ Has(guiQ, "synchronized") => Has(guiQ', "synchronized")
  BY <1>1, Heard DEF IInv, TypeOK
<1>3. contacts \in Seq(Contacts)
  BY <1>2, NewsParts
<1>4. ResultsAreDistinct(Tail(guiQ)) /\ OneForEachKey(contacts)
  BY <1>2, ResultsStay DEF IInv, TypeOK
<1>5. /\ rows' \in Seq(Contacts) /\ OneForEachKey(rows')
      /\ Drawn(rows') = Drawn(contacts)
  <2>1. rows \in Seq(Contacts)
    BY DEF IInv, TypeOK
  <2>2. QED
    BY <1>1, <1>3, <1>4, <2>1, MergeFacts
<1>6. TypeOK'
  BY <1>1, <1>2, <1>5 DEF IInv, TypeOK
<1>7. ResultsAreDistinct(guiQ)'
  BY <1>2, <1>4
<1>8. HashSpeaks(hash, guiQ, modelQ, rows, touched)'
  <2> DEFINE r == Tail(guiQ)
  <2>1. SUFFICES ASSUME hash # NoHash, ~Has(modelQ, "forget")
                 PROVE  /\ \A i \in DOMAIN r : LastOf(r, "results", i)
                                                 => Drawn(r[i].contacts) = DrawnBy(hash)
                        /\ ~Has(r, "results") => Drawn(rows') = DrawnBy(hash)
    BY <1>1, <1>2 DEF HashSpeaks
  <2>2. \A i : LastOf(guiQ, "results", i) => Drawn(guiQ[i].contacts) = DrawnBy(hash)
    BY <2>1 DEF IInv, HashSpeaks, LastOf
  <2>3. ASSUME NEW i, LastOf(r, "results", i) PROVE Drawn(r[i].contacts) = DrawnBy(hash)
    <3>1. LastOf(guiQ, "results", i + 1) /\ r[i] = guiQ[i + 1]
      BY <1>2, <2>3, WorkedLast DEF IInv, TypeOK
    <3>2. QED
      BY <2>2, <3>1
  <2>4. ASSUME ~Has(r, "results") PROVE Drawn(rows') = DrawnBy(hash)
    <3>1. LastOf(guiQ, "results", 1) /\ guiQ[1] = Head(guiQ)
      BY <1>2, <2>4, Worked DEF IInv, TypeOK
    <3>2. Drawn(guiQ[1].contacts) = DrawnBy(hash)
      BY <2>2, <3>1
    <3>3. QED
      BY <1>5, <3>1, <3>2
  <2>5. QED
    BY <2>3, <2>4
<1>9. SearchesFollow(text, modelQ, asked)'
  BY <1>1 DEF IInv
<1>10. HashIsOfTheText(text, unsearched, guiQ, modelQ, asked, hash, Found)'
  <2>1. HashIsOfTheText(text, unsearched, guiQ', modelQ, asked, hash, Found)
    BY <1>2, StillOfTheText DEF IInv
  <2>2. QED
    BY <1>1, <2>1, SameFound
<1>11. QED
  BY <1>6, <1>7, <1>8, <1>9, <1>10 DEF IInv

\* The view hears that nothing has changed.
LEMMA OnUnchangedKeeps == ASSUME IInv, OnUnchanged PROVE IInv'
<1>1. /\ Hear("unchanged") /\ loading' = FALSE
      /\ UNCHANGED <<shared, text, rows, modelQ, book, asked, hash, unsearched, touched>>
  BY DEF OnUnchanged, Processed
<1>2. /\ guiQ # <<>> /\ guiQ' = Tail(guiQ) /\ guiQ' \in Seq(News)
      /\ Has(guiQ, "synchronized") => Has(guiQ', "synchronized")
      /\ Keeps(guiQ, guiQ', "results")
  BY <1>1, Heard DEF IInv, TypeOK
<1>3. ResultsAreDistinct(guiQ)'
  BY <1>2, ResultsStay DEF IInv, TypeOK
<1>4. TypeOK'
  BY <1>1, <1>2 DEF IInv, TypeOK
<1>5. HashSpeaks(hash, guiQ, modelQ, rows, touched)'
  <2>1. HashSpeaks(hash, guiQ', modelQ, rows, touched)
    BY <1>2, HashStays DEF IInv
  <2>2. QED
    BY <1>1, <2>1
<1>6. SearchesFollow(text, modelQ, asked)'
  BY <1>1 DEF IInv
<1>7. HashIsOfTheText(text, unsearched, guiQ, modelQ, asked, hash, Found)'
  <2>1. HashIsOfTheText(text, unsearched, guiQ', modelQ, asked, hash, Found)
    BY <1>2, StillOfTheText DEF IInv
  <2>2. QED
    BY <1>1, <2>1, SameFound
<1>8. QED
  BY <1>3, <1>4, <1>5, <1>6, <1>7 DEF IInv

\* Rows of a deleted contact go, and the rows count as touched if there were any.
LEMMA OnRemovedKeeps == ASSUME IInv, OnRemoved PROVE IInv'
<1> DEFINE S == {i \in DOMAIN rows : ~Removes(Head(guiQ).contact, rows[i])}
<1>1. /\ Hear("removed") /\ rows' = Entries(rows, S) /\ touched' = (touched \/ rows' # rows)
      /\ UNCHANGED <<shared, text, loading, modelQ, book, asked, hash, unsearched>>
  BY DEF OnRemoved, view
<1>2. rows' \in Seq(Contacts)
  <2>1. S \in SUBSET DOMAIN rows /\ rows \in Seq(Contacts)
    BY DEF IInv, TypeOK
  <2> HIDE DEF S
  <2>2. Entries(rows, S) \in Seq(Contacts)
    BY <2>1, Filtered
  <2>3. QED
    BY <1>1, <2>2
<1> HIDE DEF S
<1>3. /\ guiQ # <<>> /\ guiQ' = Tail(guiQ) /\ guiQ' \in Seq(News)
      /\ Has(guiQ, "synchronized") => Has(guiQ', "synchronized")
      /\ Keeps(guiQ, guiQ', "results")
  BY <1>1, Heard DEF IInv, TypeOK
<1>4. ~touched' => rows' = rows /\ ~touched
  BY <1>1
<1>5. ResultsAreDistinct(guiQ)'
  BY <1>3, ResultsStay DEF IInv, TypeOK
<1>6. TypeOK'
  <2>1. touched' \in BOOLEAN
    BY <1>1 DEF IInv, TypeOK
  <2>2. ~touched' => OneForEachKey(rows')
    BY <1>4 DEF IInv, TypeOK
  <2>3. QED
    BY <1>1, <1>2, <1>3, <2>1, <2>2 DEF IInv, TypeOK
<1>7. HashSpeaks(hash, guiQ, modelQ, rows, touched)'
  <2>1. HashSpeaks(hash, guiQ', modelQ, rows', touched')
    BY <1>3, <1>4, HashStays DEF IInv
  <2>2. QED
    BY <1>1, <2>1
<1>8. SearchesFollow(text, modelQ, asked)'
  BY <1>1 DEF IInv
<1>9. HashIsOfTheText(text, unsearched, guiQ, modelQ, asked, hash, Found)'
  <2>1. HashIsOfTheText(text, unsearched, guiQ', modelQ, asked, hash, Found)
    BY <1>3, StillOfTheText DEF IInv
  <2>2. QED
    BY <1>1, <2>1, SameFound
<1>10. QED
  BY <1>5, <1>6, <1>7, <1>8, <1>9 DEF IInv

\* A task that is neither a search nor to forget the hash is asked for.
LEMMA AskingKeeps ==
  ASSUME IInv, NEW e \in Work, e.kind # "search", e.kind # "forget", Ask(e),
         UNCHANGED <<view, rows, guiQ, book, asked, hash, unsearched, touched>>
  PROVE  IInv'
<1>1. /\ modelQ' = Append(modelQ, e)
      /\ UNCHANGED <<shared, text, loading, rows, guiQ, book, asked, hash, unsearched, touched>>
  BY DEF Ask, view
<1>2. /\ modelQ' \in Seq(Work)
      /\ Has(modelQ, "forget") => Has(modelQ', "forget")
      /\ Has(modelQ, "search") => Has(modelQ', "search")
  BY <1>1, MoreTasks DEF IInv, TypeOK
<1>3. TypeOK'
  BY <1>1, <1>2 DEF IInv, TypeOK
<1>4. ResultsAreDistinct(guiQ)'
  BY <1>1 DEF IInv
<1>5. HashSpeaks(hash, guiQ, modelQ, rows, touched)'
  <2>1. Keeps(guiQ, guiQ, "results")
    BY Kindred DEF IInv, TypeOK
  <2>2. HashSpeaks(hash, guiQ, modelQ', rows, touched)
    BY <1>2, <2>1, HashStays DEF IInv
  <2>3. QED
    BY <1>1, <2>2
<1>6. SearchesFollow(text, modelQ, asked)'
  <2>1. SearchesFollow(text, Append(modelQ, e), asked)
    BY OtherAsked DEF IInv, TypeOK
  <2>2. QED
    BY <1>1, <2>1
<1>7. HashIsOfTheText(text, unsearched, guiQ, modelQ, asked, hash, Found)'
  <2>1. HashIsOfTheText(text, unsearched, guiQ, modelQ', asked, hash, Found)
    BY <1>2, StillOfTheText DEF IInv
  <2>2. QED
    BY <1>1, <2>1, SameFound
<1>8. QED
  BY <1>3, <1>4, <1>5, <1>6, <1>7 DEF IInv

\* The user deletes a contact.
LEMMA DeleteKeeps == ASSUME IInv, NEW p \in People, Delete(p) PROVE IInv'
<1> DEFINE e == [kind |-> "remove", who |-> p]
<1>1. e \in Work /\ e.kind = "remove"
  BY WorkParts
<1>2. /\ Ask(e)
      /\ UNCHANGED <<view, rows, guiQ, book, asked, hash, unsearched, touched>>
  BY DEF Delete
<1> HIDE DEF e
<1>3. QED
  BY <1>1, <1>2, AskingKeeps

\* A card of a person makes a contact.
LEMMA ContactOf ==
  ASSUME NEW p \in People, NEW card \in CardsOf[p]
  PROVE  [who |-> p, card |-> card] \in Contacts
<1>1. card \in Cards
  BY DEF Cards
<1>2. QED
  BY <1>1 DEF Contacts

\* The user saves a new contact.
LEMMA SaveKeeps ==
  ASSUME IInv, NEW p \in People, NEW card \in CardsOf[p], Save(p, card) PROVE IInv'
<1> DEFINE c == [who |-> p, card |-> card]
           e == [kind |-> "create", contact |-> c]
<1>1. c \in Contacts
  BY ContactOf
<1>2. /\ Ask(e)
      /\ UNCHANGED <<view, rows, guiQ, book, asked, hash, unsearched, touched>>
  BY DEF Save
<1> HIDE DEF c
<1>3. e \in Work /\ e.kind = "create"
  BY <1>1, WorkParts
<1> HIDE DEF e
<1>4. QED
  BY <1>2, <1>3, AskingKeeps

\* A search that is run is asked of the SDK.
LEMMA SearchKeeps == ASSUME IInv, Search PROVE IInv'
<1>1. /\ Take("search") /\ asked' = Append(asked, Head(modelQ).text)
      /\ UNCHANGED <<shared, text, loading, rows, guiQ, book, hash, unsearched, touched>>
  BY DEF Search, view
<1>2. /\ modelQ # <<>> /\ modelQ' = Tail(modelQ) /\ Head(modelQ).kind = "search"
      /\ Head(modelQ) \in Work /\ modelQ' \in Seq(Work)
      /\ Has(modelQ, "forget") => Has(modelQ', "forget")
  BY <1>1, TakenOn DEF IInv, TypeOK
<1>3. Head(modelQ).text \in Texts
  BY <1>2, WorkParts
<1>4. asked' \in Seq(Texts) /\ asked' # <<>>
  <2>1. ASSUME NEW t \in Texts PROVE Append(asked, t) \in Seq(Texts) /\ Append(asked, t) # <<>>
    <3>1. asked \in Seq(Texts)
      BY DEF IInv, TypeOK
    <3>2. /\ Append(asked, t) \in Seq(Texts) /\ Len(asked) \in Nat
          /\ Len(Append(asked, t)) = Len(asked) + 1
      BY <3>1, Appended
    <3>3. Len(Append(asked, t)) # 0
      BY <3>2
    <3>4. QED
      BY <3>2, <3>3
  <2>2. QED
    BY <1>1, <1>3, <2>1
<1>5. TypeOK'
  BY <1>1, <1>2, <1>4 DEF IInv, TypeOK
<1>6. ResultsAreDistinct(guiQ)'
  BY <1>1 DEF IInv
<1>7. HashSpeaks(hash, guiQ, modelQ, rows, touched)'
  <2>1. Keeps(guiQ, guiQ, "results")
    BY Kindred DEF IInv, TypeOK
  <2>2. HashSpeaks(hash, guiQ, modelQ', rows, touched)
    BY <1>2, <2>1, HashStays DEF IInv
  <2>3. QED
    BY <1>1, <2>2
<1>8. SearchesFollow(text, modelQ, asked)'
  <2>1. SearchesFollow(text, Tail(modelQ), Append(asked, Head(modelQ).text))
    BY <1>2, TaskTaken DEF IInv, TypeOK
  <2>2. QED
    BY <1>1, <1>2, <2>1
<1>9. HashIsOfTheText(text, unsearched, guiQ, modelQ, asked, hash, Found)'
  BY <1>4 DEF HashIsOfTheText
<1>10. QED
  BY <1>5, <1>6, <1>7, <1>8, <1>9 DEF IInv

\* A hash that is forgotten speaks for nothing, and a search comes after it.
LEMMA ForgetKeeps == ASSUME IInv, Forget PROVE IInv'
<1>1. /\ Take("forget") /\ hash' = NoHash
      /\ UNCHANGED <<shared, text, loading, rows, guiQ, book, asked, unsearched, touched>>
  BY DEF Forget, view
<1>2. /\ modelQ # <<>> /\ modelQ' = Tail(modelQ) /\ Head(modelQ).kind = "forget"
      /\ modelQ' \in Seq(Work)
  BY <1>1, TakenOn DEF IInv, TypeOK
<1>3. TypeOK'
  BY <1>1, <1>2 DEF IInv, TypeOK
<1>4. ResultsAreDistinct(guiQ)'
  BY <1>1 DEF IInv
<1>5. HashSpeaks(hash, guiQ, modelQ, rows, touched)'
  BY <1>1 DEF HashSpeaks
<1>6. /\ SearchesFollow(text, Tail(modelQ), asked)
      /\ text # NoText => Has(Tail(modelQ), "search")
  BY <1>2, TaskTaken DEF IInv, TypeOK
<1>7. SearchesFollow(text, modelQ, asked)'
  BY <1>1, <1>2, <1>6
<1>8. HashIsOfTheText(text, unsearched, guiQ, modelQ, asked, hash, Found)'
  BY <1>1, <1>2, <1>6 DEF HashIsOfTheText
<1>9. QED
  BY <1>3, <1>4, <1>5, <1>7, <1>8 DEF IInv

\* What is left of n after k of them.
LEMMA Remainder ==
  ASSUME NEW n \in Nat, NEW k \in 1 .. n, n - k # 0
  PROVE  n - k \in 1 .. n - k /\ k + (n - k) = n
OBVIOUS

\* The searches after one that is answered.
LEMMA Answered ==
  ASSUME NEW q \in Seq(Texts), NEW i \in DOMAIN q
  PROVE  /\ SubSeq(q, i + 1, Len(q)) \in Seq(Texts)
         /\ q[i] \in Texts /\ q # <<>>
         /\ SubSeq(q, i + 1, Len(q)) = <<>> => i = Len(q)
         /\ SubSeq(q, i + 1, Len(q)) # <<>> =>
              SubSeq(q, i + 1, Len(q))[Len(SubSeq(q, i + 1, Len(q)))] = q[Len(q)]
<1> DEFINE r == SubSeq(q, i + 1, Len(q))
<1>1. /\ r \in Seq(Texts) /\ q[i] \in Texts /\ q # <<>>
      /\ Len(q) \in Nat /\ i \in 1 .. Len(q) /\ Len(r) = Len(q) - i
      /\ \A j \in 1 .. Len(q) - i : r[j] = q[i + j]
  BY Rest
<1> HIDE DEF r
<1>2. ASSUME r = <<>> PROVE i = Len(q)
  <2>1. Len(r) = 0
    BY <1>2
  <2>2. QED
    BY <1>1, <2>1
<1>3. ASSUME r # <<>> PROVE r[Len(r)] = q[Len(q)]
  <2>1. Len(r) # 0
    BY <1>1, <1>3
  <2>2. Len(q) - i \in 1 .. Len(q) - i /\ i + (Len(q) - i) = Len(q)
    <3>1. Len(q) \in Nat /\ i \in 1 .. Len(q) /\ Len(q) - i # 0
      BY <1>1, <2>1
    <3>2. QED
      BY <3>1, Remainder
  <2>3. QED
    BY <1>1, <2>2
<1>4. QED
  BY <1>1, <1>2, <1>3 DEF r

\* Results are reported with their hash, unless the hash speaks for them already.
LEMMA SearchReportsKeeps == ASSUME IInv, SearchReports PROVE IInv'
<1>1. PICK i \in DOMAIN asked :
        /\ asked' = SubSeq(asked, i + 1, Len(asked)) /\ Report(ResultsFor(asked[i]))
        /\ unsearched' = FALSE
        /\ UNCHANGED <<shared, text, loading, rows, modelQ, book, touched>>
  BY DEF SearchReports, view
<1> DEFINE t == asked[i]
           contacts == ResultsFor(t)
           e == [kind |-> "results", contacts |-> contacts]
           same == [kind |-> "unchanged"]
<1>2. /\ asked' \in Seq(Texts) /\ t \in Texts /\ asked # <<>>
      /\ asked' = <<>> => i = Len(asked)
      /\ asked' # <<>> => asked'[Len(asked')] = asked[Len(asked)]
  BY <1>1, Answered DEF IInv, TypeOK
<1>3. /\ contacts \in Seq(Contacts) /\ OneForEachKey(contacts)
      /\ DrawnBy(Hash(contacts)) = Drawn(contacts)
  BY <1>2, ResultsFacts DEF IInv, TypeOK
<1>4. Found[t] = Hash(contacts)
  BY <1>2 DEF Found
<1>5. \/ guiQ' = Append(guiQ, same) /\ hash' = hash /\ Hash(contacts) = hash
      \/ guiQ' = Append(guiQ, e) /\ hash' = Hash(contacts)
  BY <1>1 DEF Report, Post
<1>6. /\ e.kind = "results" /\ e.contacts = contacts /\ same.kind = "unchanged"
      /\ same \in News
  BY NewsParts
<1>7. e \in News
  BY <1>3, NewsParts
<1> HIDE DEF e, same, contacts
<1>8. guiQ \in Seq(News) /\ guiQ' \in Seq(News)
  BY <1>5, <1>6, <1>7, MoreNews DEF IInv, TypeOK
<1>9. hash' = Found[t]
  BY <1>4, <1>5
<1>10. TypeOK'
  BY <1>1, <1>2, <1>8 DEF IInv, TypeOK
<1>11. ResultsAreDistinct(guiQ)'
  <2>1. ResultsAreDistinct(guiQ)
    BY DEF IInv
  <2>2. ResultsAreDistinct(Append(guiQ, same)) /\ ResultsAreDistinct(Append(guiQ, e))
    BY <1>3, <1>6, <1>7, <1>8, <2>1, ResultsStay
  <2>3. QED
    BY <1>5, <2>2
<1>12. HashSpeaks(hash, guiQ, modelQ, rows, touched)'
  <2>1. CASE guiQ' = Append(guiQ, same) /\ hash' = hash
    <3>1. Keeps(guiQ, guiQ', "results")
      BY <1>6, <1>8, <2>1, Kindred
    <3>2. HashSpeaks(hash, guiQ', modelQ, rows, touched)
      BY <3>1, HashStays DEF IInv
    <3>3. QED
      BY <1>1, <2>1, <3>2
  <2>2. CASE guiQ' = Append(guiQ, e) /\ hash' = Hash(contacts)
    <3>1. Has(guiQ', "results")
      BY <1>6, <1>7, <1>8, <2>2, MoreNews
    <3>2. Ends(guiQ, e, guiQ', "results")
      BY <1>7, <1>8, <2>2, GrownLast
    <3>3. \A j : LastOf(guiQ', "results", j) => guiQ'[j] = e
      BY <1>6, <3>2 DEF Ends
    <3>4. \A j : LastOf(guiQ', "results", j) => Drawn(guiQ'[j].contacts) = DrawnBy(hash')
      BY <1>3, <1>6, <2>2, <3>3
    <3>5. QED
      BY <3>1, <3>4 DEF HashSpeaks
  <2>3. QED
    BY <1>5, <2>1, <2>2
<1>13. SearchesFollow(text, modelQ, asked')
  <2>1. SearchesFollow(text, modelQ, asked)
    BY DEF IInv
  <2>2. QED
    BY <1>2, <2>1 DEF SearchesFollow
<1>14. HashIsOfTheText(text, FALSE, guiQ', modelQ, asked', hash', Found)
  <2>1. SUFFICES ASSUME text # NoText, ~Has(modelQ, "search"), asked' = <<>>
                 PROVE  hash' = Found[text]
    BY DEF HashIsOfTheText
  <2>2. asked[Len(asked)] = text
    BY <1>2, <2>1 DEF IInv, SearchesFollow
  <2>3. t = text
    BY <1>2, <2>1, <2>2
  <2>4. QED
    BY <1>9, <2>3
<1>15. Found' = Found
  BY <1>1, SameFound
<1>16. /\ SearchesFollow(text, modelQ, asked)'
       /\ HashIsOfTheText(text, unsearched, guiQ, modelQ, asked, hash, Found)'
  BY <1>1, <1>13, <1>14, <1>15
<1>17. QED
  BY <1>10, <1>11, <1>12, <1>16 DEF IInv

\* A deleted contact leaves the books, and the list is told.
LEMMA RemoveFriendKeeps == ASSUME IInv, RemoveFriend PROVE IInv'
<1> DEFINE p == Head(modelQ).who
           c == [who |-> p, card |-> book[p]]
           e == [kind |-> "removed", contact |-> c]
<1>1. /\ Take("remove")
      /\ \/ book[p] = NoCard /\ UNCHANGED <<guiQ, book, unsearched>>
         \/ /\ book[p] # NoCard /\ book' = [book EXCEPT ![p] = NoCard]
            /\ guiQ' = Append(guiQ, e) /\ unsearched' = TRUE
      /\ UNCHANGED <<shared, text, loading, rows, asked, hash, touched>>
  BY DEF RemoveFriend, view, Post
<1>2. /\ modelQ # <<>> /\ modelQ' = Tail(modelQ) /\ Head(modelQ).kind = "remove"
      /\ Head(modelQ) \in Work /\ modelQ' \in Seq(Work)
      /\ Has(modelQ, "forget") => Has(modelQ', "forget")
      /\ Has(modelQ, "search") => Has(modelQ', "search")
  BY <1>1, TakenOn DEF IInv, TypeOK
<1>3. p \in People
  BY <1>2, WorkParts
<1>4. SearchesFollow(text, Tail(modelQ), asked)
  BY <1>2, TaskTaken DEF IInv, TypeOK
<1>5. SearchesFollow(text, modelQ, asked)'
  BY <1>1, <1>2, <1>4
<1>6. CASE book[p] = NoCard /\ UNCHANGED <<guiQ, book, unsearched>>
  <2>1. TypeOK'
    BY <1>1, <1>2, <1>6 DEF IInv, TypeOK
  <2>2. ResultsAreDistinct(guiQ)'
    BY <1>6 DEF IInv
  <2>3. HashSpeaks(hash, guiQ, modelQ, rows, touched)'
    <3>1. Keeps(guiQ, guiQ, "results")
      BY Kindred DEF IInv, TypeOK
    <3>2. HashSpeaks(hash, guiQ, modelQ', rows, touched)
      BY <1>2, <3>1, HashStays DEF IInv
    <3>3. QED
      BY <1>1, <1>6, <3>2
  <2>4. HashIsOfTheText(text, unsearched, guiQ, modelQ, asked, hash, Found)'
    <3>1. HashIsOfTheText(text, unsearched, guiQ, modelQ', asked, hash, Found)
      BY <1>2, StillOfTheText DEF IInv
    <3>2. QED
      BY <1>1, <1>6, <3>1, SameFound
  <2>5. QED
    BY <1>5, <2>1, <2>2, <2>3, <2>4 DEF IInv
<1>7. CASE /\ book[p] # NoCard /\ book' = [book EXCEPT ![p] = NoCard]
           /\ guiQ' = Append(guiQ, e) /\ unsearched' = TRUE
  <2>1. book[p] \in CardsOf[p] /\ book' \in Books
    BY <1>3, <1>7 DEF IInv, TypeOK, Books
  <2>2. c \in Contacts
    BY <1>3, <2>1, ContactOf
  <2> HIDE DEF c
  <2>3. e \in News /\ e.kind = "removed"
    BY <2>2, NewsParts
  <2> HIDE DEF e
  <2>4. guiQ \in Seq(News) /\ guiQ' \in Seq(News)
    BY <1>7, <2>3, MoreNews DEF IInv, TypeOK
  <2>5. TypeOK'
    BY <1>1, <1>2, <1>7, <2>1, <2>4 DEF IInv, TypeOK
  <2>6. ResultsAreDistinct(guiQ)'
    BY <1>7, <2>3, <2>4, ResultsStay DEF IInv
  <2>7. HashSpeaks(hash, guiQ, modelQ, rows, touched)'
    <3>1. Keeps(guiQ, guiQ', "results")
      BY <1>7, <2>3, <2>4, Kindred
    <3>2. HashSpeaks(hash, guiQ', modelQ', rows, touched)
      BY <1>2, <3>1, HashStays DEF IInv
    <3>3. QED
      BY <1>1, <3>2
  <2>8. HashIsOfTheText(text, unsearched, guiQ, modelQ, asked, hash, Found)'
    BY <1>7 DEF HashIsOfTheText
  <2>9. QED
    BY <1>5, <2>5, <2>6, <2>7, <2>8 DEF IInv
<1>8. QED
  BY <1>1, <1>6, <1>7

\* A contact that is created joins the rows at once, and they count as touched.
LEMMA CreateFriendKeeps == ASSUME IInv, CreateFriend PROVE IInv'
<1> DEFINE c == Head(modelQ).contact
           isNew == book[c.who] = NoCard /\ ~Have(c.card)
<1>1. /\ Take("create") /\ book' = [book EXCEPT ![c.who] = c.card]
      /\ rows' = (IF isNew THEN Append(rows, c) ELSE rows)
      /\ touched' = (touched \/ isNew) /\ unsearched' = TRUE
      /\ UNCHANGED <<shared, text, loading, guiQ, asked, hash>>
  BY DEF CreateFriend, view
<1> HIDE DEF isNew
<1>2. /\ modelQ # <<>> /\ modelQ' = Tail(modelQ) /\ Head(modelQ).kind = "create"
      /\ Head(modelQ) \in Work /\ modelQ' \in Seq(Work)
      /\ Has(modelQ, "forget") => Has(modelQ', "forget")
  BY <1>1, TakenOn DEF IInv, TypeOK
<1>3. c \in Contacts
  BY <1>2, WorkParts
<1> HIDE DEF c
<1>4. book' \in Books
  <2>1. c.who \in People /\ c.card \in Cards /\ c.card \in CardsOf[c.who]
    BY <1>3 DEF Contacts
  <2>2. QED
    BY <1>1, <2>1 DEF IInv, TypeOK, Books
<1>5. rows' \in Seq(Contacts)
  <2>1. rows \in Seq(Contacts)
    BY DEF IInv, TypeOK
  <2>2. Append(rows, c) \in Seq(Contacts)
    BY <1>3, <2>1, Appended
  <2>3. QED
    BY <1>1, <2>1, <2>2
<1>6. /\ touched' \in BOOLEAN
      /\ ~touched' => rows' = rows /\ ~touched
  BY <1>1 DEF IInv, TypeOK
<1>7. TypeOK'
  <2>1. ~touched' => OneForEachKey(rows')
    BY <1>6 DEF IInv, TypeOK
  <2>2. QED
    BY <1>1, <1>2, <1>4, <1>5, <1>6, <2>1 DEF IInv, TypeOK
<1>8. ResultsAreDistinct(guiQ)'
  BY <1>1 DEF IInv
<1>9. HashSpeaks(hash, guiQ, modelQ, rows, touched)'
  <2>1. Keeps(guiQ, guiQ, "results")
    BY Kindred DEF IInv, TypeOK
  <2>2. HashSpeaks(hash, guiQ, modelQ', rows', touched')
    BY <1>2, <1>6, <2>1, HashStays DEF IInv
  <2>3. QED
    BY <1>1, <2>2
<1>10. SearchesFollow(text, modelQ, asked)'
  <2>1. SearchesFollow(text, Tail(modelQ), asked)
    BY <1>2, TaskTaken DEF IInv, TypeOK
  <2>2. QED
    BY <1>1, <1>2, <2>1
<1>11. HashIsOfTheText(text, unsearched, guiQ, modelQ, asked, hash, Found)'
  BY <1>1 DEF HashIsOfTheText
<1>12. QED
  BY <1>7, <1>8, <1>9, <1>10, <1>11 DEF IInv

\* A sync, whatever it changes, is told to the list.
LEMMA SynchronizeKeeps == ASSUME IInv, Synchronize PROVE IInv'
<1> DEFINE e == [kind |-> "synchronized"]
<1>1. PICK p \in People : \E card \in CardsOf[p] \union {NoCard} : book' = [book EXCEPT ![p] = card]
  BY DEF Synchronize
<1>2. PICK card \in CardsOf[p] \union {NoCard} : book' = [book EXCEPT ![p] = card]
  BY <1>1
<1>3. /\ guiQ' = Append(guiQ, e)
      /\ UNCHANGED <<shared, text, loading, rows, modelQ, asked, hash, unsearched, touched>>
  BY DEF Synchronize, Post, view
<1>4. e \in News /\ e.kind = "synchronized"
  BY NewsParts
<1> HIDE DEF e
<1>5. book' \in Books
  <2>1. card \in Cards \union {NoCard}
    BY DEF Cards
  <2>2. QED
    BY <1>2, <2>1 DEF IInv, TypeOK, Books
<1>6. guiQ \in Seq(News) /\ guiQ' \in Seq(News) /\ Has(guiQ', "synchronized")
  BY <1>3, <1>4, MoreNews DEF IInv, TypeOK
<1>7. TypeOK'
  BY <1>3, <1>5, <1>6 DEF IInv, TypeOK
<1>8. ResultsAreDistinct(guiQ)'
  BY <1>3, <1>4, <1>6, ResultsStay DEF IInv
<1>9. HashSpeaks(hash, guiQ, modelQ, rows, touched)'
  <2>1. Keeps(guiQ, guiQ', "results")
    BY <1>3, <1>4, <1>6, Kindred
  <2>2. HashSpeaks(hash, guiQ', modelQ, rows, touched)
    BY <2>1, HashStays DEF IInv
  <2>3. QED
    BY <1>3, <2>2
<1>10. SearchesFollow(text, modelQ, asked)'
  BY <1>3 DEF IInv
<1>11. HashIsOfTheText(text, unsearched, guiQ, modelQ, asked, hash, Found)'
  BY <1>6 DEF HashIsOfTheText
<1>12. QED
  BY <1>7, <1>8, <1>9, <1>10, <1>11 DEF IInv

\* Each step keeps the invariant.
LEMMA NextIInv == IInv /\ [Next]_vars => IInv'
<1>1. SUFFICES ASSUME IInv, [Next]_vars PROVE IInv'
  OBVIOUS
<1>2. CASE Gui
  BY <1>1, <1>2, ForceUpdateKeeps, OnResultsKeeps, OnUnchangedKeeps, OnRemovedKeeps DEF Gui
<1>3. CASE Linphone
  BY <1>1, <1>3, SearchKeeps, ForgetKeeps, RemoveFriendKeeps, CreateFriendKeeps DEF Linphone
<1>4. CASE SearchReports
  BY <1>1, <1>4, SearchReportsKeeps
<1>5. CASE Synchronize
  BY <1>1, <1>5, SynchronizeKeeps
<1>6. CASE User
  BY <1>1, <1>6, ClearTextKeeps, SetTextKeeps, DeleteKeeps, SaveKeeps DEF User
<1>7. CASE UNCHANGED vars
  <2>1. UNCHANGED <<shared, text, loading, rows, guiQ, modelQ, book, asked, hash, unsearched, touched>>
    BY <1>7 DEF vars, view
  <2>2. Found' = Found
    BY <2>1, SameFound
  <2>3. TypeOK'
    BY <1>1, <2>1 DEF IInv, TypeOK
  <2>4. /\ ResultsAreDistinct(guiQ)' /\ HashSpeaks(hash, guiQ, modelQ, rows, touched)'
        /\ SearchesFollow(text, modelQ, asked)'
        /\ HashIsOfTheText(text, unsearched, guiQ, modelQ, asked, hash, Found)'
    BY <1>1, <2>1, <2>2 DEF IInv
  <2>5. QED
    BY <2>3, <2>4 DEF IInv
<1>8. QED
  BY <1>1, <1>2, <1>3, <1>4, <1>5, <1>6, <1>7 DEF Next

-----------------------------------------------------------------------------
(* The theorems *)

\* The hash speaks for what the rows are or are about to be, and the last search on its way is
\* for the text on show, for every address book, every text and every length of the queues.
THEOREM Invariance == Spec => []IInv
<1>1. QED
  BY InitIInv, NextIInv, PTL DEF Spec

\* The queues hold what the two threads expect of them, and a key has one row unless the rows
\* were touched.
THEOREM TypeSafety == Spec => []TypeOK
<1>1. IInv => TypeOK
  BY DEF IInv
<1>2. QED
  BY <1>1, Invariance, PTL

\* However searches, answers, cleared texts and syncs crossed, with nothing on its way the rows
\* are the contacts that match the text: no report is skipped that the rows lack.
THEOREM ResultsSafety == Spec => []QuietRowsAreResults
<1>1. IInv => QuietRowsAreResults
  <2>1. SUFFICES ASSUME IInv, Quiet, text # NoText, ~unsearched, ~touched PROVE ShowsResults
    BY DEF QuietRowsAreResults
  <2>2. modelQ = <<>> /\ guiQ = <<>> /\ asked = <<>> /\ text \in Texts
    BY <2>1 DEF Quiet, IInv, TypeOK
  <2>3. \A kind : ~Has(<<>>, kind)
    BY DEF Has
  <2>4. hash = Found[text]
    BY <2>1, <2>2, <2>3 DEF IInv, HashIsOfTheText
  <2>5. hash = Hash(ResultsFor(text))
    BY <2>2, <2>4 DEF Found
  <2>6. /\ ResultsFor(text) \in Seq(Contacts) /\ OneForEachKey(ResultsFor(text))
        /\ hash # NoHash /\ DrawnBy(hash) = Drawn(ResultsFor(text))
    <3>1. book \in Books
      BY <2>1 DEF IInv, TypeOK
    <3>2. QED
      BY <2>2, <2>5, <3>1, ResultsFacts
  <2>7. Drawn(rows) = DrawnBy(hash)
    BY <2>1, <2>2, <2>3, <2>6 DEF IInv, HashSpeaks
  <2>8. rows \in Seq(Contacts) /\ OneForEachKey(rows)
    BY <2>1 DEF IInv, TypeOK
  <2>9. Len(rows) = Len(ResultsFor(text))
    BY <2>6, <2>7, <2>8, LengthIsDrawn
  <2>10. QED
    BY <2>6, <2>7, <2>9 DEF ShowsResults
<1>2. QED
  BY <1>1, Invariance, PTL

\* Only the slot of the results takes them from the queue.
LEMMA ResultsAreHeardOnce ==
  ASSUME IInv, [Next]_vars, Hear("results")
  PROVE  OnResults
<1>1. /\ guiQ # <<>> /\ Head(guiQ).kind = "results" /\ guiQ' = Tail(guiQ) /\ guiQ \in Seq(News)
  BY DEF Hear, IInv, TypeOK
<1>2. guiQ' # guiQ /\ \A e \in News : guiQ' # Append(guiQ, e)
  <2>1. Len(guiQ') = Len(guiQ) - 1 /\ Len(guiQ) \in Nat
    BY <1>1, Advanced
  <2>2. \A e \in News : Len(Append(guiQ, e)) = Len(guiQ) + 1
    BY <1>1, Appended
  <2>3. Len(guiQ) - 1 # Len(guiQ) /\ Len(guiQ) - 1 # Len(guiQ) + 1
    BY <2>1
  <2>4. QED
    BY <2>1, <2>2, <2>3
<1>3. ~ForceUpdate /\ ~OnUnchanged /\ ~OnRemoved
  BY <1>1 DEF ForceUpdate, OnUnchanged, OnRemoved, Hear
<1>4. ~Search /\ ~Forget /\ ~CreateFriend /\ ~UNCHANGED vars
  BY <1>2 DEF Search, Forget, CreateFriend, vars
<1>5. ~ClearText /\ \A t \in Texts : ~SetText(t)
  BY <1>2 DEF ClearText, SetText
<1>6. \A p \in People : ~Delete(p) /\ \A card \in CardsOf[p] : ~Save(p, card)
  BY <1>2 DEF Delete, Save
<1>7. ~Synchronize
  BY <1>2, NewsParts DEF Synchronize, Post
<1>8. ~SearchReports
  <2>1. SUFFICES ASSUME NEW i \in DOMAIN asked, Report(ResultsFor(asked[i])) PROVE FALSE
    BY DEF SearchReports
  <2>2. asked[i] \in Texts /\ book \in Books
    BY DEF IInv, TypeOK
  <2>3. ResultsFor(asked[i]) \in Seq(Contacts)
    BY <2>2, ResultsFacts
  <2>4. /\ [kind |-> "unchanged"] \in News
        /\ [kind |-> "results", contacts |-> ResultsFor(asked[i])] \in News
    BY <2>3, NewsParts
  <2>5. QED
    BY <1>2, <2>1, <2>4 DEF Report, Post
<1>9. ~RemoveFriend
  <2>1. SUFFICES ASSUME RemoveFriend PROVE FALSE
    OBVIOUS
  <2> DEFINE p == Head(modelQ).who
             c == [who |-> p, card |-> book[p]]
  <2>2. Take("remove") /\ book[p] # NoCard /\ guiQ' = Append(guiQ, [kind |-> "removed", contact |-> c])
    BY <1>2, <2>1 DEF RemoveFriend, Post
  <2>3. p \in People
    BY <2>2, TakenOn, WorkParts DEF IInv, TypeOK
  <2>4. book[p] \in CardsOf[p]
    BY <2>2, <2>3 DEF IInv, TypeOK, Books
  <2>5. c \in Contacts
    BY <2>3, <2>4, ContactOf
  <2>6. QED
    BY <1>2, <2>2, <2>5, NewsParts
<1>10. QED
  BY <1>3, <1>4, <1>5, <1>6, <1>7, <1>8, <1>9 DEF Next, Gui, Linphone, User

\* Results never move a row that stays.
THEOREM RowsSafety == Spec => KeptRowsDoNotMove
<1> DEFINE moves(i, k) == RowOf(rows[i]) = i /\ Key(rows[i]) = Key(rows'[k])
<1>1. ASSUME IInv, [Next]_vars, Hear("results"),
             NEW i \in DOMAIN rows, NEW j \in DOMAIN rows,
             NEW k \in DOMAIN rows', NEW l \in DOMAIN rows', moves(i, k), moves(j, l)
      PROVE  k <= i /\ (i < j => k < l)
  <2> DEFINE contacts == Head(guiQ).contacts
             take == Taken(contacts)
  <2>1. OnResults
    BY <1>1, ResultsAreHeardOnce
  <2>2. rows' = Merged(contacts)
    BY <2>1 DEF OnResults
  <2>3. rows \in Seq(Contacts) /\ contacts \in Seq(Contacts) /\ OneForEachKey(contacts)
    <3>1. guiQ # <<>> /\ Head(guiQ).kind = "results" /\ Head(guiQ) \in News
      BY <1>1, Heard DEF IInv, TypeOK
    <3>2. OneForEachKey(contacts)
      BY <1>1, <3>1, ResultsStay DEF IInv, TypeOK
    <3>3. QED
      BY <1>1, <3>1, <3>2, NewsParts DEF IInv, TypeOK
  <2> HIDE DEF contacts
  <2>4. ASSUME NEW a \in DOMAIN rows, NEW b \in DOMAIN rows', moves(a, b)
        PROVE  b \in DOMAIN Kept(contacts) /\ Ascending(take)[b] = a
    <3>1. ASSUME NEW n \in DOMAIN contacts, rows'[b].card = contacts[n].card
          PROVE  RowOf(contacts[n]) = a
      <4>1. Key(contacts[n]) = Key(rows[a])
        BY <2>4, <3>1 DEF Key
      <4>2. QED
        BY <2>3, <2>4, <4>1, RowFacts
    <3>2. a # 0 /\ b \in DOMAIN Merged(contacts) /\ rows'[b] = Merged(contacts)[b]
      BY <2>2, <2>3
    <3>3. CASE b \in DOMAIN Kept(contacts)
      <4>1. PICK n \in DOMAIN contacts :
              /\ RowOf(contacts[n]) = Ascending(Taken(contacts))[b]
              /\ Merged(contacts)[b].card = contacts[n].card
        BY <2>3, <3>2, <3>3, MergeParts
      <4>2. RowOf(contacts[n]) = a
        BY <3>1, <3>2, <4>1
      <4>3. QED
        BY <3>3, <4>1, <4>2
    <3>4. CASE b \notin DOMAIN Kept(contacts)
      <4>1. PICK n \in DOMAIN contacts :
              RowOf(contacts[n]) = 0 /\ Merged(contacts)[b] = contacts[n]
        BY <2>3, <3>2, <3>4, MergeParts
      <4>2. RowOf(contacts[n]) = a
        BY <3>1, <3>2, <4>1
      <4>3. QED
        BY <3>2, <4>1, <4>2
    <3>5. QED
      BY <3>3, <3>4
  <2>5. /\ k \in DOMAIN Kept(contacts) /\ Ascending(take)[k] = i
        /\ l \in DOMAIN Kept(contacts) /\ Ascending(take)[l] = j
    BY <1>1, <2>4
  <2>6. /\ k < l <=> Ascending(take)[k] < Ascending(take)[l]
        /\ k <= Ascending(take)[k]
    BY <2>3, <2>5, MergeOrder
  <2>7. QED
    BY <2>5, <2>6
<1>2. IInv /\ [Next]_vars =>
        (Hear("results") =>
           \A i, j \in DOMAIN rows : \A k, l \in DOMAIN rows' :
             /\ RowOf(rows[i]) = i /\ Key(rows[i]) = Key(rows'[k])
             /\ RowOf(rows[j]) = j /\ Key(rows[j]) = Key(rows'[l])
             => k <= i /\ (i < j => k < l))
  BY <1>1
<1>3. QED
  BY <1>2, Invariance, PTL DEF Spec, KeptRowsDoNotMove
=============================================================================
